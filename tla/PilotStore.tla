----------------------------- MODULE PilotStore -----------------------------
(***************************************************************************)
(* internal/repository/redis.go, the pilots: the geo index pilots:geo, the  *)
(* hash pilot:<device> with its TTL, and the list track:<device>.          *)
(*                                                                         *)
(* The index is one sorted set of all the devices and never expires; hashes *)
(* and tracks do.  A pipeline reaches Redis in one write and is one step;   *)
(* UpdatePilotName makes two calls and is two.  Places lie on a line.       *)
(* Redis accepts the places of Indexable only (no coordinate is zero, and   *)
(* the latitude is within Mercator's); a track takes those that are not     *)
(* Zero.  Of the hash's fields only the position and last_update are kept.  *)
(***************************************************************************)
EXTENDS Integers, Sequences, FiniteSets

CONSTANTS
  Device,
  Place,          \* positions, points of a line
  Indexable,      \* those with coordinates that SavePilot indexes
  Zero,           \* those with a zero coordinate
  None,           \* no entry, no position
  PilotTTL,       \* 12 hours
  MaxTrackPoints, \* the last index that LTRIM keeps
  RadiusCount,    \* Count of GEORADIUS
  Horizon         \* bound on the clock

ASSUME PilotStoreAssumption ==
  /\ Place \subseteq Int /\ Indexable \subseteq Place /\ Zero \subseteq Place \ Indexable
  /\ None \notin Place
  /\ PilotTTL \in Nat \ {0} /\ MaxTrackPoints \in Nat
  /\ RadiusCount \in Nat \ {0} /\ Horizon \in Nat

VARIABLES
  now,     \* the hour
  index,   \* pilots:geo
  hash,    \* pilot:<device>
  track,   \* track:<device>, the newest point first
  naming,  \* UpdatePilotName between its calls
  placed,  \* when the indexed position was measured (for the properties)
  special  \* what else than SavePilot has touched its keys since (for the properties)

pilotVars == <<now, index, hash, track, naming, placed, special>>

Time     == 0..Horizon
Never    == Horizon + PilotTTL + 1
Deadline == 0..Never
Hash     == [place : Place \cup {None}, at : Time, expires : Deadline]
Point    == [place : Place, at : Time]
Track    == [points : Seq(Point), expires : Deadline]
Special  == {"swept", "refreshed"}

PilotInit ==
  /\ now    = 0
  /\ index  = [d \in Device |-> None]
  /\ hash   = [d \in Device |-> None]
  /\ track  = [d \in Device |-> None]
  /\ naming = [d \in Device |-> "none"]
  /\ placed = [d \in Device |-> 0]
  /\ special = [d \in Device |-> {}]

-----------------------------------------------------------------------------
(* Writing.                                                                 *)

Expires == now + PilotTTL

\* The index: only coordinates that Redis takes; other ones leave the entry as it is.
GeoAddNew(d, p) ==
  IF p \in Indexable /\ index[d] = None THEN [index EXCEPT ![d] = p] ELSE index
GeoAdd(d, p) == IF p \in Indexable THEN [index EXCEPT ![d] = p] ELSE index

\* HSET of all the fields, and EXPIRE.
HashOf(d, p, t) == [place |-> p, at |-> t, expires |-> Expires]

\* LPUSH, LTRIM and EXPIRE.
Pushed(points, point) ==
  LET pushed == <<point>> \o points
  IN  SubSeq(pushed, 1, IF Len(pushed) <= MaxTrackPoints + 1 THEN Len(pushed)
                        ELSE MaxTrackPoints + 1)
TrackWith(d, p, t) ==
  [points  |-> Pushed(IF track[d] = None THEN <<>> ELSE track[d].points,
                      [place |-> p, at |-> t]),
   expires |-> Expires]

SavePilot(d, p, t) ==
  /\ index'  = GeoAdd(d, p)
  /\ hash'   = [hash EXCEPT ![d] = HashOf(d, p, t)]
  /\ track'  = IF p \in Zero THEN track ELSE [track EXCEPT ![d] = TrackWith(d, p, t)]
  /\ placed' = IF p \in Indexable THEN [placed EXCEPT ![d] = t] ELSE placed
  /\ special' = [special EXCEPT ![d] = IF p \in Indexable THEN {} ELSE @ \ {"refreshed"}]
  /\ UNCHANGED <<now, naming>>

\* UpdatePilotName's EXISTS.  An error reads as zero.
NameExists(d) ==
  /\ naming[d] = "none"
  /\ \E call \in {"create"} \cup (IF hash[d] = None THEN {} ELSE {"rename"}) :
       naming' = [naming EXCEPT ![d] = call]
  /\ UNCHANGED <<now, index, hash, track, placed, special>>

\* HSET of name and last_update, and EXPIRE; the other fields of a hash that has
\* appeared in between stay.
CreatedHash(d) ==
  [place |-> IF hash[d] = None THEN None ELSE hash[d].place, at |-> now, expires |-> Expires]

\* HSET of the name alone; it creates a hash if the old one is gone, without a TTL.
RenamedAndKept(d) ==
  IF hash[d] = None THEN [place |-> None, at |-> 0, expires |-> Never]
  ELSE [hash[d] EXCEPT !.expires = Expires]
RenamedHash(d) ==
  IF hash[d] = None THEN [place |-> None, at |-> 0, expires |-> Never] ELSE hash[d]

NameWrite(d) ==
  /\ naming[d] # "none"
  /\ hash'    = [hash EXCEPT ![d] = IF naming[d] = "create" THEN CreatedHash(d)
                                    ELSE RenamedHash(d)]
  /\ special' = [special EXCEPT ![d] = IF naming[d] = "create" /\ hash[d] # None
                                       THEN @ \cup {"refreshed"} ELSE @]
  /\ naming'  = [naming EXCEPT ![d] = "none"]
  /\ UNCHANGED <<now, index, track, placed>>

RemovePilot(d) ==
  /\ index' = [index EXCEPT ![d] = None]
  /\ hash'  = [hash EXCEPT ![d] = None]
  /\ track' = [track EXCEPT ![d] = None]
  /\ UNCHANGED <<now, naming, placed, special>>

\* DeletePilot takes "<device>" out of the index, whose members are "pilot:<device>":
\* nothing.  It keeps the track.
DeletePilot(d) ==
  /\ hash' = [hash EXCEPT ![d] = None]
  /\ UNCHANGED <<now, index, track, naming, placed, special>>

\* CleanupExpired asks for the key "pilot:pilot:<device>", which no device has.
CleanupExpired ==
  /\ index' = [d \in Device |-> None]
  /\ special' = [d \in Device |-> special[d] \cup {"swept"}]
  /\ UNCHANGED <<now, hash, track, naming, placed>>

\* An hour passes; keys expire.
Alive(key) == IF key = None \/ key.expires > now + 1 THEN key ELSE None
Hour ==
  /\ now < Horizon
  /\ now'   = now + 1
  /\ hash'  = [d \in Device |-> Alive(hash[d])]
  /\ track' = [d \in Device |-> Alive(track[d])]
  /\ UNCHANGED <<index, naming, placed, special>>

-----------------------------------------------------------------------------
(* Reading.                                                                 *)

Distance(p, q) == IF p > q THEN p - q ELSE q - p

\* GEORADIUS with Count and ASC: what it may answer is a set of the nearest members.
Near(c, r) == {d \in Device : index[d] # None /\ Distance(index[d], c) <= r}
GeoRadius(c, r) ==
  {A \in SUBSET Near(c, r) :
     /\ Cardinality(A) <= RadiusCount
     /\ A # Near(c, r) => Cardinality(A) = RadiusCount
     /\ \A d \in A, e \in Near(c, r) \ A : Distance(index[d], c) <= Distance(index[e], c)}

\* GetPilotsInRadius reads the hash of each member, passes over those that are gone,
\* and takes the position from the index.
GetPilotsInRadius(members) ==
  {[device |-> d, place |-> index[d], at |-> hash[d].at] : d \in {m \in members : hash[m] # None}}

\* GetPilot takes it from the hash; a hash without coordinates reads as zero.
GetPilot(d) ==
  IF hash[d] = None THEN None ELSE [device |-> d, place |-> hash[d].place, at |-> hash[d].at]

-----------------------------------------------------------------------------
PilotNext ==
  \/ \E d \in Device, p \in Place : SavePilot(d, p, now)
  \/ \E d \in Device : NameExists(d) \/ NameWrite(d) \/ RemovePilot(d) \/ DeletePilot(d)
  \/ CleanupExpired
  \/ Hour

PilotSpec == PilotInit /\ [][PilotNext]_pilotVars

-----------------------------------------------------------------------------
(* Properties.                                                              *)

\* The type of every variable.
PilotTypeOK ==
  /\ now    \in Time
  /\ index  \in [Device -> Indexable \cup {None}]
  /\ hash   \in [Device -> Hash \cup {None}]
  /\ track  \in [Device -> Track \cup {None}]
  /\ naming \in [Device -> {"none", "create", "rename"}]
  /\ placed \in [Device -> Time]
  /\ special \in [Device -> SUBSET Special]

HasPosition(d) == GetPilot(d) # None /\ GetPilot(d).place # None

\* A device that is shown is shown where it is: while its hash has a position that
\* can be indexed, the index and the newest point of its track have the same one,
\* however saves, names, removals and expiries of the three keys are mixed.  Only
\* CleanupExpired takes a live pilot out of the index.  And no position is kept for ever,
\* though UpdatePilotName can write its name after the hash has expired, which makes a
\* hash without a TTL.
ShownWhereSaved ==
  \A d \in Device : HasPosition(d) =>
    /\ hash[d].expires # Never
    /\ hash[d].place \in Indexable =>
         /\ index[d] = hash[d].place \/ (index[d] = None /\ "swept" \in special[d])
         /\ track[d] # None => Head(track[d].points).place = hash[d].place

\* The index remembers positions for ever, and a hash that lacks a position borrows the
\* one it remembers: what GetPilotsInRadius answers is a position of the last TTL, unless
\* the hash was made by a name message, holds coordinates that cannot be indexed, or had
\* its life prolonged by an UpdatePilotName that did not see it.
StaleOnlyWithoutPosition ==
  \A c \in Place : \A members \in GeoRadius(c, 1) :
    \A pilot \in GetPilotsInRadius(members) :
      \/ now - placed[pilot.device] < PilotTTL
      \/ hash[pilot.device].place \notin Indexable
      \/ "refreshed" \in special[pilot.device]
=============================================================================
