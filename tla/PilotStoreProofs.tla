-------------------------- MODULE PilotStoreProofs --------------------------
(***************************************************************************)
(* What PilotStore guarantees for any devices, places and lifetimes.        *)
(*                                                                         *)
(* A save writes the three keys of a device in one step; every other        *)
(* operation touches some of them only, and the proof goes through what     *)
(* each of them may do to a hash that has a position.                      *)
(***************************************************************************)
EXTENDS PilotStore, SequenceTheorems, TLAPS

\* A hash with a position is mortal.
Mortal(d) == hash[d] # None /\ hash[d].place # None => hash[d].expires # Never

\* A hash whose position can be indexed agrees with the index, where nothing has been
\* swept, and with the newest point of the track.
AgreesWithIndex(d) ==
  hash[d] # None /\ hash[d].place \in Indexable
    => index[d] = hash[d].place \/ (index[d] = None /\ "swept" \in special[d])

NewestPoint(d) ==
  track[d] # None => track[d].points # <<>> /\
    (hash[d] # None /\ hash[d].place \in Indexable
       => Head(track[d].points).place = hash[d].place)

Agree(d) == Mortal(d) /\ AgreesWithIndex(d) /\ NewestPoint(d)

StoreInv == PilotTypeOK /\ \A d \in Device : Agree(d)

-----------------------------------------------------------------------------
(* Keys.                                                                    *)

LEMMA PushedPoints ==
  ASSUME NEW S, NEW points \in Seq(S), NEW point \in S
  PROVE  /\ Pushed(points, point) \in Seq(S)
         /\ Pushed(points, point) # <<>>
         /\ Head(Pushed(points, point)) = point
<1>. DEFINE pushed == <<point>> \o points
            n == IF Len(pushed) <= MaxTrackPoints + 1 THEN Len(pushed) ELSE MaxTrackPoints + 1
<1>1. pushed \in Seq(S) /\ Len(pushed) >= 1 /\ pushed[1] = point
  OBVIOUS
<1>2. n \in 1..Len(pushed)
  BY <1>1, PilotStoreAssumption
<1>. HIDE DEF pushed, n
<1>3. SubSeq(pushed, 1, n) \in Seq(S) /\ Len(SubSeq(pushed, 1, n)) = n
      /\ SubSeq(pushed, 1, n)[1] = pushed[1]
  BY <1>1, <1>2
<1>. QED
  BY <1>1, <1>2, <1>3 DEF Pushed, pushed, n

LEMMA Deadlines ==
  ASSUME now \in Time
  PROVE  Expires \in Deadline /\ Expires # Never /\ Never \in Deadline /\ 0 \in Time
BY PilotStoreAssumption DEF Expires, Deadline, Never, Time

\* None is not one of the places, and a position that can be indexed is not a zero one.
LEMMA PlacesApart == None \notin Indexable /\ Indexable \subseteq Place /\ Indexable \cap Zero = {}
BY PilotStoreAssumption

LEMMA ShownHasHash ==
  ASSUME NEW d \in Device, HasPosition(d)
  PROVE  hash[d] # None /\ hash[d].place # None
BY DEF HasPosition, GetPilot

LEMMA InvShows == StoreInv => ShownWhereSaved
BY ShownHasHash, PlacesApart DEF StoreInv, Agree, Mortal, AgreesWithIndex, NewestPoint, ShownWhereSaved

-----------------------------------------------------------------------------
(* Every operation keeps StoreInv.                                          *)

\* A save writes the hash, and the index and the track unless a coordinate forbids it.
LEMMA SaveKeeps ==
  ASSUME StoreInv, NEW d \in Device, NEW p \in Place, NEW t \in Time, SavePilot(d, p, t)
  PROVE  StoreInv'
<1>. DEFINE saved == HashOf(d, p, t)
            trail == TrackWith(d, p, t)
<1>1. now \in Time /\ UNCHANGED <<now, naming>>
  BY DEF StoreInv, PilotTypeOK, SavePilot
<1>2. saved \in Hash /\ saved.place = p /\ saved.expires # Never
  BY <1>1, Deadlines DEF HashOf, Hash
<1>3. /\ trail \in Track /\ trail.points # <<>> /\ Head(trail.points).place = p
  <2>. DEFINE old   == IF track[d] = None THEN <<>> ELSE track[d].points
              point == [place |-> p, at |-> t]
  <2>1. old \in Seq(Point) /\ point \in Point
    <3>1. track[d] # None => track[d] \in Track
      BY DEF StoreInv, PilotTypeOK
    <3>2. track[d] # None => track[d].points \in Seq(Point)
      BY <3>1 DEF Track
    <3>3. point \in Point
      BY DEF Point
    <3>. QED
      BY <3>2, <3>3
  <2>2. trail = [points |-> Pushed(old, point), expires |-> Expires]
    BY DEF TrackWith
  <2>. HIDE DEF old, trail
  <2>3. /\ Pushed(old, point) \in Seq(Point) /\ Pushed(old, point) # <<>>
        /\ Head(Pushed(old, point)) = point
    BY <2>1, PushedPoints
  <2>. QED
    BY <1>1, <2>2, <2>3, Deadlines DEF Track
<1>. HIDE DEF saved, trail
<1>4. hash' = [hash EXCEPT ![d] = saved]
  BY DEF SavePilot, saved
<1>5. track' = IF p \in Zero THEN track ELSE [track EXCEPT ![d] = trail]
  BY DEF SavePilot, trail
<1>6. index' = IF p \in Indexable THEN [index EXCEPT ![d] = p] ELSE index
  BY DEF SavePilot, GeoAdd
<1>7. special' \in [Device -> SUBSET Special] /\ placed' \in [Device -> Time]
      /\ \A e \in Device \ {d} : special'[e] = special[e]
  BY DEF SavePilot, StoreInv, PilotTypeOK, Special
<1>8. PilotTypeOK'
  BY <1>1, <1>2, <1>3, <1>4, <1>5, <1>6, <1>7 DEF StoreInv, PilotTypeOK
<1>9. Agree(d)'
  <2>1. hash'[d] = saved
    BY <1>4 DEF StoreInv, PilotTypeOK
  <2>2. p \in Indexable => index'[d] = p /\ track'[d] = trail
    BY <1>5, <1>6, PlacesApart DEF StoreInv, PilotTypeOK
  <2>3. track'[d] = trail \/ track'[d] = track[d]
    BY <1>5 DEF StoreInv, PilotTypeOK
  <2>. QED
    BY <1>2, <1>3, <2>1, <2>2, <2>3 DEF StoreInv, Agree, Mortal, AgreesWithIndex, NewestPoint
<1>10. ASSUME NEW e \in Device \ {d}
       PROVE  Agree(e)'
  <2>1. hash'[e] = hash[e] /\ track'[e] = track[e] /\ index'[e] = index[e]
        /\ special'[e] = special[e]
    BY <1>4, <1>5, <1>6, <1>7 DEF StoreInv, PilotTypeOK
  <2>. QED
    BY <2>1 DEF StoreInv, Agree, Mortal, AgreesWithIndex, NewestPoint
<1>. QED
  BY <1>8, <1>9, <1>10 DEF StoreInv

LEMMA ExistsKeeps ==
  ASSUME StoreInv, NEW d \in Device, NameExists(d)
  PROVE  StoreInv'
<1>1. UNCHANGED <<now, index, hash, track, placed, special>>
      /\ naming' \in [Device -> {"none", "create", "rename"}]
  BY DEF NameExists, StoreInv, PilotTypeOK
<1>. QED
  BY <1>1 DEF StoreInv, PilotTypeOK, Agree, Mortal, AgreesWithIndex, NewestPoint

\* A name leaves the position of a hash alone, and the hash that it makes has none.
LEMMA NameKeeps ==
  ASSUME StoreInv, NEW d \in Device, NameWrite(d)
  PROVE  StoreInv'
<1>. DEFINE named == IF naming[d] = "create" THEN CreatedHash(d) ELSE RenamedHash(d)
<1>1. now \in Time /\ UNCHANGED <<now, index, track, placed>>
      /\ hash' = [hash EXCEPT ![d] = named]
  BY DEF NameWrite, StoreInv, PilotTypeOK
<1>2. /\ named \in Hash
      /\ named.place = IF hash[d] = None THEN None ELSE hash[d].place
      /\ hash[d] # None /\ hash[d].place # None => named.expires # Never
  <2>1. CASE naming[d] = "create"
    BY <1>1, <2>1, Deadlines DEF CreatedHash, Hash, StoreInv, PilotTypeOK
  <2>2. CASE naming[d] # "create" /\ hash[d] = None
    BY <1>1, <2>2, Deadlines DEF RenamedHash, Hash
  <2>3. CASE naming[d] # "create" /\ hash[d] # None
    BY <2>3 DEF RenamedHash, StoreInv, PilotTypeOK, Agree, Mortal
  <2>. QED
    BY <2>1, <2>2, <2>3
<1>. HIDE DEF named
<1>3. /\ special' \in [Device -> SUBSET Special]
      /\ \A e \in Device : "swept" \in special[e] => "swept" \in special'[e]
      /\ naming' \in [Device -> {"none", "create", "rename"}]
  BY DEF NameWrite, StoreInv, PilotTypeOK, Special
<1>4. PilotTypeOK'
  BY <1>1, <1>2, <1>3 DEF StoreInv, PilotTypeOK
<1>5. ASSUME NEW e \in Device
      PROVE  Agree(e)'
  <2>1. CASE e = d
    <3>1. hash'[d] = named
      BY <1>1 DEF StoreInv, PilotTypeOK
    <3>. QED
      BY <1>1, <1>2, <1>3, <2>1, <3>1, PlacesApart
      DEF StoreInv, Agree, Mortal, AgreesWithIndex, NewestPoint
  <2>2. CASE e # d
    <3>1. hash'[e] = hash[e]
      BY <1>1, <2>2 DEF StoreInv, PilotTypeOK
    <3>. QED
      BY <1>1, <1>3, <3>1 DEF StoreInv, Agree, Mortal, AgreesWithIndex, NewestPoint
  <2>. QED
    BY <2>1, <2>2
<1>. QED
  BY <1>4, <1>5 DEF StoreInv

\* Operations that only take keys away, or sweep the index and say so.
LEMMA RemovalsKeep ==
  ASSUME StoreInv,
         \/ \E d \in Device : RemovePilot(d) \/ DeletePilot(d)
         \/ CleanupExpired
         \/ Hour
  PROVE  StoreInv'
<1>1. PilotTypeOK'
  <2>1. CASE \E d \in Device : RemovePilot(d) \/ DeletePilot(d)
    BY <2>1 DEF StoreInv, PilotTypeOK, RemovePilot, DeletePilot
  <2>2. CASE CleanupExpired
    BY <2>2 DEF StoreInv, PilotTypeOK, CleanupExpired, Special
  <2>3. CASE Hour
    BY <2>3, PilotStoreAssumption DEF StoreInv, PilotTypeOK, Hour, Alive, Time
  <2>. QED
    BY <2>1, <2>2, <2>3
<1>. DEFINE Loses(e) ==
       /\ hash'[e] = None \/ hash'[e] = hash[e]
       /\ track'[e] = None \/ track'[e] = track[e]
       /\ \/ index'[e] = index[e] /\ special'[e] = special[e]
          \/ hash'[e] = None
          \/ index'[e] = None /\ "swept" \in special'[e]
<1>2. ASSUME NEW e \in Device
      PROVE  Loses(e)
  <2>1. ASSUME NEW d \in Device, RemovePilot(d) \/ DeletePilot(d)
        PROVE  Loses(e)
    <3>1. CASE e = d
      BY <2>1, <3>1 DEF StoreInv, PilotTypeOK, RemovePilot, DeletePilot
    <3>2. CASE e # d
      BY <2>1, <3>2 DEF StoreInv, PilotTypeOK, RemovePilot, DeletePilot
    <3>. QED
      BY <3>1, <3>2
  <2>2. CASE CleanupExpired
    BY <2>2 DEF StoreInv, PilotTypeOK, CleanupExpired
  <2>3. CASE Hour
    BY <2>3 DEF StoreInv, PilotTypeOK, Hour, Alive
  <2>. QED
    BY <2>1, <2>2, <2>3
<1>3. \A e \in Device : Agree(e)'
  BY <1>2 DEF StoreInv, Agree, Mortal, AgreesWithIndex, NewestPoint
<1>. QED
  BY <1>1, <1>3 DEF StoreInv

LEMMA InitHolds == PilotInit => StoreInv
<1>. SUFFICES ASSUME PilotInit
              PROVE  StoreInv
  OBVIOUS
<1>1. PilotTypeOK
  BY PilotStoreAssumption DEF PilotInit, PilotTypeOK, Time, Special
<1>2. \A d \in Device : Agree(d)
  BY DEF PilotInit, Agree, Mortal, AgreesWithIndex, NewestPoint
<1>. QED
  BY <1>1, <1>2 DEF StoreInv

LEMMA StepKeeps == StoreInv /\ [PilotNext]_pilotVars => StoreInv'
<1>. SUFFICES ASSUME StoreInv, [PilotNext]_pilotVars
              PROVE  StoreInv'
  OBVIOUS
<1>1. CASE UNCHANGED pilotVars
  BY <1>1 DEF pilotVars, StoreInv, PilotTypeOK, Agree, Mortal, AgreesWithIndex, NewestPoint
<1>2. CASE PilotNext
  <2>1. now \in Time
    BY DEF StoreInv, PilotTypeOK
  <2>. QED
    BY <1>2, <2>1, SaveKeeps, ExistsKeeps, NameKeeps, RemovalsKeep DEF PilotNext
<1>. QED
  BY <1>1, <1>2

-----------------------------------------------------------------------------
(* How old the position is that an answer shows.                            *)

\* A hash with a position was written with the entry of the index, and dies with it.
Lent(d) ==
  hash[d] # None /\ hash[d].place \in Indexable /\ "refreshed" \notin special[d]
    => hash[d].expires > now /\ hash[d].expires <= placed[d] + PilotTTL

LentInv == \A d \in Device : Lent(d)

\* Times and lifetimes are numbers.
LEMMA Numbers ==
  ASSUME StoreInv, NEW d \in Device, hash[d] # None
  PROVE  /\ hash[d].at \in Int /\ hash[d].expires \in Int /\ now \in Int /\ placed[d] \in Int
         /\ PilotTTL \in Nat \ {0} /\ Horizon \in Nat
BY PilotStoreAssumption DEF StoreInv, PilotTypeOK, Hash, Time, Deadline, Never

LEMMA LentShows ==
  ASSUME StoreInv, LentInv
  PROVE  StaleOnlyWithoutPosition
<1>. SUFFICES ASSUME NEW c \in Place, NEW members \in GeoRadius(c, 1),
                     NEW pilot \in GetPilotsInRadius(members),
                     hash[pilot.device].place \in Indexable,
                     "refreshed" \notin special[pilot.device]
              PROVE  now - placed[pilot.device] < PilotTTL
  BY DEF StaleOnlyWithoutPosition
<1>1. PICK d \in members : hash[d] # None
                          /\ pilot = [device |-> d, place |-> index[d], at |-> hash[d].at]
  BY DEF GetPilotsInRadius
<1>2. d \in Device /\ pilot.device = d
  BY <1>1 DEF GeoRadius, Near
<1>3. hash[d].expires > now /\ hash[d].expires <= placed[d] + PilotTTL
  BY <1>1, <1>2 DEF LentInv, Lent
<1>. QED
  BY <1>1, <1>2, <1>3, Numbers

LEMMA SaveLends ==
  ASSUME StoreInv, LentInv, NEW d \in Device, NEW p \in Place, SavePilot(d, p, now)
  PROVE  LentInv'
<1>1. now \in Int /\ PilotTTL \in Nat \ {0} /\ now' = now
  BY PilotStoreAssumption DEF SavePilot, StoreInv, PilotTypeOK, Time
<1>2. Lent(d)'
  <2>1. hash'[d] = HashOf(d, p, now)
    BY DEF SavePilot, StoreInv, PilotTypeOK
  <2>2. p \in Indexable => placed'[d] = now
    BY DEF SavePilot, StoreInv, PilotTypeOK
  <2>. QED
    BY <1>1, <2>1, <2>2 DEF Lent, HashOf, Expires
<1>3. ASSUME NEW e \in Device \ {d}
      PROVE  Lent(e)'
  <2>1. hash'[e] = hash[e] /\ special'[e] = special[e] /\ placed'[e] = placed[e]
    BY DEF SavePilot, StoreInv, PilotTypeOK
  <2>. QED
    BY <1>1, <2>1 DEF LentInv, Lent
<1>. QED
  BY <1>2, <1>3 DEF LentInv

\* A name that finds no hash makes one without a position; one that should have found the
\* hash and did not says so.
LEMMA NameLends ==
  ASSUME StoreInv, LentInv, NEW d \in Device, NameWrite(d)
  PROVE  LentInv'
<1>. DEFINE named == IF naming[d] = "create" THEN CreatedHash(d) ELSE RenamedHash(d)
<1>1. UNCHANGED <<now, placed>> /\ hash' = [hash EXCEPT ![d] = named]
  BY DEF NameWrite
<1>2. /\ naming[d] = "create" /\ hash[d] # None => "refreshed" \in special'[d]
      /\ \A e \in Device : special[e] \subseteq special'[e]
  BY DEF NameWrite, StoreInv, PilotTypeOK
<1>3. \/ named.place = None
      \/ naming[d] = "create" /\ hash[d] # None
      \/ named = hash[d] /\ hash[d] # None
  BY DEF CreatedHash, RenamedHash
<1>. HIDE DEF named
<1>4. Lent(d)'
  <2>1. hash'[d] = named
    BY <1>1 DEF StoreInv, PilotTypeOK
  <2>. QED
    BY <1>1, <1>2, <1>3, <2>1, PlacesApart DEF LentInv, Lent
<1>5. ASSUME NEW e \in Device \ {d}
      PROVE  Lent(e)'
  <2>1. hash'[e] = hash[e]
    BY <1>1 DEF StoreInv, PilotTypeOK
  <2>. QED
    BY <1>1, <1>2, <2>1 DEF LentInv, Lent
<1>. QED
  BY <1>4, <1>5 DEF LentInv

LEMMA LentStep ==
  ASSUME StoreInv, LentInv, [PilotNext]_pilotVars
  PROVE  LentInv'
<1>1. ASSUME UNCHANGED <<now, placed>>,
             \A e \in Device : hash'[e] \in {None, hash[e]} /\ special[e] \subseteq special'[e]
      PROVE  LentInv'
  BY <1>1 DEF LentInv, Lent
<1>2. CASE UNCHANGED pilotVars \/ CleanupExpired \/ \E d \in Device : NameExists(d)
  <2>1. UNCHANGED <<now, placed, hash>>
        /\ \A e \in Device : special[e] \subseteq special'[e]
    BY <1>2 DEF pilotVars, CleanupExpired, NameExists
  <2>. QED
    BY <1>1, <2>1
<1>3. CASE \E d \in Device : RemovePilot(d) \/ DeletePilot(d)
  <2>1. /\ UNCHANGED <<now, placed, special>>
        /\ \A e \in Device : hash'[e] \in {None, hash[e]}
    BY <1>3 DEF RemovePilot, DeletePilot, StoreInv, PilotTypeOK
  <2>. QED
    BY <1>1, <2>1
<1>4. CASE Hour
  <2>1. ASSUME NEW e \in Device
        PROVE  Lent(e)'
    <3>1. /\ now' = now + 1 /\ UNCHANGED <<placed, special>>
          /\ hash'[e] = Alive(hash[e])
      BY <1>4 DEF Hour
    <3>. QED
      BY <3>1, Numbers DEF LentInv, Lent, Alive
  <2>. QED
    BY <2>1 DEF LentInv
<1>. QED
  BY <1>2, <1>3, <1>4, SaveLends, NameLends DEF PilotNext

-----------------------------------------------------------------------------
(* Theorems.                                                                *)

LEMMA AlwaysStoreInv == PilotSpec => []StoreInv
BY InitHolds, StepKeeps, PTL DEF PilotSpec

\* The keys of a device always hold what their writers put there, for any lifetimes.
THEOREM PilotTypeCorrect == PilotSpec => []PilotTypeOK
<1>1. StoreInv => PilotTypeOK
  BY DEF StoreInv
<1>. QED
  BY <1>1, AlwaysStoreInv, PTL

\* However saves, names, removals and expiries are mixed, the hash, the index and the
\* track of a device that has a position agree on it, and the hash is mortal (SavePilot,
\* UpdatePilotName, RemovePilot, DeletePilot, CleanupExpired).
THEOREM PilotsAreShownWhereSaved == PilotSpec => []ShownWhereSaved
BY InvShows, AlwaysStoreInv, PTL

\* An answer shows a position of the last TTL, unless the hash has no position that can be
\* indexed or a name has prolonged its life (GetPilotsInRadius, UpdatePilotName).
THEOREM OnlyPositionlessAreStale == PilotSpec => []StaleOnlyWithoutPosition
<1>1. PilotInit => LentInv
  BY DEF PilotInit, LentInv, Lent
<1>2. StoreInv /\ LentInv /\ [PilotNext]_pilotVars => LentInv'
  BY LentStep
<1>3. StoreInv /\ LentInv => StaleOnlyWithoutPosition
  BY LentShows
<1>. QED
  BY <1>1, <1>2, <1>3, AlwaysStoreInv, PTL DEF PilotSpec
=============================================================================
