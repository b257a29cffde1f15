----------------------------- MODULE Visibility -----------------------------
(***************************************************************************)
(* Which pilots GET /api/v1/snapshot shows: the BoundaryTracker of the      *)
(* message handler and of the REST handler, and the field last_movement     *)
(* that ties them together in Redis.                                       *)
(*                                                                         *)
(* A spot is a place, and its distance from the OGN centre.  The handler    *)
(* reads the hash of the device, compares the spots and writes the hash in  *)
(* separate steps, and messages are handled concurrently.                  *)
(***************************************************************************)
EXTENDS Integers, FiniteSets

CONSTANTS
  Site,             \* where the device may be
  TrackingRadius, OgnRadius,
  GracePeriod,      \* cfg.Geo.BoundaryGracePeriod
  MinMovement,      \* cfg.Geo.MinMovementDistance
  AircraftType,
  Reporter,         \* goroutines of the message handler
  MaxAges,          \* values of max_age
  DefaultMaxAge,    \* 24 hours, for which no age is checked
  Unset,            \* no such field, no hash
  Midday            \* bound on the clock

\* The fields of a device's hash that decide.
PilotHash == [site : Site, type : AircraftType, at : 0..Midday, movement : 0..Midday \cup {Unset}]

ASSUME VisibilityAssumption ==
  /\ Site \subseteq Nat /\ MaxAges \subseteq Nat
  /\ {TrackingRadius, OgnRadius, GracePeriod, DefaultMaxAge, Midday} \subseteq Nat
  /\ MinMovement \in Nat \ {0} /\ TrackingRadius <= OgnRadius
  /\ Unset \notin Int \cup PilotHash

VARIABLES
  today,   \* the clock
  saved,   \* the hash of the device
  report,  \* what each goroutine does
  still,   \* history: since when the hash has been at its spot
  noted    \* history: when a movement was last saved

visibilityVars == <<today, saved, report, still, noted>>

-----------------------------------------------------------------------------
(* BoundaryTracker.                                                         *)

HasMoved(site, last) ==
  last # Unset /\ (IF site > last THEN site - last ELSE last - site) >= MinMovement

\* GetObjectStatus: the visibility.
VisibilityStatus(site, movement) ==
  IF site <= TrackingRadius THEN "visible"
  ELSE IF site <= OgnRadius /\ today - movement <= GracePeriod THEN "boundary"
  ELSE "outside"

ShouldIncludeInSnapshot(site, movement) == VisibilityStatus(site, movement) # "outside"

-----------------------------------------------------------------------------
(* The message handler.                                                     *)

Resting == [step |-> "none", site |-> 0, type |-> CHOOSE t \in AircraftType : TRUE,
            at |-> 0, movement |-> Unset]

VisibilityInit ==
  /\ today  = 0
  /\ saved  = Unset
  /\ report = [h \in Reporter |-> Resting]
  /\ still  = 0
  /\ noted  = Unset

\* GetPilot, whose error counts as no previous position, and GetObjectStatus, whose time of
\* the last movement is now, or the time of the message, which is not passed on.
ReadPrevious(h, site, type) ==
  /\ report[h] = Resting
  /\ \E last \in {Unset} \cup (IF saved = Unset THEN {} ELSE {saved.site}) :
     \E update \in {today} \cup (IF today = 0 THEN {} ELSE {today - 1}) :
       report' = [report EXCEPT ![h] =
         [step |-> "save", site |-> site, type |-> type, at |-> update,
          movement |-> IF HasMoved(site, last) THEN today ELSE Unset]]
  /\ UNCHANGED <<today, saved, still, noted>>

\* SavePilot: HSET without last_movement leaves an earlier one in the hash.
SavedFields(r) == [site |-> r.site, type |-> r.type, at |-> r.at, movement |-> r.movement]
SavedHash(r) ==
  [site |-> r.site, type |-> r.type, at |-> r.at,
   movement |-> IF r.movement # Unset \/ saved = Unset THEN r.movement ELSE saved.movement]

SaveReport(h) ==
  LET r == report[h] IN
  /\ r.step = "save"
  /\ saved'  = SavedHash(r)
  /\ still'  = IF saved # Unset /\ saved.site = r.site THEN still ELSE today
  /\ noted'  = IF r.movement # Unset THEN today ELSE noted
  /\ report' = [report EXCEPT ![h] = Resting]
  /\ UNCHANGED today

\* RemovePilot of a device that validation hides, or the TTL.
Vanish ==
  /\ saved # Unset
  /\ saved' = Unset
  /\ noted' = Unset
  /\ UNCHANGED <<today, report, still>>

\* A message is handled within a unit of time.
Later ==
  /\ today < Midday /\ \A h \in Reporter : report[h].step = "save" => report[h].at = today
  /\ today' = today + 1
  /\ UNCHANGED <<saved, report, still, noted>>

VisibilityNext ==
  \/ \E h \in Reporter :
       \/ \E site \in Site, type \in AircraftType : ReadPrevious(h, site, type)
       \/ SaveReport(h)
  \/ Vanish
  \/ Later

VisibilitySpec == VisibilityInit /\ [][VisibilityNext]_visibilityVars

-----------------------------------------------------------------------------
(* GetSnapshot, of a pilot that is in the radius.  An error of the           *)
(* repository leaves the request without an answer.                        *)

\* mapToPilot: without last_movement the last update stands for it.
MovementOf(pilot) == IF pilot.movement # Unset THEN pilot.movement ELSE pilot.at

\* The filters of types, of ages and of the boundary; no types are all the types.
PassesTypes(types)  == types = {} \/ saved.type \in types
PassesAge(maxAge)   == maxAge < DefaultMaxAge => today - saved.at <= maxAge
GetSnapshot(types, maxAge) ==
  /\ saved # Unset
  /\ PassesTypes(types) /\ PassesAge(maxAge)
  /\ ShouldIncludeInSnapshot(saved.site, MovementOf(saved))

Shown == GetSnapshot({}, DefaultMaxAge)

-----------------------------------------------------------------------------
(* Properties.                                                              *)

VisibilityTypeOK ==
  /\ today \in 0..Midday /\ still \in 0..Midday /\ noted \in 0..Midday \cup {Unset}
  /\ saved \in PilotHash \cup {Unset}
  /\ \A h \in Reporter : report[h].step \in {"none", "save"}

Boundary == saved # Unset /\ saved.site \in (TrackingRadius + 1)..OgnRadius

\* A device that hangs on the boundary fades: once it has moved, it is not shown longer
\* than the grace period after it has come to its spot, however often it reports the spot,
\* and although the spot it is compared with may be read before another message is saved
\* and last_movement is written only sometimes.  (One that has never moved does not fade.)
StillFades ==
  Boundary /\ Shown /\ noted # Unset =>
    today - still <= GracePeriod

\* A device on the boundary is shown for the grace period after a movement is saved, less
\* the time that a message takes: a slow goroutine may put an earlier movement in the place
\* of a later one, but no more than that.
MovedIsShown ==
  Boundary /\ noted # Unset /\ today - noted < GracePeriod => Shown

\* On the boundary it is movement that decides.
MovementDecides == StillFades /\ MovedIsShown
=============================================================================
