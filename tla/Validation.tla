----------------------------- MODULE Validation -----------------------------
(***************************************************************************)
(* internal/service/validation.go: the score that decides whether a        *)
(* device's positions are shown.                                           *)
(*                                                                         *)
(* A device starts with InitialScore; each further packet adds             *)
(* ValidPacketBonus or takes InvalidPacketPenalty.  The device is shown    *)
(* from MinScoreToAdd on and hidden from MaxScoreToRemove down.  Every     *)
(* method runs under ValidationService.mu and is one action here.          *)
(*                                                                         *)
(* Places lie on a line and a unit of time is a unit of distance at speed  *)
(* one: the haversine distance and the division by the hours are reduced   *)
(* to the comparison they serve.  FirstSeen and PacketCount are written    *)
(* and never read by the program, and are left out.                        *)
(***************************************************************************)
EXTENDS Integers

CONSTANTS
  Device,                \* device IDs
  Place,                 \* positions, as integers
  NoPlace,               \* the nil position
  Aircraft,              \* pilot types
  MaxSpeed,              \* MaxSpeedByType times SpeedMultiplier
  MaxTimeDelta, MaxAge,  \* ValidationConfig.MaxTimeDelta, argument of CleanupOldStates
  InitialScore, ValidPacketBonus, InvalidPacketPenalty,
  MinScoreToAdd, MaxScoreToRemove, MaxScore,
  Unknown,               \* no entry in the states map
  Horizon,               \* bound on the clock
  MaxPackets             \* bound on the packets between two changes of a verdict

ASSUME PlaceAssumption == Place \subseteq Int /\ NoPlace \notin Place
ASSUME SpeedAssumption == MaxSpeed \in [Aircraft -> Nat]
ASSUME TimeAssumption  == MaxTimeDelta \in Nat /\ MaxAge \in Nat /\ Horizon \in Nat
ASSUME CountAssumption == MaxPackets \in Nat
ASSUME ScoreAssumption ==
  /\ ValidPacketBonus \in Nat \ {0} /\ InvalidPacketPenalty \in Nat \ {0}
  /\ InitialScore \in Nat /\ MaxScoreToRemove \in Nat
  /\ MinScoreToAdd \in Nat /\ MaxScore \in Nat
  /\ InitialScore < MinScoreToAdd
  /\ MaxScoreToRemove < MinScoreToAdd
  /\ MinScoreToAdd <= MaxScore
  /\ InitialScore <= MaxScore

Time     == 0..Horizon
Position == Place \cup {NoPlace}

State == [position : Position, lastUpdate : Time, score : 0..MaxScore, validated : BOOLEAN]

ASSUME UnknownAssumption == Unknown \notin State

VARIABLES
  states,  \* ValidationService.states
  now,     \* the server's clock
  since    \* history: what changed the verdict last, and the packets judged since

validationVars == <<states, now, since>>

Verdict == [from : {"new", "shown", "hidden", "invalidated"}, valid : Nat, invalid : Nat]
Fresh(event) == [from |-> event, valid |-> 0, invalid |-> 0]
Counted(verdict, isValid) ==
  [from    |-> verdict.from,
   valid   |-> IF isValid THEN verdict.valid + 1 ELSE verdict.valid,
   invalid |-> IF isValid THEN verdict.invalid ELSE verdict.invalid + 1]

Known(d) == states[d] # Unknown
Shown(d) == Known(d) /\ states[d].validated

Init ==
  /\ states = [d \in Device |-> Unknown]
  /\ now    = 0
  /\ since  = [d \in Device |-> Fresh("new")]

-----------------------------------------------------------------------------
(* updateValidationScore and checkHysteresis.                               *)

\* The bonus without its cap.
RaisedUncapped(score) == score + ValidPacketBonus

Raised(score) == IF score + ValidPacketBonus > MaxScore THEN MaxScore ELSE score + ValidPacketBonus

Lowered(score) == IF score < InvalidPacketPenalty THEN 0 ELSE score - InvalidPacketPenalty

NewScore(score, isValid) == IF isValid THEN Raised(score) ELSE Lowered(score)

\* The lower threshold still shows.
ShownAtRemove(validated, score) ==
  /\ validated \/ score >= MinScoreToAdd
  /\ score >= MaxScoreToRemove

\* One threshold for both directions.
OneThreshold(validated, score) == score >= MinScoreToAdd

CheckHysteresis(validated, score) ==
  /\ validated \/ score >= MinScoreToAdd
  /\ score > MaxScoreToRemove

\* The packet is judged and the reference position and time become position
\* and time.
Judge(d, isValid, position, time) ==
  LET score     == NewScore(states[d].score, isValid)
      validated == CheckHysteresis(states[d].validated, score)
  IN  /\ since[d].valid + since[d].invalid < MaxPackets
      /\ states' = [states EXCEPT ![d] = [position |-> position, lastUpdate |-> time,
                                          score |-> score, validated |-> validated]]
      /\ since'  = [since EXCEPT ![d] =
                      IF validated # states[d].validated
                      THEN Fresh(IF validated THEN "shown" ELSE "hidden")
                      ELSE Counted(since[d], isValid)]
      /\ now' = now

-----------------------------------------------------------------------------
(* ValidatePilot for a packet of device d at place p with timestamp t.      *)

FirstPacket(d, p, t) ==
  /\ ~Known(d)
  /\ states' = [states EXCEPT ![d] = [position |-> p, lastUpdate |-> t,
                                      score |-> InitialScore, validated |-> FALSE]]
  /\ since' = [since EXCEPT ![d] = Fresh("new")]
  /\ now' = now

Located(d, p) == p # NoPlace /\ states[d].position # NoPlace

PacketWithoutPosition(d, p, t) ==
  /\ Known(d)
  /\ ~Located(d, p)
  /\ Judge(d, FALSE, IF p = NoPlace THEN states[d].position ELSE p, t)

PacketAfterGap(d, p, t) ==
  /\ Known(d)
  /\ Located(d, p)
  /\ t - states[d].lastUpdate > MaxTimeDelta
  /\ Judge(d, FALSE, p, t)

\* Is timestamp t a step back (or none) from the reference time?
OnlyEqual(d, t) == t = states[d].lastUpdate
NotLater(d, t)  == t <= states[d].lastUpdate

\* A packet not later than the reference leaves the reference alone.
PacketNotLater(d, p, t) ==
  /\ Known(d)
  /\ Located(d, p)
  /\ NotLater(d, t)
  /\ Judge(d, FALSE, states[d].position, states[d].lastUpdate)

\* Movement the other way counts as none.
Forward(p, q) == q - p

Distance(p, q) == IF p < q THEN q - p ELSE p - q

PacketMoved(d, p, t, a) ==
  /\ Known(d)
  /\ Located(d, p)
  /\ ~NotLater(d, t)
  /\ t - states[d].lastUpdate <= MaxTimeDelta
  /\ Judge(d, Distance(states[d].position, p) <= MaxSpeed[a] * (t - states[d].lastUpdate), p, t)

ValidatePilot(d, p, t, a) ==
  \/ FirstPacket(d, p, t)
  \/ PacketWithoutPosition(d, p, t)
  \/ PacketAfterGap(d, p, t)
  \/ PacketNotLater(d, p, t)
  \/ PacketMoved(d, p, t, a)

-----------------------------------------------------------------------------
\* The verdict is reset and the score is not.
InvalidateDevice(d) ==
  /\ Known(d)
  /\ states' = [states EXCEPT ![d].validated = FALSE]
  /\ since' = [since EXCEPT ![d] = IF states[d].validated THEN Fresh("invalidated") ELSE @]
  /\ now' = now

Old(d) == Known(d) /\ now - states[d].lastUpdate > MaxAge

CleanupOldStates ==
  /\ \E d \in Device : Old(d)
  /\ states' = [d \in Device |-> IF Old(d) THEN Unknown ELSE states[d]]
  /\ UNCHANGED <<now, since>>

Tick ==
  /\ now < Horizon
  /\ now' = now + 1
  /\ UNCHANGED <<states, since>>

\* The timestamp is the base station's, whose clock need not be the server's.
Packet(d) == \E p \in Position, t \in Time, a \in Aircraft : ValidatePilot(d, p, t, a)

Next ==
  \/ \E d \in Device : Packet(d) \/ InvalidateDevice(d)
  \/ CleanupOldStates
  \/ Tick

Spec == Init /\ [][Next]_validationVars

-----------------------------------------------------------------------------
(* Properties.                                                              *)

\* The type of every variable; every score is within 0..MaxScore.
TypeOK ==
  /\ states \in [Device -> State \cup {Unknown}]
  /\ now \in Time
  /\ since \in [Device -> Verdict]

\* The hysteresis: a shown device is above the lower threshold; a hidden one is
\* below the upper one, unless it was InvalidateDevice that hid it.
Hysteresis ==
  \A d \in Device : Known(d) =>
    /\ states[d].validated => states[d].score > MaxScoreToRemove
    /\ ~states[d].validated /\ since[d].from # "invalidated" => states[d].score < MinScoreToAdd

\* The score is bounded by what the packets since the last change of the
\* verdict can have made of the score that this change started from: a new
\* device (or one whose state was cleaned up), a shown and a hidden one.
ScoreIsEarned ==
  \A d \in Device : Known(d) =>
    /\ since[d].from = "new" =>
         states[d].score <= InitialScore + since[d].valid * ValidPacketBonus
    /\ since[d].from = "hidden" =>
         states[d].score <= MaxScoreToRemove + since[d].valid * ValidPacketBonus
    /\ since[d].from = "shown" =>
         states[d].score >= MinScoreToAdd - since[d].invalid * InvalidPacketPenalty

Enters(d) ==
  ~Shown(d) /\ Shown(d)' =>
    /\ since[d].from = "new" =>
         InitialScore + (since[d].valid + 1) * ValidPacketBonus >= MinScoreToAdd
    /\ since[d].from = "hidden" =>
         MaxScoreToRemove + (since[d].valid + 1) * ValidPacketBonus >= MinScoreToAdd

Leaves(d) ==
  Shown(d) /\ Known(d)' /\ ~Shown(d)' /\ states'[d].score # states[d].score =>
    MinScoreToAdd - (since[d].invalid + 1) * InvalidPacketPenalty <= MaxScoreToRemove

\* No flicker.  A device enters only with the valid packets that lift its score
\* from where it was (2 for a new one, 3 for a hidden one in the default
\* configuration), and leaves by packets only after the invalid ones that take
\* it from threshold to threshold (2): one packet never undoes the last change.
NoFlicker == [][\A d \in Device : Enters(d) /\ Leaves(d)]_validationVars

\* A late or repeated packet never moves the reference back: the time against
\* which speeds are computed only grows while the state is kept, unless a packet
\* without a position sets it (the message handler makes none).
ReferenceNeverGoesBack ==
  [][\A d \in Device :
       Known(d) /\ Known(d)' /\ ~(states'[d].lastUpdate >= states[d].lastUpdate) =>
         \E p \in Position, t \in Time : PacketWithoutPosition(d, p, t)
    ]_validationVars
=============================================================================
