-------------------------- MODULE ValidationProofs --------------------------
(***************************************************************************)
(* Proofs about Validation, for any devices, places and speeds and for any *)
(* scores and thresholds in the order that ScoreAssumption asks for.       *)
(***************************************************************************)
EXTENDS Validation, TLAPS

\* A device is shown exactly when the last change of its verdict showed it.
LastChange ==
  \A d \in Device : Known(d) => (states[d].validated <=> since[d].from = "shown")

\* Hysteresis and ScoreIsEarned need LastChange, and TypeOK for the arithmetic.
ScoreInv == TypeOK /\ LastChange /\ Hysteresis /\ ScoreIsEarned

USE ScoreAssumption, TimeAssumption

LEMMA InitScore == Init => ScoreInv
<1>. SUFFICES ASSUME Init
              PROVE  ScoreInv
  OBVIOUS
<1>1. Fresh("new") \in Verdict /\ 0 \in Time
  BY DEF Fresh, Verdict, Time
<1>2. TypeOK
  BY <1>1 DEF Init, TypeOK
<1>. QED
  BY <1>2 DEF Init, ScoreInv, LastChange, Hysteresis, ScoreIsEarned, Known

\* A judged score stays in its range and moves by at most the bonus or penalty.
LEMMA NewScoreBounds ==
  ASSUME NEW score \in 0..MaxScore, NEW isValid \in BOOLEAN
  PROVE  /\ NewScore(score, isValid) \in 0..MaxScore
         /\ isValid  => NewScore(score, isValid) >= score
         /\ isValid  => NewScore(score, isValid) <= score + ValidPacketBonus
         /\ ~isValid => NewScore(score, isValid) <= score
         /\ ~isValid => NewScore(score, isValid) >= score - InvalidPacketPenalty
BY DEF NewScore, Raised, Lowered

LEMMA OneMore ==
  ASSUME NEW v \in Nat, NEW b \in Nat
  PROVE  (v + 1) * b = v * b + b /\ v * b \in Nat /\ (v + 1) * b \in Nat
OBVIOUS

LEMMA CountedTyped ==
  ASSUME NEW v \in Verdict, NEW isValid \in BOOLEAN
  PROVE  Counted(v, isValid) \in Verdict
<1>. DEFINE valid   == IF isValid THEN v.valid + 1 ELSE v.valid
            invalid == IF isValid THEN v.invalid ELSE v.invalid + 1
<1>1. valid \in Nat /\ invalid \in Nat
  BY DEF Verdict
<1>2. v.from \in {"new", "shown", "hidden", "invalidated"}
  BY DEF Verdict
<1>3. Counted(v, isValid) = [from |-> v.from, valid |-> valid, invalid |-> invalid]
  BY DEF Counted
<1>. HIDE DEF valid, invalid
<1>. QED
  BY <1>1, <1>2, <1>3 DEF Verdict

\* What a judged packet does to the state and the history of its device.
LEMMA Judged ==
  ASSUME TypeOK, NEW d \in Device, Known(d), NEW isValid \in BOOLEAN,
         NEW position \in Position, NEW time \in Time, Judge(d, isValid, position, time)
  PROVE  /\ states' \in [Device -> State \cup {Unknown}]
         /\ since' \in [Device -> Verdict]
         /\ now' \in Time
         /\ states'[d] \in State
         /\ states'[d].score = NewScore(states[d].score, isValid)
         /\ states'[d].validated = CheckHysteresis(states[d].validated, states'[d].score)
         /\ states'[d].validated # states[d].validated =>
              since'[d] = Fresh(IF states'[d].validated THEN "shown" ELSE "hidden")
         /\ states'[d].validated = states[d].validated =>
              /\ since'[d].from = since[d].from
              /\ since'[d].valid = (IF isValid THEN since[d].valid + 1 ELSE since[d].valid)
              /\ since'[d].invalid = (IF isValid THEN since[d].invalid ELSE since[d].invalid + 1)
         /\ \A e \in Device \ {d} : states'[e] = states[e] /\ since'[e] = since[e]
<1>. DEFINE score     == NewScore(states[d].score, isValid)
            validated == CheckHysteresis(states[d].validated, score)
            new       == [position |-> position, lastUpdate |-> time,
                          score |-> score, validated |-> validated]
            watched   == IF validated # states[d].validated
                         THEN Fresh(IF validated THEN "shown" ELSE "hidden")
                         ELSE Counted(since[d], isValid)
<1>1. states[d] \in State /\ since[d] \in Verdict
  BY DEF TypeOK, Known
<1>2. score \in 0..MaxScore
  BY <1>1, NewScoreBounds DEF State
<1>3. validated \in BOOLEAN
  BY DEF CheckHysteresis
<1>4. /\ states' = [states EXCEPT ![d] = new]
      /\ since' = [since EXCEPT ![d] = watched]
      /\ now' = now
  BY DEF Judge
<1>5. new \in State
  BY <1>2, <1>3 DEF State
<1>6. watched \in Verdict
  <2>1. \A event \in {"shown", "hidden"} : Fresh(event) \in Verdict
    BY DEF Verdict, Fresh
  <2>2. /\ since[d].from \in {"new", "shown", "hidden", "invalidated"}
        /\ since[d].valid \in Nat /\ since[d].invalid \in Nat
    BY <1>1 DEF Verdict
  <2>3. Counted(since[d], isValid) \in Verdict
    BY <1>1, CountedTyped
  <2>. QED
    BY <2>1, <2>3
<1>7. /\ states'[d] = new /\ since'[d] = watched
      /\ \A e \in Device \ {d} : states'[e] = states[e] /\ since'[e] = since[e]
  BY <1>4 DEF TypeOK
<1>8. /\ states' \in [Device -> State \cup {Unknown}]
      /\ since' \in [Device -> Verdict]
      /\ now' \in Time
  BY <1>4, <1>5, <1>6 DEF TypeOK
<1>9. validated = states[d].validated =>
        /\ watched.from = since[d].from
        /\ watched.valid = (IF isValid THEN since[d].valid + 1 ELSE since[d].valid)
        /\ watched.invalid = (IF isValid THEN since[d].invalid ELSE since[d].invalid + 1)
  BY DEF Counted
<1>10. /\ new.score = score
       /\ new.validated = CheckHysteresis(states[d].validated, new.score)
       /\ new.validated # states[d].validated =>
            watched = Fresh(IF new.validated THEN "shown" ELSE "hidden")
       /\ new.validated = validated
  OBVIOUS
<1>. HIDE DEF score, validated, new, watched
<1>. QED
  BY <1>5, <1>7, <1>8, <1>9, <1>10 DEF score

\* A packet is a first packet or is judged with some outcome.
LEMMA PacketCases ==
  ASSUME TypeOK, NEW d \in Device, Packet(d)
  PROVE  \/ \E p \in Position, t \in Time : FirstPacket(d, p, t)
         \/ Known(d) /\ \E isValid \in BOOLEAN, p \in Position, t \in Time : Judge(d, isValid, p, t)
<1>1. PICK p \in Position, t \in Time, a \in Aircraft : ValidatePilot(d, p, t, a)
  BY DEF Packet
<1>2. t \in Time
  BY DEF TypeOK, Time
<1>3. CASE FirstPacket(d, p, t)
  BY <1>2, <1>3
<1>4. Known(d) => states[d].position \in Position /\ states[d].lastUpdate \in Time
  BY DEF TypeOK, Known, State
<1>5. CASE PacketWithoutPosition(d, p, t)
  <2>1. (IF p = NoPlace THEN states[d].position ELSE p) \in Position
    BY <1>4, <1>5 DEF PacketWithoutPosition
  <2>. QED
    BY <1>2, <1>5, <2>1 DEF PacketWithoutPosition
<1>6. CASE PacketAfterGap(d, p, t)
  BY <1>2, <1>6 DEF PacketAfterGap
<1>7. CASE PacketNotLater(d, p, t)
  BY <1>4, <1>7 DEF PacketNotLater
<1>8. CASE PacketMoved(d, p, t, a)
  <2>1. (Distance(states[d].position, p) <= MaxSpeed[a] * (t - states[d].lastUpdate)) \in BOOLEAN
    OBVIOUS
  <2>. QED
    BY <1>2, <1>8, <2>1 DEF PacketMoved
<1>. QED
  BY <1>1, <1>3, <1>5, <1>6, <1>7, <1>8 DEF ValidatePilot

\* The part of the invariant that speaks of one device.
DeviceInv(d) ==
  Known(d) =>
    /\ states[d].validated <=> since[d].from = "shown"
    /\ states[d].validated => states[d].score > MaxScoreToRemove
    /\ ~states[d].validated /\ since[d].from # "invalidated" => states[d].score < MinScoreToAdd
    /\ since[d].from = "new" =>
         states[d].score <= InitialScore + since[d].valid * ValidPacketBonus
    /\ since[d].from = "hidden" =>
         states[d].score <= MaxScoreToRemove + since[d].valid * ValidPacketBonus
    /\ since[d].from = "shown" =>
         states[d].score >= MinScoreToAdd - since[d].invalid * InvalidPacketPenalty

LEMMA PerDevice == ScoreInv <=> TypeOK /\ \A d \in Device : DeviceInv(d)
BY DEF ScoreInv, LastChange, Hysteresis, ScoreIsEarned, DeviceInv

LEMMA JudgeInv ==
  ASSUME ScoreInv, NEW d \in Device, Known(d), NEW isValid \in BOOLEAN,
         NEW position \in Position, NEW time \in Time, Judge(d, isValid, position, time)
  PROVE  ScoreInv'
<1>. DEFINE old == states[d]
            new == states'[d]
            was == since[d]
            is  == since'[d]
<1>1. TypeOK /\ DeviceInv(d)
  BY PerDevice
<1>2. /\ states' \in [Device -> State \cup {Unknown}] /\ since' \in [Device -> Verdict]
      /\ now' \in Time /\ new \in State
      /\ new.score = NewScore(old.score, isValid)
      /\ new.validated = CheckHysteresis(old.validated, new.score)
      /\ new.validated # old.validated =>
           is = Fresh(IF new.validated THEN "shown" ELSE "hidden")
      /\ new.validated = old.validated =>
           /\ is.from = was.from
           /\ is.valid = (IF isValid THEN was.valid + 1 ELSE was.valid)
           /\ is.invalid = (IF isValid THEN was.invalid ELSE was.invalid + 1)
      /\ \A e \in Device \ {d} : states'[e] = states[e] /\ since'[e] = since[e]
  BY <1>1, Judged
<1>3. TypeOK'
  BY <1>2 DEF TypeOK
<1>4. /\ old.score \in 0..MaxScore /\ old.validated \in BOOLEAN
      /\ new.score \in 0..MaxScore /\ new.validated \in BOOLEAN
      /\ was.valid \in Nat /\ was.invalid \in Nat
  BY <1>1, <1>2 DEF TypeOK, Known, State, Verdict
<1>5. /\ isValid  => new.score >= old.score /\ new.score <= old.score + ValidPacketBonus
      /\ ~isValid => new.score <= old.score /\ new.score >= old.score - InvalidPacketPenalty
  BY <1>2, <1>4, NewScoreBounds
<1>6. DeviceInv(d)'
  <2>1. CASE new.validated # old.validated
    <3>1. is.from = (IF new.validated THEN "shown" ELSE "hidden") /\ is.valid = 0 /\ is.invalid = 0
      BY <1>2, <2>1 DEF Fresh
    <3>2. CASE new.validated
      <4>1. new.score >= MinScoreToAdd /\ new.score > MaxScoreToRemove
        BY <1>2, <1>4, <2>1, <3>2 DEF CheckHysteresis
      <4>. QED
        BY <1>4, <3>1, <3>2, <4>1 DEF DeviceInv
    <3>3. CASE ~new.validated
      <4>1. old.validated /\ ~CheckHysteresis(old.validated, new.score)
        BY <1>2, <1>4, <2>1, <3>3
      <4>2. new.score <= MaxScoreToRemove
        BY <1>4, <4>1 DEF CheckHysteresis
      <4>. QED
        BY <1>4, <3>1, <3>3, <4>2 DEF DeviceInv
    <3>. QED
      BY <3>2, <3>3
  <2>2. CASE new.validated = old.validated
    <3>1. /\ is.from = was.from
          /\ is.valid = (IF isValid THEN was.valid + 1 ELSE was.valid)
          /\ is.invalid = (IF isValid THEN was.invalid ELSE was.invalid + 1)
      BY <1>2, <2>2
    <3>2. /\ new.validated => new.score > MaxScoreToRemove
          /\ ~new.validated => new.score < MinScoreToAdd
      BY <1>2, <1>4, <2>2 DEF CheckHysteresis
    <3>3. /\ was.valid * ValidPacketBonus \in Nat
          /\ (was.valid + 1) * ValidPacketBonus = was.valid * ValidPacketBonus + ValidPacketBonus
          /\ was.invalid * InvalidPacketPenalty \in Nat
          /\ (was.invalid + 1) * InvalidPacketPenalty
               = was.invalid * InvalidPacketPenalty + InvalidPacketPenalty
      BY <1>4, OneMore
    <3>4. was.from = "new" => new.score <= InitialScore + is.valid * ValidPacketBonus
      <4>. SUFFICES ASSUME was.from = "new"
                    PROVE  new.score <= InitialScore + is.valid * ValidPacketBonus
        OBVIOUS
      <4>1. states[d].score <= InitialScore + was.valid * ValidPacketBonus
        BY <1>1 DEF DeviceInv
      <4>2. CASE isValid
        BY <1>4, <1>5, <3>1, <3>3, <4>1, <4>2
      <4>3. CASE ~isValid
        BY <1>4, <1>5, <3>1, <3>3, <4>1, <4>3
      <4>. QED
        BY <4>2, <4>3
    <3>5. was.from = "hidden" => new.score <= MaxScoreToRemove + is.valid * ValidPacketBonus
      BY <1>1, <1>4, <1>5, <3>1, <3>3 DEF DeviceInv
    <3>6. was.from = "shown" => new.score >= MinScoreToAdd - is.invalid * InvalidPacketPenalty
      BY <1>1, <1>4, <1>5, <3>1, <3>3 DEF DeviceInv
    <3>7. new.validated <=> is.from = "shown"
      BY <1>1, <2>2, <3>1 DEF DeviceInv
    <3>. QED
      BY <3>1, <3>2, <3>4, <3>5, <3>6, <3>7 DEF DeviceInv
  <2>. QED
    BY <2>1, <2>2
<1>7. ASSUME NEW e \in Device \ {d}
      PROVE  DeviceInv(e)'
  BY <1>2, PerDevice DEF DeviceInv, Known
<1>. QED
  BY <1>3, <1>6, <1>7, PerDevice DEF ScoreInv, LastChange, Hysteresis, ScoreIsEarned, DeviceInv

LEMMA FirstInv ==
  ASSUME ScoreInv, NEW d \in Device, NEW p \in Position, NEW t \in Time, FirstPacket(d, p, t)
  PROVE  ScoreInv'
<1>. DEFINE new == [position |-> p, lastUpdate |-> t, score |-> InitialScore, validated |-> FALSE]
<1>1. new \in State
  BY DEF State
<1>2. Fresh("new") \in Verdict
  BY DEF Fresh, Verdict
<1>3. /\ states' = [states EXCEPT ![d] = new] /\ since' = [since EXCEPT ![d] = Fresh("new")]
      /\ now' = now
  BY DEF FirstPacket
<1>4. new.score = InitialScore /\ ~new.validated
  OBVIOUS
<1>. HIDE DEF new
<1>5. TypeOK'
  BY <1>1, <1>2, <1>3 DEF ScoreInv, TypeOK
<1>6. /\ states'[d] = new /\ since'[d] = Fresh("new")
      /\ \A e \in Device \ {d} : states'[e] = states[e] /\ since'[e] = since[e]
  BY <1>3 DEF ScoreInv, TypeOK
<1>7. DeviceInv(d)'
  BY <1>4, <1>6 DEF DeviceInv, Fresh
<1>8. ASSUME NEW e \in Device \ {d}
      PROVE  DeviceInv(e)'
  BY <1>6, PerDevice DEF DeviceInv, Known
<1>. QED
  BY <1>5, <1>7, <1>8, PerDevice DEF ScoreInv, LastChange, Hysteresis, ScoreIsEarned, DeviceInv

LEMMA InvalidateInv ==
  ASSUME ScoreInv, NEW d \in Device, InvalidateDevice(d)
  PROVE  ScoreInv'
<1>. DEFINE new == [states[d] EXCEPT !.validated = FALSE]
            is  == IF states[d].validated THEN Fresh("invalidated") ELSE since[d]
<1>1. TypeOK /\ DeviceInv(d) /\ Known(d)
  BY PerDevice DEF InvalidateDevice
<1>2. states[d] \in State /\ since[d] \in Verdict
  BY <1>1 DEF TypeOK, Known
<1>3. new \in State /\ new.score = states[d].score /\ ~new.validated
  BY <1>2 DEF State
<1>4. is \in Verdict
  BY <1>2 DEF Fresh, Verdict
<1>5. states' = [states EXCEPT ![d] = new] /\ since' = [since EXCEPT ![d] = is] /\ now' = now
  BY DEF InvalidateDevice
<1>6. states[d].validated => is.from = "invalidated"
  BY DEF Fresh
<1>7. ~states[d].validated => is = since[d]
  OBVIOUS
<1>. HIDE DEF new, is
<1>8. TypeOK'
  BY <1>1, <1>3, <1>4, <1>5 DEF TypeOK
<1>9. /\ states'[d] = new /\ since'[d] = is
      /\ \A e \in Device \ {d} : states'[e] = states[e] /\ since'[e] = since[e]
  BY <1>1, <1>5 DEF TypeOK
<1>10. DeviceInv(d)'
  BY <1>1, <1>3, <1>6, <1>7, <1>9 DEF DeviceInv
<1>11. ASSUME NEW e \in Device \ {d}
       PROVE  DeviceInv(e)'
  BY <1>9, PerDevice DEF DeviceInv, Known
<1>. QED
  BY <1>8, <1>10, <1>11, PerDevice DEF ScoreInv, LastChange, Hysteresis, ScoreIsEarned, DeviceInv

LEMMA CleanupInv ==
  ASSUME ScoreInv, CleanupOldStates
  PROVE  ScoreInv'
<1>1. /\ states' = [d \in Device |-> IF Old(d) THEN Unknown ELSE states[d]]
      /\ UNCHANGED <<now, since>>
  BY DEF CleanupOldStates
<1>2. TypeOK'
  BY <1>1 DEF ScoreInv, TypeOK
<1>3. ASSUME NEW d \in Device
      PROVE  DeviceInv(d)'
  BY <1>1, PerDevice DEF DeviceInv, Known
<1>. QED
  BY <1>2, <1>3, PerDevice DEF ScoreInv, LastChange, Hysteresis, ScoreIsEarned, DeviceInv

LEMMA NextScore == ScoreInv /\ [Next]_validationVars => ScoreInv'
<1>. SUFFICES ASSUME ScoreInv, [Next]_validationVars
              PROVE  ScoreInv'
  OBVIOUS
<1>1. ASSUME UNCHANGED <<states, since>>, now' \in Time
      PROVE  ScoreInv'
  BY <1>1 DEF ScoreInv, TypeOK, LastChange, Hysteresis, ScoreIsEarned, Known
<1>2. CASE UNCHANGED validationVars
  BY <1>1, <1>2 DEF ScoreInv, TypeOK, validationVars
<1>3. ASSUME NEW d \in Device, Packet(d)
      PROVE  ScoreInv'
  BY <1>3, PacketCases, FirstInv, JudgeInv DEF ScoreInv
<1>4. CASE Tick
  BY <1>1, <1>4 DEF Tick, ScoreInv, TypeOK, Time
<1>. QED
  BY <1>2, <1>3, <1>4, InvalidateInv, CleanupInv DEF Next

LEMMA ScoreInvariant == Spec => []ScoreInv
BY InitScore, NextScore, PTL DEF Spec

\* Every variable keeps its type; in particular every score is in 0..MaxScore.
THEOREM ValidationTypeCorrect == Spec => []TypeOK
<1>. ScoreInv => TypeOK
  BY DEF ScoreInv
<1>. QED
  BY ScoreInvariant, PTL

\* The two thresholds separate shown and hidden devices.
THEOREM HysteresisHolds == Spec => []Hysteresis
<1>. ScoreInv => Hysteresis
  BY DEF ScoreInv
<1>. QED
  BY ScoreInvariant, PTL

\* Every score is accounted for by the packets since the last change of verdict.
THEOREM ScoresAreEarned == Spec => []ScoreIsEarned
<1>. ScoreInv => ScoreIsEarned
  BY DEF ScoreInv
<1>. QED
  BY ScoreInvariant, PTL

-----------------------------------------------------------------------------
(* No flicker: what the step that changes a verdict says of the counts.     *)

LEMMA JudgeFlicker ==
  ASSUME ScoreInv, NEW d \in Device, Known(d), NEW isValid \in BOOLEAN,
         NEW position \in Position, NEW time \in Time, Judge(d, isValid, position, time)
  PROVE  Enters(d) /\ Leaves(d)
<1>. DEFINE old == states[d]
            new == states'[d]
            was == since[d]
<1>1. TypeOK /\ DeviceInv(d)
  BY PerDevice
<1>2. /\ new \in State
      /\ new.score = NewScore(old.score, isValid)
      /\ new.validated = CheckHysteresis(old.validated, new.score)
  BY <1>1, Judged
<1>3. /\ old.score \in 0..MaxScore /\ old.validated \in BOOLEAN
      /\ new.score \in 0..MaxScore /\ new.validated \in BOOLEAN
      /\ was.valid \in Nat /\ was.invalid \in Nat
  BY <1>1, <1>2 DEF TypeOK, Known, State, Verdict
<1>4. new.score <= old.score + ValidPacketBonus /\ new.score >= old.score - InvalidPacketPenalty
  BY <1>2, <1>3, NewScoreBounds
<1>5. /\ was.valid * ValidPacketBonus \in Nat
      /\ (was.valid + 1) * ValidPacketBonus = was.valid * ValidPacketBonus + ValidPacketBonus
      /\ was.invalid * InvalidPacketPenalty \in Nat
      /\ (was.invalid + 1) * InvalidPacketPenalty
           = was.invalid * InvalidPacketPenalty + InvalidPacketPenalty
  BY <1>3, OneMore
<1>6. Enters(d)
  <2>. SUFFICES ASSUME ~Shown(d), Shown(d)'
                PROVE  /\ was.from = "new" =>
                            InitialScore + (was.valid + 1) * ValidPacketBonus >= MinScoreToAdd
                       /\ was.from = "hidden" =>
                            MaxScoreToRemove + (was.valid + 1) * ValidPacketBonus >= MinScoreToAdd
    BY DEF Enters
  <2>1. ~old.validated /\ CheckHysteresis(old.validated, new.score)
    BY <1>2, <1>3 DEF Shown
  <2>2. new.score >= MinScoreToAdd
    BY <1>3, <2>1 DEF CheckHysteresis
  <2>3. /\ was.from = "new" => old.score <= InitialScore + was.valid * ValidPacketBonus
        /\ was.from = "hidden" => old.score <= MaxScoreToRemove + was.valid * ValidPacketBonus
    BY <1>1 DEF DeviceInv
  <2>. QED
    BY <1>3, <1>4, <1>5, <2>2, <2>3
<1>7. Leaves(d)
  <2>. SUFFICES ASSUME Shown(d), Known(d)', ~Shown(d)'
                PROVE  MinScoreToAdd - (was.invalid + 1) * InvalidPacketPenalty <= MaxScoreToRemove
    BY DEF Leaves
  <2>1. old.validated /\ ~CheckHysteresis(old.validated, new.score)
    BY <1>2, <1>3 DEF Shown
  <2>2. new.score <= MaxScoreToRemove
    BY <1>3, <2>1 DEF CheckHysteresis
  <2>3. old.score >= MinScoreToAdd - was.invalid * InvalidPacketPenalty
    BY <1>1, <2>1 DEF DeviceInv
  <2>. QED
    BY <1>3, <1>4, <1>5, <2>2, <2>3
<1>. QED
  BY <1>6, <1>7

LEMMA StepFlicker ==
  ASSUME ScoreInv, [Next]_validationVars, NEW d \in Device
  PROVE  Enters(d) /\ Leaves(d)
<1>. TypeOK
  BY DEF ScoreInv
<1>1. CASE UNCHANGED states
  BY <1>1 DEF Enters, Leaves, Shown, Known
<1>2. ASSUME NEW e \in Device, Packet(e)
      PROVE  Enters(d) /\ Leaves(d)
  <2>1. CASE e # d
    <3>1. states'[d] = states[d]
      <4>1. ASSUME NEW p \in Position, NEW t \in Time, FirstPacket(e, p, t)
            PROVE  states'[d] = states[d]
        BY <2>1, <4>1 DEF FirstPacket, TypeOK
      <4>. QED
        BY <1>2, <2>1, <4>1, PacketCases, Judged
    <3>. QED
      BY <3>1 DEF Enters, Leaves, Shown, Known
  <2>2. CASE e = d
    <3>1. ASSUME NEW p \in Position, NEW t \in Time, FirstPacket(d, p, t)
          PROVE  Enters(d) /\ Leaves(d)
      <4>1. ~Known(d) /\ ~states'[d].validated
        BY <3>1 DEF FirstPacket, TypeOK
      <4>. QED
        BY <4>1 DEF Enters, Leaves, Shown
    <3>. QED
      BY <1>2, <2>2, <3>1, PacketCases, JudgeFlicker
  <2>. QED
    BY <2>1, <2>2
<1>3. ASSUME NEW e \in Device, InvalidateDevice(e)
      PROVE  Enters(d) /\ Leaves(d)
  <2>1. CASE e # d
    <3>1. states'[d] = states[d]
      BY <1>3, <2>1 DEF InvalidateDevice, TypeOK
    <3>. QED
      BY <3>1 DEF Enters, Leaves, Shown, Known
  <2>2. CASE e = d
    <3>1. states[d] \in State /\ states' = [states EXCEPT ![d] = [states[d] EXCEPT !.validated = FALSE]]
      BY <1>3, <2>2 DEF InvalidateDevice, TypeOK, Known
    <3>2. states'[d].score = states[d].score /\ ~states'[d].validated
      BY <3>1 DEF State, TypeOK
    <3>. QED
      BY <3>2 DEF Enters, Leaves, Shown
  <2>. QED
    BY <2>1, <2>2
<1>4. CASE CleanupOldStates
  <2>1. states'[d] = Unknown \/ states'[d] = states[d]
    BY <1>4 DEF CleanupOldStates
  <2>. QED
    BY <2>1 DEF Enters, Leaves, Shown, Known
<1>. QED
  BY <1>1, <1>2, <1>3, <1>4 DEF Next, Tick, validationVars

\* A verdict changes only after the packets that the thresholds ask for, for any
\* scores: one packet never undoes the last change.
THEOREM NeverFlickers == Spec => NoFlicker
<1>1. ScoreInv /\ [Next]_validationVars => [\A d \in Device : Enters(d) /\ Leaves(d)]_validationVars
  BY StepFlicker
<1>. QED
  BY <1>1, ScoreInvariant, PTL DEF Spec, NoFlicker

-----------------------------------------------------------------------------
(* The reference time.                                                      *)

Back(d) == ~(states'[d].lastUpdate >= states[d].lastUpdate)

LEMMA StepReference ==
  ASSUME TypeOK, NEW d \in Device, Known(d), Known(d)', Next, Back(d)
  PROVE  \E p \in Position, t \in Time : PacketWithoutPosition(d, p, t)
<1>1. states[d] \in State /\ states[d].lastUpdate \in Nat /\ states[d].lastUpdate \in Time
  BY DEF TypeOK, Known, State, Time
<1>2. states'[d].lastUpdate # states[d].lastUpdate
  BY <1>1 DEF Back
<1>3. ~Tick /\ ~CleanupOldStates
  BY <1>2 DEF Tick, CleanupOldStates, Known
<1>4. ASSUME NEW e \in Device, InvalidateDevice(e)
      PROVE  FALSE
  BY <1>1, <1>2, <1>4 DEF InvalidateDevice, TypeOK, State
<1>5. PICK e \in Device : Packet(e)
  BY <1>3, <1>4 DEF Next
<1>6. PICK p \in Position, t \in Time, a \in Aircraft : ValidatePilot(e, p, t, a)
  BY <1>5 DEF Packet
<1>7. e = d
  <2>1. e # d => states'[d] = states[d]
    BY <1>6 DEF ValidatePilot, FirstPacket, PacketWithoutPosition, PacketAfterGap,
                PacketNotLater, PacketMoved, Judge, TypeOK
  <2>. QED
    BY <1>2, <2>1
<1>8. ASSUME NEW b \in BOOLEAN, NEW q \in Position, NEW u \in Time, Judge(d, b, q, u)
      PROVE  ~(u >= states[d].lastUpdate)
  <2>1. states'[d].lastUpdate = u
    BY <1>8 DEF Judge, TypeOK
  <2>. QED
    BY <2>1 DEF Back
<1>9. ~PacketAfterGap(d, p, t)
  <2>1. SUFFICES ASSUME PacketAfterGap(d, p, t)
                 PROVE  FALSE
    OBVIOUS
  <2>2. Judge(d, FALSE, p, t) /\ t - states[d].lastUpdate > MaxTimeDelta
    BY <2>1 DEF PacketAfterGap
  <2>3. t >= states[d].lastUpdate
    BY <1>1, <2>2 DEF Time
  <2>4. FALSE \in BOOLEAN
    OBVIOUS
  <2>. QED
    BY <1>8, <2>2, <2>3, <2>4, Zenon
<1>10. ~PacketNotLater(d, p, t)
  <2>1. SUFFICES ASSUME PacketNotLater(d, p, t)
                 PROVE  FALSE
    OBVIOUS
  <2>2. Judge(d, FALSE, states[d].position, states[d].lastUpdate)
    BY <2>1 DEF PacketNotLater
  <2>3. states[d].position \in Position /\ states[d].lastUpdate >= states[d].lastUpdate
    BY <1>1 DEF State
  <2>4. FALSE \in BOOLEAN
    OBVIOUS
  <2>. QED
    BY <1>1, <1>8, <2>2, <2>3, <2>4, Zenon
<1>11. ~PacketMoved(d, p, t, a)
  <2>1. SUFFICES ASSUME PacketMoved(d, p, t, a)
                 PROVE  FALSE
    OBVIOUS
  <2>2. Judge(d, Distance(states[d].position, p) <= MaxSpeed[a] * (t - states[d].lastUpdate), p, t)
    BY <2>1 DEF PacketMoved
  <2>3. t >= states[d].lastUpdate
    BY <1>1, <2>1 DEF PacketMoved, NotLater, Time
  <2>4. (Distance(states[d].position, p) <= MaxSpeed[a] * (t - states[d].lastUpdate)) \in BOOLEAN
    OBVIOUS
  <2>. QED
    BY <1>8, <2>2, <2>3, <2>4, Zenon
<1>. QED
  BY <1>6, <1>7, <1>9, <1>10, <1>11 DEF ValidatePilot, FirstPacket

\* The time that speeds are measured from never goes back but by a packet without
\* a position, for any places, speeds, thresholds and clocks.
THEOREM ReferenceOnlyAdvances == Spec => ReferenceNeverGoesBack
<1>1. TypeOK /\ [Next]_validationVars =>
        [\A d \in Device :
           Known(d) /\ Known(d)' /\ ~(states'[d].lastUpdate >= states[d].lastUpdate) =>
             \E p \in Position, t \in Time : PacketWithoutPosition(d, p, t)]_validationVars
  BY StepReference DEF Back
<1>. QED
  BY <1>1, ValidationTypeCorrect, PTL DEF Spec, ReferenceNeverGoesBack
=============================================================================
