----------------------------- MODULE TrackFilter -----------------------------
(***************************************************************************)
(* internal/filter: the chains of filters of GET /api/v1/track/:addr, from  *)
(* the rows of MySQL to the lines of the GeoJSON answer, a filter a step.   *)
(*                                                                         *)
(* Places lie on a line, in units of 10 metres; times are in minutes and    *)
(* speeds in km/h, rounded down.  A point keeps its index in the track that *)
(* was read (n), by which the properties recognise it.                     *)
(***************************************************************************)
EXTENDS Integers, Sequences, FiniteSets, SequencesExt

CONSTANTS
  Jumps,      \* how far the points of a track are apart
  Gaps,       \* and how long
  MaxPoints,  \* bound on the length of a track
  Infinity,   \* math.MaxFloat64
  \* the constants of the filters
  MinDistance, MinTimeInterval, ClusterRadius, ClusterPoints,
  MaxReasonableSpeed, DuplicateThreshold, PingPongThreshold, DetectorSize,
  SlidingWindowSize, SpeedMultiplier, FirstPointMin, ExtremeDistance,
  MinClusterRadius, MaxClusterRadius, NeighborDistance, NeighborWindow,
  NearbyRadius, NearbyCount, GapMinutes,
  SpeedThreshold, HysteresisLower, HysteresisUpper, MinSegmentPoints, MinSegmentDuration

ASSUME TrackFilterAssumption ==
  /\ Jumps \subseteq Int /\ Gaps \subseteq Nat /\ MaxPoints \in Nat \ {0}
  /\ MinClusterRadius <= MaxClusterRadius
  /\ HysteresisLower <= SpeedThreshold /\ SpeedThreshold <= HysteresisUpper

VARIABLES
  recorded, \* the track that was read
  level,    \* filter-level
  todo,     \* the filters that are still to be applied
  points,   \* the points so far
  segments, \* Statistics.Segments of the latest filter that has found any
  breaks,   \* its Statistics.SegmentCount
  lines     \* the lines of the answer

filterVars == <<recorded, level, todo, points, segments, breaks, lines>>

-----------------------------------------------------------------------------
(* Arithmetic.                                                              *)

Between(p, q)   == IF p.place > q.place THEN p.place - q.place ELSE q.place - p.place
Away(p, place)  == Between(p, [place |-> place])
SpeedOf(d, t)   == (d * 3) \div (5 * t)
Sorted(s)       == SortSeq(s, <)
Median(s) ==
  LET n == Len(s)  r == Sorted(s)
  IN  IF n % 2 = 0 THEN (r[n \div 2] + r[n \div 2 + 1]) \div 2 ELSE r[n \div 2 + 1]
Places(s)   == [i \in DOMAIN s |-> s[i].place]
Least(S)    == CHOOSE x \in S : \A y \in S : x <= y
Greatest(S) == CHOOSE x \in S : \A y \in S : x >= y

\* The indices of the points that are not filtered.
Unfiltered(s) == {i \in DOMAIN s : ~s[i].filtered}

\* The points at the indices of I, in their order.  (Written so that it can be reasoned
\* about, which the sorted sequences of the community modules cannot.)
Rank(I, i)   == Cardinality({j \in I : j <= i})
Ascending(I) == [k \in 1..Cardinality(I) |-> CHOOSE i \in I : Rank(I, i) = k]
Select(s, I) == [k \in 1..Cardinality(I) |-> s[Ascending(I)[k]]]

\* CalculateTrackStatistics.  A speed that cannot be calculated stays.
TrackStatistics(s) ==
  [i \in DOMAIN s |->
     IF i > 1 /\ s[i].at > s[i - 1].at /\ Between(s[i - 1], s[i]) > 0
     THEN [s[i] EXCEPT !.speed = SpeedOf(Between(s[i - 1], s[i]), s[i].at - s[i - 1].at)]
     ELSE s[i]]

-----------------------------------------------------------------------------
(* DuplicateFilter.  A duplicate goes and leaves its time to the point       *)
(* before it.                                                              *)

InCluster(p, kept) ==
  LET last  == IF Len(kept) < ClusterPoints THEN Len(kept) ELSE ClusterPoints
      close == {i \in (Len(kept) - last + 1)..Len(kept) : Between(kept[i], p) <= ClusterRadius}
  IN  Cardinality(close) > last \div 2

IsDuplicate(p, kept) ==
  \/ Between(Last(kept), p) < MinDistance
  \/ p.at - Last(kept).at < MinTimeInterval
  \/ InCluster(p, kept)

Refreshed(kept, p) ==
  IF p.at > Last(kept).at THEN [kept EXCEPT ![Len(kept)].at = p.at] ELSE kept

AddUnlessDuplicate(kept, p) ==
  IF IsDuplicate(p, kept) THEN Refreshed(kept, p) ELSE Append(kept, p)

Duplicate(s) ==
  LET kept[i \in 0..Len(s)] == IF i = 0 THEN <<>>
                               ELSE IF i = 1 THEN <<s[1]>>
                               ELSE AddUnlessDuplicate(kept[i - 1], s[i])
  IN  IF Len(s) <= 1 THEN s ELSE kept[Len(s)]

-----------------------------------------------------------------------------
(* SmartTeleportationFilter marks points and keeps them all.                *)

\* PingPongDetector.AddPoint: the positions seen, and how often.
Seen(detector, p) == {i \in DOMAIN detector : Away(p, detector[i].place) < MinDistance}
AddPoint(detector, p) ==
  IF Seen(detector, p) # {}
  THEN [detector EXCEPT ![Least(Seen(detector, p))].count = @ + 1]
  ELSE LET new == Append(detector, [place |-> p.place, count |-> 1])
       IN  IF Len(new) > DetectorSize THEN Tail(new) ELSE new
IsPingPong(detector, p) ==
  Seen(detector, p) # {} /\ detector[Least(Seen(detector, p))].count + 1 >= PingPongThreshold

IsMassive(s, i) ==
  /\ i > DuplicateThreshold
  /\ \A j \in (i - DuplicateThreshold + 1)..i : s[j].place = s[i].place

SlidingMedian(s, i) ==
  LET window == {j \in (i - SlidingWindowSize)..(i - 1) : s[j].speed > 0}
  IN  IF i <= SlidingWindowSize \/ Cardinality(window) < 3 THEN 0
      ELSE Median([k \in 1..Cardinality(window) |-> Select(s, window)[k].speed])

IsFarFirst(s, i) ==
  i = 1 /\ Len(s) > FirstPointMin /\ Away(s[1], Median(Places(s))) > ExtremeDistance

IsTooFast(s, i) ==
  /\ i > 1 /\ s[i].speed > 0
  /\ \/ s[i].speed > MaxReasonableSpeed
     \/ SlidingMedian(s, i) > 0 /\ s[i].speed > SlidingMedian(s, i) * SpeedMultiplier

IsExtreme(s, i) == i > 1 /\ Between(s[i - 1], s[i]) > ExtremeDistance

\* The points that are judged before the detector sees them.
IsEarly(s, i) == IsFarFirst(s, i) \/ IsMassive(s, i)

Marked(s, I) == [i \in DOMAIN s |-> [s[i] EXCEPT !.filtered = @ \/ i \in I]]

SmartTeleportation(s) ==
  LET t == TrackStatistics(s)
      detector[i \in 0..Len(s)] == IF i = 0 THEN <<>>
                                   ELSE IF IsEarly(t, i) THEN detector[i - 1]
                                   ELSE AddPoint(detector[i - 1], t[i])
      Bad(i) == \/ IsEarly(t, i) \/ IsPingPong(detector[i - 1], t[i])
                \/ IsTooFast(t, i) \/ IsExtreme(t, i)
  IN  IF Len(s) < 3 THEN s ELSE Marked(t, {i \in DOMAIN t : Bad(i)})

Level1(s) == SmartTeleportation(Duplicate(s))

-----------------------------------------------------------------------------
(* PreCleanupFilter marks what lies outside of the main cluster.            *)

ClusterRadiusOf(s, centre) ==
  LET r == Sorted([i \in DOMAIN s |-> Away(s[i], centre)])
      q == r[(Len(r) * 3) \div 4 + 1]
  IN  IF q < MinClusterRadius THEN MinClusterRadius
      ELSE IF q > MaxClusterRadius THEN MaxClusterRadius ELSE q

\* Points that an earlier step has marked are no neighbours.
Others(s, i)  == {j \in DOMAIN s \ {i} : ~s[j].filtered}
Window(s, i)  == Others(s, i) \cap (i - NeighborWindow)..(i + NeighborWindow)
Nearest(s, i, J) == IF J = {} THEN Infinity ELSE Least({Between(s[i], s[j]) : j \in J})
MinNeighborDistance(s, i) == Nearest(s, i, IF Window(s, i) # {} THEN Window(s, i) ELSE Others(s, i))
Nearby(s, i) == {j \in Others(s, i) : Between(s[i], s[j]) <= NearbyRadius}

IsIsolated(s, i, centre, radius) ==
  IF i \in {1, Len(s)}
  THEN Away(s[i], centre) > radius * 2 /\ MinNeighborDistance(s, i) > NeighborDistance
  ELSE Away(s[i], centre) > radius * 3 /\ Cardinality(Nearby(s, i)) < NearbyCount

PreCleanup(s) ==
  LET centre == Median(Places(s))
      radius == ClusterRadiusOf(s, centre)
      isolated[i \in 0..Len(s)] ==
        IF i = 0 THEN {}
        ELSE LET marked == isolated[i - 1]
                 new    == IsIsolated(Marked(s, marked), i, centre, radius)
             IN  marked \cup (IF new THEN {i} ELSE {})
  IN  IF Len(s) < 3 THEN s ELSE Marked(s, isolated[Len(s)])

-----------------------------------------------------------------------------
(* TimeGapSegmentationFilter.                                               *)

\* The number of the run of points that i belongs to.
RunOf(s, i) == 1 + Cardinality({j \in 2..i : s[j].at - s[j - 1].at > GapMinutes})
RunPoints(s, r) == {i \in DOMAIN s : RunOf(s, i) = r}

\* A run whose points are all filtered makes no segment, and its points keep the id 0.
TimeGapSegmentation(s) ==
  IF Len(s) < 2 THEN s
  ELSE [i \in DOMAIN s |->
          IF \E j \in RunPoints(s, RunOf(s, i)) : ~s[j].filtered
          THEN [s[i] EXCEPT !.segment = RunOf(s, i)] ELSE s[i]]

-----------------------------------------------------------------------------
(* SegmentedFilterChain: Level 1 for each group of points with one id.      *)

GroupId(p)     == IF p.segment = 0 THEN 1 ELSE p.segment
GroupIds(s)    == {GroupId(s[i]) : i \in DOMAIN s}
Group(s, g)    == {i \in DOMAIN s : GroupId(s[i]) = g}
Belonging(p, id) == [p EXCEPT !.segment = id]
Subtrack(s, g) ==
  [k \in 1..Cardinality(Group(s, g)) |-> Belonging(Select(s, Group(s, g))[k], g)]

\* The k-th point that Level 1 returns takes the place of the k-th point of the group;
\* those for which none is left are filtered.
Placed(s, i) ==
  LET g == GroupId(s[i])  result == Level1(Subtrack(s, g))  k == Rank(Group(s, g), i)
  IN  IF Cardinality(Group(s, g)) < 2 \/ k > Len(result)
      THEN [s[i] EXCEPT !.filtered = TRUE]
      ELSE result[k]
Segmented(s) == [i \in DOMAIN s |-> Placed(s, i)]

\* SegmentInfo, of groups with at least two points left.
SegmentedInfo(s) ==
  {[id |-> g, first |-> Least(Group(s, g)), last |-> Greatest(Group(s, g))] :
     g \in {h \in GroupIds(s) : /\ Cardinality(Group(s, h)) >= 2
                               /\ Cardinality(Unfiltered(Level1(Subtrack(s, h)))) > 1}}

-----------------------------------------------------------------------------
(* ActivitySegmentationFilter.                                              *)

\* calculateSpeeds.
WithSpeeds(s) ==
  [i \in DOMAIN s |->
     IF /\ i > 1 /\ s[i].speed = 0 /\ ~s[i].filtered /\ ~s[i - 1].filtered
        /\ s[i].at > s[i - 1].at
     THEN [s[i] EXCEPT !.speed = SpeedOf(Between(s[i - 1], s[i]), s[i].at - s[i - 1].at)]
     ELSE s[i]]

Activity(speed) == IF speed <= SpeedThreshold THEN "ground" ELSE "flight"
ActivityWithHysteresis(speed, current) ==
  IF current = "ground" THEN IF speed > HysteresisUpper THEN "flight" ELSE "ground"
                        ELSE IF speed < HysteresisLower THEN "ground" ELSE "flight"

\* createActivitySegment of the points from a to b.
Info(s, id, a, b) ==
  LET valid == Unfiltered(s) \cap a..b
  IN  [id |-> id, first |-> a, last |-> b, count |-> Cardinality(valid),
       start |-> IF valid = {} THEN 0 ELSE s[Least(valid)].at,
       end   |-> IF valid = {} THEN 0 ELSE s[Greatest(valid)].at]
AddInfo(list, info) == IF info.count > 0 THEN Append(list, info) ELSE list

\* segmentByActivity of the points from a to b; a point at which the activity changes
\* ends one segment and begins the next one.
AtPoint(s, id, state, i) ==
  LET activity == ActivityWithHysteresis(s[i].speed, state.activity)
  IN  IF activity = state.activity THEN state
      ELSE [activity |-> activity, from |-> i,
            list |-> AddInfo(state.list, Info(s, id + Len(state.list), state.from, i))]
ByActivity(s, a, b, id) ==
  LET state[k \in 0..(b - a)] ==
        IF k = 0 THEN [activity |-> Activity(s[a].speed), from |-> a, list |-> <<>>]
        ELSE AtPoint(s, id, state[k - 1], a + k)
      last == state[b - a]
  IN  AddInfo(last.list, Info(s, id + Len(last.list), last.from, b))

IsSmall(info) == info.count < MinSegmentPoints \/ info.end - info.start < MinSegmentDuration
Merge(x, y) ==
  [id |-> x.id, first |-> x.first, last |-> y.last, count |-> x.count + y.count,
   start |-> x.start, end |-> y.end]

\* filterSmallSegments.  A small first segment is merged with the next one, which is
\* then looked at again: i++ does not reach the range loop.
FilterStep(list, out, i) ==
  IF ~IsSmall(list[i]) THEN Append(out, list[i])
  ELSE IF out # <<>> THEN [out EXCEPT ![Len(out)] = Merge(@, list[i])]
  ELSE IF i < Len(list) THEN <<Merge(list[i], list[i + 1])>>
  ELSE <<list[i]>>
FilterSmall(list) ==
  LET out[i \in 0..Len(list)] == IF i = 0 THEN <<>> ELSE FilterStep(list, out[i - 1], i)
  IN  IF Len(list) <= 1 THEN list ELSE out[Len(list)]

\* extractTimeSegments: a run of points with one id ends at i.
TimeEnds(s, i) == i = Len(s) \/ GroupId(s[i]) # GroupId(s[i + 1])

\* The ids count the segments of all the runs, those that are merged away too.
AtTime(s, state, i) ==
  LET list == ByActivity(s, state.from, i, state.id)
  IN  IF ~TimeEnds(s, i) THEN state
      ELSE [from |-> i + 1, id |-> state.id + Len(list),
            all  |-> state.all \o FilterSmall(list)]
ActivitySegments(s) ==
  LET state[i \in 0..Len(s)] == IF i = 0 THEN [from |-> 1, id |-> 1, all |-> <<>>]
                                ELSE AtTime(s, state[i - 1], i)
  IN  state[Len(s)].all

\* createContinuousPoints: the points of each segment that no earlier one has, and then
\* the first point of the next segment, as a copy that belongs to it.
Covers(list, k) == UNION {list[j].first..list[j].last : j \in 1..k}
Piece(s, list, k) ==
  LET fresh == (list[k].first..list[k].last) \ Covers(list, k - 1)
  IN  [j \in 1..Cardinality(fresh) |-> Belonging(Select(s, fresh)[j], list[k].id)]
        \o IF k = Len(list) THEN <<>> ELSE <<Belonging(s[list[k + 1].first], list[k + 1].id)>>
Continuous(s, list) ==
  LET out[k \in 0..Len(list)] == IF k = 0 THEN <<>> ELSE out[k - 1] \o Piece(s, list, k)
  IN  IF Len(list) <= 1 THEN s ELSE out[Len(list)]

\* updatePointSegmentIDs takes the segments' indices, which are those of the points
\* before the copies were added.
UpdateIds(s, list) ==
  [i \in DOMAIN s |->
     LET ids == {list[k].id : k \in {j \in DOMAIN list : i \in list[j].first..list[j].last}}
     IN  IF ids = {} THEN s[i]
         ELSE [s[i] EXCEPT !.segment = Greatest(ids \cup {@})]]

ActivitySegmentation(s) ==
  LET t == WithSpeeds(s)  list == ActivitySegments(t)
  IN  UpdateIds(Continuous(t, list), list)

-----------------------------------------------------------------------------
(* The chains, and the request.                                            *)

Chain(n) ==
  CASE n = 0 -> <<>>
    [] n = 1 -> <<"duplicate", "smart">>
    [] n = 2 -> <<"preCleanup", "timeGap", "segmented">>
    [] n = 3 -> <<"preCleanup", "timeGap", "segmented", "activity">>

Raw(at, place, n) ==
  [at |-> at, place |-> place, n |-> n, speed |-> 0, filtered |-> FALSE, segment |-> 0]
NextPoints(s) ==
  {Raw(Last(s).at + g, Last(s).place + j, Len(s) + 1) : g \in Gaps, j \in Jumps}

FilterInit ==
  /\ recorded = <<Raw(0, 0, 1)>>
  /\ level    = 0
  /\ todo     = <<>>
  /\ points   = <<>>
  /\ segments = {}
  /\ breaks   = 0
  /\ lines    = {}

\* Another row of ufo_track; MySQL gives them back in the order of their times.
Record ==
  /\ points = <<>> /\ Len(recorded) < MaxPoints
  /\ \E p \in NextPoints(recorded) : recorded' = Append(recorded, p)
  /\ UNCHANGED <<level, todo, points, segments, breaks, lines>>

\* GetTrack: applyTrackFiltersWithTimestamps, for two points or more.
GetTrack(n) ==
  /\ points = <<>> /\ Len(recorded) > 1
  /\ level'  = n
  /\ todo'   = Chain(n)
  /\ points' = recorded
  /\ UNCHANGED <<recorded, segments, breaks, lines>>

Filter(name) ==
  /\ todo # <<>> /\ Head(todo) = name
  /\ todo' = Tail(todo)
  /\ UNCHANGED <<recorded, level, lines>>

Unsegmented == UNCHANGED <<segments, breaks>>
ApplyDuplicate  == Filter("duplicate") /\ points' = Duplicate(points) /\ Unsegmented
ApplySmart      == Filter("smart") /\ points' = SmartTeleportation(points) /\ Unsegmented
ApplyPreCleanup == Filter("preCleanup") /\ points' = PreCleanup(points) /\ Unsegmented
\* (The next filter of the chain replaces the segments that this one reports.)
ApplyTimeGap    == Filter("timeGap") /\ points' = TimeGapSegmentation(points) /\ Unsegmented
ApplySegmented ==
  /\ Filter("segmented")
  /\ points'   = Segmented(points)
  /\ segments' = SegmentedInfo(points)
  /\ breaks'   = Cardinality(GroupIds(points))
ApplyActivity ==
  LET list == ActivitySegments(WithSpeeds(points)) IN
  /\ Filter("activity")
  /\ points' = ActivitySegmentation(points)
  /\ IF list = <<>> THEN Unsegmented
     ELSE /\ segments' = {[id |-> list[k].id, first |-> list[k].first, last |-> list[k].last] :
                            k \in DOMAIN list}
          /\ breaks'   = Len(list)

\* convertTrackToGeoJSONWithFilter and convertTrackToGeoJSONWithSegments; a line is the
\* set of the indices of its points, which it visits in their order.
LineFrom(s, id) == {i \in Unfiltered(s) : s[i].segment >= id}
LineOf(s, id) ==
  {i \in Unfiltered(s) : s[i].segment = id \/ (s[i].segment = 0 /\ id = 1)}
LineIds(s) ==
  IF segments # {} THEN {info.id : info \in segments}
  ELSE {GroupId(s[i]) : i \in Unfiltered(s)}
LinesOf(s) ==
  IF Cardinality(segments) > 1 \/ breaks > 1
  THEN {line \in {LineOf(s, id) : id \in LineIds(s)} : Cardinality(line) > 1}
  ELSE {Unfiltered(s)}

Answer ==
  /\ points # <<>> /\ todo = <<>> /\ lines = {}
  /\ lines' = LinesOf(points)
  /\ UNCHANGED <<recorded, level, todo, points, segments, breaks>>

FilterNext ==
  \/ Record
  \/ \E n \in 0..3 : GetTrack(n)
  \/ ApplyDuplicate \/ ApplySmart \/ ApplyPreCleanup \/ ApplyTimeGap \/ ApplySegmented
  \/ ApplyActivity
  \/ Answer

FilterSpec == FilterInit /\ [][FilterNext]_filterVars

-----------------------------------------------------------------------------
(* Properties.                                                              *)

\* The filters that are still to be applied end a chain.
Remaining(n) == {SubSeq(Chain(n), k, Len(Chain(n))) : k \in 1..(Len(Chain(n)) + 1)}

FilterTypeOK ==
  /\ level \in 0..3
  /\ todo \in Remaining(level)
  /\ \A i \in DOMAIN points :
       /\ points[i].n \in DOMAIN recorded
       /\ points[i].filtered \in BOOLEAN
       /\ {points[i].segment, points[i].speed} \subseteq Nat

\* The number of the run of the track in which the point at i was recorded.
RecordedRun(i) == RunOf(recorded, points[i].n)

\* Up to Level 2 the points that are not filtered are different points of the track, in
\* its order and where they were recorded, and no point has a time after the next one of
\* its run - although the duplicates of a segment are removed first, the rest is then moved
\* up to the first indices of the segment, and filtered points of later runs are among
\* them (SegmentedFilterChain.Filter).
TrackInOrder ==
  level # 3 \/ todo # <<>> =>
    \A i, j \in Unfiltered(points) :
      /\ points[i].place = recorded[points[i].n].place
      /\ i < j => points[i].n < points[j].n
      /\ i < j /\ (level < 2 \/ RecordedRun(i) = RecordedRun(j)) =>
           points[i].at <= points[j].at

\* The points of the track that are not filtered.
Kept(s) == {s[i].n : i \in Unfiltered(s)}

\* Level 3 only divides the track differently: its points are those that Level 2 keeps,
\* whatever segments are merged and whatever points are copied (createContinuousPoints).
ActivityLosesNoPoint ==
  level = 3 /\ todo = <<>> =>
    Kept(points) = Kept(Segmented(TimeGapSegmentation(PreCleanup(recorded))))

\* A line of Level 2 crosses no gap in the track, and one line has ended when the next one
\* begins, wherever the points of a segment were moved to and whatever ids the filtered
\* ones have (TimeGapSegmentationFilter, convertTrackToGeoJSONWithSegments).
LinesAreRuns ==
  /\ level = 2 => \A line \in lines : \A i, j \in line : RecordedRun(i) = RecordedRun(j)
  /\ level # 3 => \A x, y \in lines : x # y =>
                   \/ \A i \in x, j \in y : points[i].n < points[j].n
                   \/ \A i \in x, j \in y : points[j].n < points[i].n

\* What is left of a track is a part of the track, at every level and in every answer.
TrackIsKept == TrackInOrder /\ ActivityLosesNoPoint /\ LinesAreRuns
=============================================================================
