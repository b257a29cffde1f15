------------------------------ MODULE GeoCover ------------------------------
(***************************************************************************)
(* internal/geo/geohash.go: Cover, the geohashes a WebSocket client is     *)
(* subscribed to, with Encode, Decode, Neighbors and the choice of the     *)
(* precision.  An update reaches a client only through one of them.        *)
(*                                                                         *)
(* The plane is flat, near the equator, and away from its edges.  A unit is *)
(* a quarter of a step, the size that GeohashPrecisionKm gives a cell of   *)
(* the precision.  That is a cell's width; the cells of an even precision  *)
(* are half as high, for their last bit divides longitudes.                *)
(***************************************************************************)
EXTENDS Integers, FiniteSets, FiniteSetsExt

CONSTANT Radii  \* the radii asked for, in km: a client may ask for 1 to 200

ASSUME RadiiAssumption == Radii \subseteq 1..200

VARIABLE asked  \* the arguments of Cover: a radius, and the centre within its cell

\* GeohashPrecisionKm, in tenths of a metre.
GeohashPrecision ==
  <<50000000, 12500000, 1560000, 391000, 49000, 12000, 1520, 380, 48>>

\* The first precision whose cells are at most a quarter of the radius.
OptimalPrecision(radius) ==
  LET fit == {p \in 1..9 : 4 * GeohashPrecision[p] <= radius * 10000}
  IN  IF fit = {} THEN 5 ELSE Min(fit)

CellStep  == 4
Width     == CellStep
Height(p) == IF p % 2 = 0 THEN CellStep \div 2 ELSE CellStep

XY(x, y)        == [x |-> x, y |-> y]
Within(o, a, r) == (a.x - o.x) * (a.x - o.x) + (a.y - o.y) * (a.y - o.y) <= r * r

\* A cell is known by its column and its row.
Encode(a, p)   == XY(a.x \div Width, a.y \div Height(p))
Decode(cell, p) ==
  XY(cell.x * Width + Width \div 2, cell.y * Height(p) + Height(p) \div 2)

\* The cells a step away from the centre of a cell, in eight directions.
Directions == (-1..1) \X (-1..1) \ {<<0, 0>>}
Neighbors(cell, p) ==
  {Encode(XY(Decode(cell, p).x + d[1] * CellStep, Decode(cell, p).y + d[2] * CellStep), p) :
     d \in Directions}

\* The grid that Cover samples, from the corner of the bounding box.
From(o, r) == {o - r + k * CellStep : k \in 0..((2 * r) \div CellStep)}
Sampled(o, r, p) ==
  {Encode(a, p) : a \in {b \in {XY(x, y) : x \in From(o.x, r), y \in From(o.y, r)} :
                           Within(o, b, r)}}

\* The neighbours of a sampled cell are added when their centres are within the radius.
NoNeighbors(o, r, p, cells)    == {}
AllNeighbors(o, r, p, cells)   == UNION {Neighbors(g, p) : g \in cells}
AddedNeighbors(o, r, p, cells) ==
  {n \in AllNeighbors(o, r, p, cells) : Within(o, Decode(n, p), r)}

Cover(o, r, p) ==
  Sampled(o, r, p) \cup AddedNeighbors(o, r, p, Sampled(o, r, p))

-----------------------------------------------------------------------------
Precision   == OptimalPrecision(asked.radius)
CoverCentre == XY(asked.x, asked.y)
Reach       == (asked.radius * 10000 * CellStep) \div GeohashPrecision[Precision]
Cells       == Cover(CoverCentre, Reach, Precision)

Asked ==
  {q \in [radius : Radii, x : 0..(Width - 1), y : 0..(CellStep - 1)] :
     q.y < Height(OptimalPrecision(q.radius))}

Nobody    == [radius |-> 0, x |-> 0, y |-> 0]
CoverInit == asked = Nobody
\* A client asks; an answer does not depend on earlier ones.
CoverNext == asked = Nobody /\ asked' \in Asked
CoverSpec == CoverInit /\ [][CoverNext]_asked

-----------------------------------------------------------------------------
(* Properties.                                                              *)

CoverTypeOK == asked \in Asked \cup {Nobody}

\* The cells of the places, and of the cell centres, within r of the centre.
CellsOfDisc(r) ==
  {Encode(a, Precision) : a \in {b \in {XY(x, y) : x \in (CoverCentre.x - r)..(CoverCentre.x + r),
                                                     y \in (CoverCentre.y - r)..(CoverCentre.y + r)} :
                                Within(CoverCentre, b, r)}}
Inside(r) == {g \in CellsOfDisc(r) : Within(CoverCentre, Decode(g, Precision), r)}

Even == Precision % 2 = 0

\* A client joins no group that has nothing within its radius.
NoOverreach == Cells \subseteq CellsOfDisc(Reach)

\* With an odd precision, every cell whose centre is within the radius is covered.
OddIsCovered == ~Even => Inside(Reach) \subseteq Cells

\* With an even precision whole rows are missing, but away from the rim never two
\* together: the client is subscribed above and below a cell that is missing.
Vertical(g) == {[g EXCEPT !.y = @ - 1], [g EXCEPT !.y = @ + 1]}
HolesAreOneRow ==
  Even => UNION {Vertical(g) : g \in Inside(Reach \div 2) \ Cells} \subseteq Cells

\* A client is subscribed to what is around it, up to those rows.
CoverIsSound == asked # Nobody => NoOverreach /\ OddIsCovered /\ HolesAreOneRow
=============================================================================
