------------------------------ MODULE GeoGrid ------------------------------
(***************************************************************************)
(* The cells and scores of the geospatial commands (geocoding.go).  A      *)
(* position is the cell that Encode truncates it to, so a latitude and a   *)
(* longitude are numbers from 0 to Bit[GeoBits], the last one being the    *)
(* upper edge itself.  The code has 26 bits.                               *)
(*                                                                         *)
(* Of the sphere nothing is known but what the code asks of it: a distance *)
(* between two positions, and the width and the height of the boxes of the *)
(* grid at each depth.                                                     *)
(***************************************************************************)
EXTENDS Integers, SequencesExt

CONSTANTS
  GeoBits,          \* bits of a latitude or longitude
  Distance(_, _),   \* GeoDistance between two positions, in meters
  Width(_, _),      \* meters, of a box at a centre's latitude and at a depth
  Height(_)         \* meters, of a box at a depth

ASSUME GeoGridAssumption == GeoBits \in Nat \ {0}

\* uint64(1) << n.
Bit[n \in Nat] == IF n = 0 THEN 1 ELSE 2 * Bit[n - 1]

Positions == [lat : 0 .. Bit[GeoBits], lon : 0 .. Bit[GeoBits]]

\* HandleGeoAdd refuses what lies outside the map.
OnMap(p) == p \in Positions

-----------------------------------------------------------------------------
(* Bits of two numbers, interleaved. *)

\* Bit i of v becomes bit 2i.
spreadInt32ToInt64[v \in Nat] ==
  IF v = 0 THEN 0 ELSE (v % 2) + 4 * spreadInt32ToInt64[v \div 2]

\* Bit 2i of v becomes bit i, the odd bits are dropped.
compactInt64ToInt32[v \in Nat] ==
  IF v = 0 THEN 0 ELSE (v % 2) + 2 * compactInt64ToInt32[v \div 4]

\* x takes the even bits, y the odd ones.
interleave(x, y) == spreadInt32ToInt64[x] + 2 * spreadInt32ToInt64[y]

\* Latitude goes to the even bits.
Encode(p) == interleave(p.lat, p.lon)

Decode(score) ==
  [lat |-> compactInt64ToInt32[score], lon |-> compactInt64ToInt32[score \div 2]]

-----------------------------------------------------------------------------
(* The cells GEOSEARCH looks into. *)

\* The finest depth whose boxes are as wide and as high as the radius, or 1.
BoxDepth(center, radius) ==
  Max({1} \cup {d \in 2 .. GeoBits : Width(center, d) >= radius /\ Height(d) >= radius})

\* Scores of the centre's box and of its neighbours on the map.  The code calls
\* interleave(nx, ny), longitude first, where Encode has latitude first.
Get9BoxRanges(center, radius) ==
  LET depth == BoxDepth(center, radius)
      shift == GeoBits - depth
      gridX == center.lon \div Bit[shift]
      gridY == center.lat \div Bit[shift]
      boxes == ((gridX - 1) .. (gridX + 1)) \X ((gridY - 1) .. (gridY + 1))
      grid  == 0 .. Bit[depth] - 1
  IN  {[min |-> interleave(b[1], b[2]) * Bit[2 * shift],
        max |-> (interleave(b[1], b[2]) + 1) * Bit[2 * shift] - 1] :
         b \in boxes \cap (grid \X grid)}

\* sort.Search: the first (counted from 1) of the places where its predicate
\* holds, or one past the end.  The code's predicates never go back to false.
FirstPlace(len, places) == Min(places \cup {len + 1})

\* For each range: from its first element on, stop past its last, keep what is
\* within the radius.
GeoMatches(order, center, radius) ==
  UNION {
    LET startIndex == FirstPlace(Len(order), {i \in DOMAIN order : order[i].score >= r.min})
        inRange    == {i \in startIndex .. Len(order) :
                         \A j \in startIndex .. i : order[j].score <= r.max}
    IN  {order[i].name : i \in {j \in inRange :
           Distance(center, Decode(order[j].score)) <= radius}} :
    r \in Get9BoxRanges(center, radius)}

-----------------------------------------------------------------------------
(* What GEOSEARCH comes to, for OrderedMap.                                *)

Mirror(p) == [lat |-> p.lon, lon |-> p.lat]

\* A position in the box of the centre or in one beside it, on the grid.
Beside(center, p, radius) ==
  LET depth == BoxDepth(center, radius)
      size  == Bit[GeoBits - depth]
      SideBySide(x, y) == /\ x \div size \in (y \div size) - 1 .. (y \div size) + 1
                          /\ x \div size \in 0 .. Bit[depth] - 1
  IN  SideBySide(p.lat, center.lat) /\ SideBySide(p.lon, center.lon)

\* What is searched is the mirror image of the circle's boxes.
Findable(center, p, radius) ==
  Distance(center, p) <= radius /\ Beside(center, Mirror(p), radius)
=============================================================================
