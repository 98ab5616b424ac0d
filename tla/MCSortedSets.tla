---------------------------- MODULE MCSortedSets ----------------------------
(***************************************************************************)
(* Instances of SortedSets for TLC.                                        *)
(***************************************************************************)
EXTENDS SortedSets

CONSTANTS c1, c2, c3

\* Two corners that are neighbours across the meridian where the map ends, and a
\* place off the map.
West == [lat |-> 0, lon |-> 0]
East == [lat |-> 0, lon |-> 3]
Off  == [lat |-> -1, lon |-> 0]

MCPlaces  == {East, Off}
MCCenters == {West}

\* A small globe: longitudes go round, and a degree of them is twice as wide.
MCDistance(p, q) ==
  LET Apart(x, y) == Max({x - y, y - x})
      lon == Apart(p.lon, q.lon)
  IN  Max({Apart(p.lat, q.lat), Min({lon, Bit[GeoBits] - lon})})
MCWidth(center, depth) == 2 * Bit[GeoBits - depth]
MCHeight(depth) == Bit[GeoBits - depth]

\* Before the start of a set of one, past its end, and both ends of a set of two.
MCIndices == {-2, 1}
=============================================================================
