---------------------------- MODULE ZSetCommands ----------------------------
(***************************************************************************)
(* What clients ask of one sorted set, and what they are answered.         *)
(***************************************************************************)
EXTENDS GeoGrid

CONSTANTS
  Conns,     \* client connections, each served by one goroutine
  Members,   \* names, as numbers in the order of their strings
  Scores,    \* scores clients give to ZADD (whole numbers)
  Places,    \* positions clients give to GEOADD, on the map or not
  Centers,   \* positions clients give to GEOSEARCH
  Radii,     \* radii clients give to GEOSEARCH
  Indices,   \* indices clients give to ZRANGE
  Commands   \* the commands clients send in this instance

ASSUME ZSetAssumption ==
  /\ Members \subseteq Int
  /\ Scores \subseteq Nat
  /\ Centers \subseteq Positions
  /\ Indices \subseteq Int

Requests == UNION {
  [cmd : {"ZADD"}, member : Members, score : Scores],
  [cmd : {"GEOADD"}, member : Members, place : Places],
  [cmd : {"ZRANK", "ZSCORE", "ZREM", "GEOPOS"}, member : Members],
  [cmd : {"ZRANGE"}, from : Indices, to : Indices],
  [cmd : {"ZCARD"}],
  [cmd : {"GEODIST"}, member : Members, other : Members],
  [cmd : {"GEOSEARCH"}, center : Centers, radius : Radii]}

NoRequest == [cmd |-> "none"]

Writers == {"ZADD", "GEOADD", "ZREM"}

\* Answers of different shapes are told apart by their field.
NoAnswer       == [none |-> 0]
Error          == [error |-> 0]
Nil            == [nil |-> 0]
Number(n)      == [number |-> n]
Array(members) == [array |-> members]
Cell(p)        == [cell |-> p]
Found(members) == [found |-> members]

\* GEOADD computes the score ZADD is given.  The float64 it is kept in is exact
\* below 2^53; only longitude 180 itself has scores above, whose last bit may go.
ScoreOf(r) == IF r.cmd = "GEOADD" THEN Encode(r.place) ELSE r.score

\* The map f with v under m.
Put(f, m, v) == [n \in DOMAIN f \cup {m} |-> IF n = m THEN v ELSE f[n]]

\* An index below zero counts from the end, and the first element is as far as
\* it goes (handlers.go:1175-1181).
FromEnd(index, len) == IF index < 0 THEN Max({0, len + index}) ELSE index
=============================================================================
