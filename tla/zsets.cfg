SPECIFICATION Spec
CONSTANTS
  c1 = c1
  c2 = c2
  c3 = c3
  Conns = {c1, c2}
  Free = Free
  GeoBits = 2
  Distance <- MCDistance
  Width <- MCWidth
  Height <- MCHeight
  Members = {1, 2}
  Scores = {3}
  Places <- MCPlaces
  Centers <- MCCenters
  Radii = {0, 1, 4}
  Indices <- MCIndices
  Commands = {"ZADD", "GEOADD", "ZRANK", "ZRANGE", "ZCARD", "ZSCORE", "ZREM", "GEOPOS", "GEODIST", "GEOSEARCH"}
INVARIANTS TypeOK OrderAgrees WriterAlone
PROPERTIES ImplementsOrderedMap AnsweredUnlessLeaked
CHECK_DEADLOCK FALSE
