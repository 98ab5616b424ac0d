----------------------------- MODULE SortedSets -----------------------------
(***************************************************************************)
(* One sorted set of the server and the connections that use it: ZADD,     *)
(* ZRANK, ZRANGE, ZCARD, ZSCORE, ZREM and the geospatial commands, which   *)
(* keep positions as scores.  Sets of different keys share nothing.        *)
(*                                                                         *)
(* A set is a map from names to scores and a slice in order of score, under *)
(* a sync.RWMutex.  Handlers of reading commands return with the read lock *)
(* held on the paths named at each action; leaked says that such a lock is *)
(* left, which nobody will release.                                        *)
(*                                                                         *)
(* A handler reads its arguments (Send), looks its key up (Find.., Miss..), *)
(* waits for the lock, works under it and releases it, and answers         *)
(* (Return).  AddToSortedSet works in two steps, so that the set is seen   *)
(* between them.                                                           *)
(***************************************************************************)
EXTENDS ZSetCommands

CONSTANT Free   \* not a connection: no writer

ASSUME SortedSetsAssumption == Free \notin Conns

VARIABLES
  up,         \* the process runs (a panic in any goroutine ends it)
  exists,     \* the key is in ZSetRegistry
  Elements,   \* sortedSet.Elements: score of each name
  Order,      \* sortedSet.Order
  writer,     \* the connection whose Lock has shut out new readers, or Free
  leaked,     \* a handler returned without RUnlock
  pc,         \* where each connection's goroutine is
  request,    \* the arguments it is working on
  reply       \* the answer it is about to write

set    == <<exists, Elements, Order>>
rwlock == <<writer, leaked>>
vars   == <<up, set, rwlock, pc, request, reply>>

Init ==
  /\ up = TRUE
  /\ exists = FALSE
  /\ Elements = <<>>
  /\ Order = <<>>
  /\ writer = Free
  /\ leaked = FALSE
  /\ pc = [c \in Conns |-> "idle"]
  /\ request = [c \in Conns |-> NoRequest]
  /\ reply = [c \in Conns |-> NoAnswer]

-----------------------------------------------------------------------------
(* Guards and pieces shared by the handlers. *)

At(c, place, cmds) == up /\ pc[c] = place /\ request[c].cmd \in cmds

Goto(c, place) == pc' = [pc EXCEPT ![c] = place]

\* The arguments are done with; what remains is to write a.
Answer(c, a) ==
  /\ request' = [request EXCEPT ![c] = NoRequest]
  /\ reply' = [reply EXCEPT ![c] = a]

\* A read that gives its lock back, and one that does not.
ReadAnswer(c, a) ==
  /\ Answer(c, a) /\ Goto(c, "reply")
  /\ UNCHANGED <<up, set, rwlock>>
LeakAnswer(c, a) ==
  /\ Answer(c, a) /\ Goto(c, "reply")
  /\ leaked' = TRUE
  /\ UNCHANGED <<up, set, writer>>

Panic ==
  /\ up' = FALSE
  /\ UNCHANGED <<set, rwlock, pc, request, reply>>

-----------------------------------------------------------------------------
(* sync.RWMutex.  A Lock that has begun keeps new readers out until its      *)
(* Unlock, which first lets in the readers that have come meanwhile.         *)

NoReader == ~leaked /\ \A c \in Conns : pc[c] # "reading"

RLock(c) ==
  /\ up /\ pc[c] = "rlock"
  /\ Goto(c, IF writer = Free THEN "reading" ELSE "rwait")
  /\ UNCHANGED <<up, set, rwlock, request, reply>>

\* One Lock at a time; the others wait for RWMutex.w.
Lock(c) ==
  /\ up /\ pc[c] = "lock" /\ writer = Free
  /\ writer' = c
  /\ Goto(c, "drain")
  /\ UNCHANGED <<up, set, leaked, request, reply>>

\* Unlock, and the answer a is what the handler of c writes next.
UnlockAnswer(c, a) ==
  /\ writer' = Free
  /\ Answer(c, a)
  /\ pc' = [d \in Conns |-> CASE d = c           -> "reply"
                              [] pc[d] = "rwait" -> "reading"
                              [] OTHER           -> pc[d]]
  /\ UNCHANGED <<up, exists, leaked>>

-----------------------------------------------------------------------------
(* Before the lock: arguments and ZSetRegistry. *)

Send(c, r) ==
  /\ up /\ pc[c] = "idle"
  /\ r.cmd \in Commands
  /\ request' = [request EXCEPT ![c] = r]
  /\ Goto(c, "called")
  /\ UNCHANGED <<up, set, rwlock, reply>>

\* HandleGeoAdd: an error reply for a position off the map.
RefusePlace(c) ==
  /\ At(c, "called", {"GEOADD"})
  /\ ~OnMap(request[c].place)
  /\ Answer(c, Error) /\ Goto(c, "reply")
  /\ UNCHANGED <<up, set, rwlock>>

\* AddToSortedSet: LoadOrStore makes the set.
FindOrMake(c) ==
  /\ At(c, "called", {"ZADD", "GEOADD"})
  /\ request[c].cmd = "GEOADD" => OnMap(request[c].place)
  /\ exists' = TRUE
  /\ Goto(c, "lock")
  /\ UNCHANGED <<up, Elements, Order, rwlock, request, reply>>

Find(c) ==
  /\ up /\ pc[c] = "called" /\ exists
  /\ request[c].cmd \notin {"ZADD", "GEOADD"}
  /\ Goto(c, IF request[c].cmd = "ZREM" THEN "lock" ELSE "rlock")
  /\ UNCHANGED <<up, set, rwlock, request, reply>>

\* The answer without a set, no lock being taken.
Miss(c) ==
  /\ At(c, "called", {"ZRANK", "ZSCORE", "GEOPOS", "ZRANGE", "ZCARD", "ZREM", "GEOSEARCH"})
  /\ ~exists
  /\ Answer(c, CASE request[c].cmd \in {"ZRANK", "ZSCORE", "GEOPOS"} -> Nil
                 [] request[c].cmd = "ZRANGE"                        -> Array(<<>>)
                 [] request[c].cmd \in {"ZCARD", "ZREM"}             -> Number(0)
                 [] request[c].cmd = "GEOSEARCH"                     -> Found({}))
  /\ Goto(c, "reply")
  /\ UNCHANGED <<up, set, rwlock>>

\* HandleGeoDist: the type assertion on an entry that is not there panics.
MissGeoDist(c) ==
  /\ At(c, "called", {"GEODIST"})
  /\ ~exists
  /\ Panic

-----------------------------------------------------------------------------
(* AddToSortedSet. *)

PlaceOf(name) == FirstPlace(Len(Order), {i \in DOMAIN Order : Order[i].name = name})

\* Wrong: leaves the old place of a member whose score changes.
EraseNothing(c) ==
  /\ At(c, "drain", {"ZADD", "GEOADD"}) /\ NoReader
  /\ Goto(c, "insert")
  /\ UNCHANGED <<up, set, rwlock, request, reply>>

\* Wrong: does not wait for the readers that hold the lock.
EraseAtOnce(c) ==
  /\ At(c, "drain", {"ZADD", "GEOADD"})
  /\ Order' = IF request[c].member \in DOMAIN Elements
              THEN RemoveAt(Order, PlaceOf(request[c].member)) ELSE Order
  /\ Goto(c, "insert")
  /\ UNCHANGED <<up, exists, Elements, rwlock, request, reply>>

\* A member that is there loses its old place.
Erase(c) ==
  /\ At(c, "drain", {"ZADD", "GEOADD"}) /\ NoReader
  /\ Order' = IF request[c].member \in DOMAIN Elements
              THEN RemoveAt(Order, PlaceOf(request[c].member)) ELSE Order
  /\ Goto(c, "insert")
  /\ UNCHANGED <<up, exists, Elements, rwlock, request, reply>>

\* Wrong: members of equal score stand in the order of their arrival.
InsertionPointByScore(name, score) ==
  FirstPlace(Len(Order), {i \in DOMAIN Order : Order[i].score > score})

\* Where the binary search puts a member.
InsertionPoint(name, score) ==
  FirstPlace(Len(Order), {i \in DOMAIN Order :
    IF Order[i].score = score THEN Order[i].name >= name ELSE Order[i].score > score})

\* Wrong: appends the empty element, makes room, and does not fill it.
InsertEmpty(c) ==
  LET r == request[c] IN
  /\ At(c, "insert", {"ZADD", "GEOADD"})
  /\ Elements' = Put(Elements, r.member, ScoreOf(r))
  /\ Order' = InsertAt(Order, InsertionPoint(r.member, ScoreOf(r)), [name |-> 0, score |-> 0])
  /\ UnlockAnswer(c, Number(IF r.member \in DOMAIN Elements THEN 0 ELSE 1))

Insert(c) ==
  LET r == request[c] IN
  /\ At(c, "insert", {"ZADD", "GEOADD"})
  /\ Elements' = Put(Elements, r.member, ScoreOf(r))
  /\ Order' = InsertAt(Order, InsertionPoint(r.member, ScoreOf(r)),
                       [name |-> r.member, score |-> ScoreOf(r)])
  /\ UnlockAnswer(c, Number(IF r.member \in DOMAIN Elements THEN 0 ELSE 1))

-----------------------------------------------------------------------------
(* The other handlers, under the lock. *)

\* Wrong: returns without Unlock when there is nothing to remove.
ZRemKeepsLock(c) ==
  LET name == request[c].member IN
  /\ At(c, "drain", {"ZREM"}) /\ NoReader
  /\ Elements' = Restrict(Elements, DOMAIN Elements \ {name})
  /\ Order' = IF name \in DOMAIN Elements THEN RemoveAt(Order, PlaceOf(name)) ELSE Order
  /\ \/ /\ name \in DOMAIN Elements
        /\ UnlockAnswer(c, Number(1))
     \/ /\ name \notin DOMAIN Elements
        /\ Answer(c, Number(0)) /\ Goto(c, "reply")
        /\ UNCHANGED <<up, exists, rwlock>>

ZRem(c) ==
  LET name == request[c].member IN
  /\ At(c, "drain", {"ZREM"}) /\ NoReader
  /\ Elements' = Restrict(Elements, DOMAIN Elements \ {name})
  /\ Order' = IF name \in DOMAIN Elements THEN RemoveAt(Order, PlaceOf(name)) ELSE Order
  /\ UnlockAnswer(c, Number(IF name \in DOMAIN Elements THEN 1 ELSE 0))

\* Keeps the lock with every answer (handlers.go:1116-1133).  Only a member of
\* the map that is not in the slice, which OrderAgrees excludes, would reach the
\* RUnlock, and get no answer.
ZRank(c) ==
  LET name == request[c].member IN
  /\ At(c, "reading", {"ZRANK"})
  /\ IF name \in DOMAIN Elements
     THEN IF PlaceOf(name) <= Len(Order)
          THEN LeakAnswer(c, Number(PlaceOf(name) - 1))
          ELSE /\ Goto(c, "idle")
               /\ request' = [request EXCEPT ![c] = NoRequest]
               /\ UNCHANGED <<up, set, rwlock, reply>>
     ELSE LeakAnswer(c, Nil)

\* handlers.go:1175-1192, places counted from 0.
RangeOf(from, to) ==
  LET len == Cardinality(DOMAIN Elements)
  IN  [first |-> FromEnd(from, len), last |-> Min({FromEnd(to, len), len - 1})]

\* Keeps the lock when the range is empty (handlers.go:1183-1190).
ZRange(c) ==
  LET r == RangeOf(request[c].from, request[c].to) IN
  /\ At(c, "reading", {"ZRANGE"})
  /\ \/ /\ r.first > r.last
        /\ LeakAnswer(c, Array(<<>>))
     \/ /\ r.first <= r.last
        /\ ReadAnswer(c, Array([k \in 1 .. r.last - r.first + 1 |-> Order[r.first + k].name]))

ZCard(c) ==
  /\ At(c, "reading", {"ZCARD"})
  /\ ReadAnswer(c, Number(Cardinality(DOMAIN Elements)))

\* Keeps the lock when the member is absent (handlers.go:1270-1277).
ZScore(c) ==
  LET name == request[c].member IN
  /\ At(c, "reading", {"ZSCORE"})
  /\ \/ /\ name \in DOMAIN Elements
        /\ ReadAnswer(c, Number(Elements[name]))
     \/ /\ name \notin DOMAIN Elements
        /\ LeakAnswer(c, Nil)

\* One member of the array GEOPOS is asked for.
GeoPos(c) ==
  LET name == request[c].member IN
  /\ At(c, "reading", {"GEOPOS"})
  /\ ReadAnswer(c, IF name \in DOMAIN Elements THEN Cell(Decode(Elements[name])) ELSE Nil)

\* A member that is absent counts as score 0, the map's zero value.
ScoreOrZero(name) == IF name \in DOMAIN Elements THEN Elements[name] ELSE 0

GeoDist(c) ==
  LET r == request[c] IN
  /\ At(c, "reading", {"GEODIST"})
  /\ ReadAnswer(c, Number(Distance(Decode(ScoreOrZero(r.member)), Decode(ScoreOrZero(r.other)))))

GeoSearch(c) ==
  LET r == request[c] IN
  /\ At(c, "reading", {"GEOSEARCH"})
  /\ ReadAnswer(c, Found(GeoMatches(Order, r.center, r.radius)))

\* The answer is written and serveCommands reads the next command.
Return(c) ==
  /\ up /\ pc[c] = "reply"
  /\ reply' = [reply EXCEPT ![c] = NoAnswer]
  /\ Goto(c, "idle")
  /\ UNCHANGED <<up, set, rwlock, request>>

-----------------------------------------------------------------------------
Read(c) == ZRank(c) \/ ZRange(c) \/ ZCard(c) \/ ZScore(c) \/ GeoPos(c) \/ GeoDist(c) \/ GeoSearch(c)

Write(c) == Erase(c) \/ Insert(c) \/ ZRem(c)

Handle(c) ==
  \/ RefusePlace(c) \/ FindOrMake(c) \/ Find(c) \/ Miss(c) \/ MissGeoDist(c)
  \/ RLock(c) \/ Read(c) \/ Write(c) \/ Return(c)

Next ==
  \E c \in Conns : (\E r \in Requests : Send(c, r)) \/ Handle(c) \/ Lock(c)

\* A handler's steps are taken.  Lock is strongly fair: a goroutine waiting for
\* RWMutex.w gets it although others keep taking it (starvation mode).
Spec ==
  /\ Init /\ [][Next]_vars
  /\ \A c \in Conns : WF_vars(Handle(c)) /\ SF_vars(Lock(c))

-----------------------------------------------------------------------------
(* Properties. *)

Spots == {"idle", "called", "rlock", "rwait", "reading", "lock", "drain", "insert", "reply"}

ElementSet == [name : Members, score : Nat]

\* Types: names and scores on both sides, one writer at most, and a place in its
\* handler for every connection.
TypeOK ==
  /\ up \in BOOLEAN /\ exists \in BOOLEAN /\ leaked \in BOOLEAN
  /\ DOMAIN Elements \subseteq Members
  /\ \A m \in DOMAIN Elements : Elements[m] \in Nat
  /\ Order \in Seq(ElementSet)
  /\ writer \in Conns \cup {Free}
  /\ pc \in [Conns -> Spots]
  /\ request \in [Conns -> Requests \cup {NoRequest}]
  /\ DOMAIN reply = Conns

Sorted(order) ==
  \A i, j \in DOMAIN order : i < j =>
    \/ order[i].score < order[j].score
    \/ order[i].score = order[j].score /\ order[i].name < order[j].name

\* Elements and Order say the same, each name once and in order of score then
\* name, except while a ZADD is between its two steps (AddToSortedSet, ZREM).
OrderAgrees ==
  (\A c \in Conns : pc[c] # "insert") =>
    /\ Sorted(Order)
    /\ {<<e.name, e.score>> : e \in Range(Order)}
         = {<<m, Elements[m]>> : m \in DOMAIN Elements}

\* Nobody reads while a ZADD is between its two steps, and no two writers are
\* past Lock (sync.RWMutex as the handlers use it).
WriterAlone ==
  \A c \in Conns : pc[c] = "insert" =>
    /\ \A d \in Conns : pc[d] # "reading"
    /\ \A d \in Conns \ {c} : pc[d] \notin {"insert", "drain"}

\* An element can be added to a set that is there: every ZADD is answered.  A
\* read lock that ZRANK keeps (handlers.go:1114-1133) stops all that come after.
ZAddAnswered ==
  \A c \in Conns : request[c].cmd = "ZADD" ~> request[c] = NoRequest

\* Every command that found no leaked lock in its way is answered.  With a leak,
\* a read is still answered unless a writer is waiting too.
AnsweredUnlessLeaked ==
  \A c \in Conns :
    /\ pc[c] # "idle" ~> (pc[c] = "idle" \/ ~up \/ leaked)
    /\ pc[c] \in {"rlock", "rwait"} ~> (pc[c] = "reply" \/ ~up \/ (leaked /\ writer # Free))

\* Elements is the map; a request is pending until its answer is determined.
Abstract == INSTANCE OrderedMap WITH scores <- Elements, pending <- request, answer <- reply

\* Every command is answered as the map of scores would answer it at one moment
\* between its arrival and its answer: ranks, slices and scores read off Order
\* are those counted in Elements.
ImplementsOrderedMap == Abstract!MapSpec
=============================================================================
