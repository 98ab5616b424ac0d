----------------------------- MODULE OrderedMap -----------------------------
(***************************************************************************)
(* What a sorted set promises: a map from members to scores, on which      *)
(* every command takes effect at one moment between its call and its       *)
(* answer.  Ranks are counted, nothing is kept in order.                   *)
(***************************************************************************)
EXTENDS ZSetCommands

VARIABLES
  up,        \* the process runs
  scores,    \* score of each member
  pending,   \* the request of each connection that has not taken effect, or NoRequest
  answer     \* its answer, once it has

mapVars == <<up, scores, pending, answer>>

MapInit ==
  /\ up = TRUE
  /\ scores = <<>>
  /\ pending = [c \in Conns |-> NoRequest]
  /\ answer = [c \in Conns |-> NoAnswer]

-----------------------------------------------------------------------------
Size == Cardinality(DOMAIN scores)

Before(m, n) == scores[m] < scores[n] \/ (scores[m] = scores[n] /\ m < n)

Rank(m) == Cardinality({n \in DOMAIN scores : Before(n, m)})

Slice(from, to) ==
  LET first == FromEnd(from, Size)
      last  == Min({FromEnd(to, Size), Size - 1})
  IN  [k \in 1 .. last - first + 1 |->
         CHOOSE m \in DOMAIN scores : Rank(m) = first + k - 1]

\* The members within the radius, if their mirror image is near enough too.
InCircle(center, radius) ==
  {m \in DOMAIN scores : Findable(center, Decode(scores[m]), radius)}

-----------------------------------------------------------------------------
Ask(c, r) ==
  /\ up /\ pending[c] = NoRequest /\ answer[c] = NoAnswer
  /\ pending' = [pending EXCEPT ![c] = r]
  /\ UNCHANGED <<up, scores, answer>>

Answers(c, a) == answer' = [answer EXCEPT ![c] = a]

\* The moment at which the request of c takes effect.
Change(c) ==
  LET r == pending[c] IN
  \/ /\ r.cmd \in {"ZADD", "GEOADD"}
     /\ r.cmd = "GEOADD" => OnMap(r.place)
     /\ scores' = Put(scores, r.member, ScoreOf(r))
     /\ Answers(c, Number(IF r.member \in DOMAIN scores THEN 0 ELSE 1))
  \/ /\ r.cmd = "ZREM"
     /\ scores' = Restrict(scores, DOMAIN scores \ {r.member})
     /\ Answers(c, Number(IF r.member \in DOMAIN scores THEN 1 ELSE 0))

Look(c) ==
  LET r == pending[c] IN
  /\ UNCHANGED scores
  /\ \/ /\ r.cmd = "GEOADD" /\ ~OnMap(r.place)
        /\ Answers(c, Error)
     \/ /\ r.cmd \in {"ZRANK", "ZSCORE", "GEOPOS"} /\ r.member \notin DOMAIN scores
        /\ Answers(c, Nil)
     \/ /\ r.cmd = "ZRANK" /\ r.member \in DOMAIN scores
        /\ Answers(c, Number(Rank(r.member)))
     \/ /\ r.cmd = "ZSCORE" /\ r.member \in DOMAIN scores
        /\ Answers(c, Number(scores[r.member]))
     \/ /\ r.cmd = "GEOPOS" /\ r.member \in DOMAIN scores
        /\ Answers(c, Cell(Decode(scores[r.member])))
     \/ /\ r.cmd = "ZRANGE"
        /\ Answers(c, Array(Slice(r.from, r.to)))
     \/ /\ r.cmd = "ZCARD"
        /\ Answers(c, Number(Size))
     \* A distance between members that are both there.
     \/ /\ r.cmd = "GEODIST"
        /\ DOMAIN answer'[c] = {"number"}
        /\ Answers(c, Number(answer'[c].number))
        /\ {r.member, r.other} \subseteq DOMAIN scores =>
             answer'[c] = Number(Distance(Decode(scores[r.member]), Decode(scores[r.other])))
     \/ /\ r.cmd = "GEOSEARCH"
        /\ Answers(c, Found(InCircle(r.center, r.radius)))

TakeEffect(c) ==
  /\ up /\ pending[c] # NoRequest
  /\ Change(c) \/ Look(c)
  /\ pending' = [pending EXCEPT ![c] = NoRequest]
  /\ UNCHANGED up

Reply(c) ==
  /\ up /\ answer[c] # NoAnswer
  /\ answer' = [answer EXCEPT ![c] = NoAnswer]
  /\ UNCHANGED <<up, scores, pending>>

Stop ==
  /\ up' = FALSE
  /\ UNCHANGED <<scores, pending, answer>>

MapNext ==
  \/ \E c \in Conns : \/ \E r \in Requests : Ask(c, r)
                      \/ TakeEffect(c)
                      \/ Reply(c)
  \/ Stop

MapSpec == MapInit /\ [][MapNext]_mapVars
=============================================================================
