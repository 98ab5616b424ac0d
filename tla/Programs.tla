------------------------------ MODULE Programs ------------------------------
(***************************************************************************)
(* The programs the tester is run on: those of its own tests, under        *)
(* redis-tester/internal/test_helpers/scenarios, and "ours", the server of *)
(* redis-starter-go.  The tester sends whole commands (inbox) and reads    *)
(* what a program writes in pieces of any size (wire).  In stage yg4 the   *)
(* program is a replica and connection 1 is its link to the tester.        *)
(***************************************************************************)
EXTENDS Resp

CONSTANTS
  Scenarios,  \* records [stage, program]
  Conns,      \* the tester's connections, 1 .. n
  Samples     \* what the program "writer" may write

\* The words the programs put on a connection by hand.
ASSUME ProgramsAssumption ==
  /\ {"PONG", "SYNTAX_ERROR"} \subseteq Symbols
  /\ Samples \subseteq Seq(Symbols)

VARIABLES
  scenario,
  inbox,      \* values sent to the program and not yet read by it
  wire,       \* symbols the program wrote and the tester has not read
  sent,       \* history: all the symbols the program wrote
  chunks,     \* what a program that follows a script has still to write
  db,         \* key -> its list of values; a string is a list of one
  requested,  \* keys whose next GET is answered truthfully
  waiters,    \* connections blocked in BLPOP, oldest first
  awaited,    \* BlockingManager.key is the key of the stage
  after,      \* what a connection's goroutine does before it reads on
  chan,       \* the element handed to a connection's waiter of ours
  link        \* steps of the replica's handshake taken
programVars == <<scenario, inbox, wire, sent, chunks, db, requested, waiters, awaited, after, chan, link>>

program == scenario.program

\* The scripts of the programs that write without reading.
Scripts == [
  eof                 |-> <<>>,
  without_crlf        |-> <<<<"+", "PONG">>>>,
  slow_response       |-> <<<<"+", "PONG">>, CRLF>>,
  string_type_mismatch |-> <<Written(Bulk(<<"PONG">>))>>,
  multiple_pongs      |-> <<WrittenAll([i \in 1..3 |-> Simple(<<"PONG">>)])>>,
  invalid_resp        |-> <<<<"SYNTAX_ERROR">>>>]
Scripted == DOMAIN Scripts \cup {"writer"}

Keys == {"foo", "bar", "baz"}

ProgramInit ==
  /\ scenario \in Scenarios
  /\ inbox = [k \in Conns |-> <<>>] /\ wire = inbox /\ sent = inbox
  /\ \/ program \in DOMAIN Scripts /\ chunks = Scripts[program]
     \/ program = "writer" /\ \E stream \in Samples : chunks = <<stream>>
     \/ program \notin Scripted /\ chunks = <<>>
  /\ db = [k \in Keys |-> <<>>] /\ requested = {}
  /\ waiters = <<>> /\ awaited = FALSE
  /\ after = [k \in Conns |-> ""]
  /\ chan = [k \in Conns |-> <<>>]
  /\ link = 0

Write(k, v) ==
  /\ wire' = [wire EXCEPT ![k] = @ \o Written(v)]
  /\ sent' = [sent EXCEPT ![k] = @ \o Written(v)]

WriteChunk ==
  /\ chunks # <<>>
  /\ wire' = [wire EXCEPT ![1] = @ \o Head(chunks)]
  /\ sent' = [sent EXCEPT ![1] = @ \o Head(chunks)]
  /\ chunks' = Tail(chunks)
  /\ UNCHANGED <<scenario, inbox, db, requested, waiters, awaited, after, chan, link>>

-----------------------------------------------------------------------------
(* A server reads a command on connection k and answers it.                *)

BlpopAllCommands     == {"RPUSH", "BLPOP"}
RetryCommands        == {"GET"}
WrongPatternCommands == {"PING", "REPLCONF", "PSYNC"}
OursCommands         == {"PING", "REPLCONF", "PSYNC", "RPUSH", "BLPOP", "GET"}
\* What a program answers of the commands the stages send it.
Commands == [blpop_all |-> BlpopAllCommands, retry |-> RetryCommands,
             wrong_pattern |-> WrongPatternCommands, ours |-> OursCommands]

\* A replica's connection 1 is its link.  Ours takes the steps of the handshake
\* before it listens to clients; the retry program replicates beside that.
Handshaken == 6
ListensAtOnce == {"retry"}
Listening(k) == scenario.stage = "yg4" => k # 1 /\ (program \in ListensAtOnce \/ link = Handshaken)

Word(k, i) == Head(inbox[k]).elems[i].text[1]
ReadCommand(k) == inbox' = [inbox EXCEPT ![k] = Tail(@)]

Serving(k, name) ==
  /\ program \in DOMAIN Commands /\ name \in Commands[program]
  /\ Listening(k)
  /\ inbox[k] # <<>> /\ after[k] = "" /\ Word(k, 1) = name
  /\ ReadCommand(k)

Ping(k) ==
  /\ Serving(k, "PING")
  /\ Write(k, Simple(<<"PONG">>))
  /\ UNCHANGED <<scenario, chunks, db, requested, waiters, awaited, after, chan, link>>

ReplConf(k) ==
  /\ Serving(k, "REPLCONF")
  /\ Word(k, 2) \in {"listening-port", "capa"}
  /\ Write(k, Simple(<<"OK">>))
  /\ UNCHANGED <<scenario, chunks, db, requested, waiters, awaited, after, chan, link>>

\* The wrong program's replication id has 12 characters in place of 40.
PsyncWrong(k) ==
  /\ program = "wrong_pattern"
  /\ Serving(k, "PSYNC")
  /\ Write(k, Simple(<<"FULLRESYNC", "4d3e1bc3e18c", "0">>))
  /\ UNCHANGED <<scenario, chunks, db, requested, waiters, awaited, after, chan, link>>

\* Ours writes the reply and the file in two writes.
Psync(k) ==
  /\ program = "ours"
  /\ Serving(k, "PSYNC")
  /\ Write(k, Simple(<<"FULLRESYNC", "id40", "0">>))
  /\ after' = [after EXCEPT ![k] = "rdb"]
  /\ UNCHANGED <<scenario, chunks, db, requested, waiters, awaited, chan, link>>
SendRDB(k) ==
  /\ after[k] = "rdb"
  /\ Write(k, RDBFile)
  /\ after' = [after EXCEPT ![k] = ""]
  /\ UNCHANGED <<scenario, inbox, chunks, db, requested, waiters, awaited, chan, link>>

Get(k) ==
  LET key == Word(k, 2) IN
  /\ program = "ours"
  /\ Serving(k, "GET")
  /\ Write(k, IF db[key] = <<>> THEN Nil ELSE Bulk(<<Head(db[key])>>))
  /\ UNCHANGED <<scenario, chunks, db, requested, waiters, awaited, after, chan, link>>

\* The retry program answers nil to every other GET of a key that is there.
GetEveryOther(k) ==
  LET key == Word(k, 2) IN
  /\ program = "retry"
  /\ Serving(k, "GET")
  /\ Write(k, IF key \in requested THEN Bulk(<<Head(db[key])>>) ELSE Nil)
  /\ requested' = IF db[key] = <<>> THEN requested
                  ELSE SymDiff(requested, {key})
  /\ UNCHANGED <<scenario, chunks, db, waiters, awaited, after, chan, link>>

-----------------------------------------------------------------------------
(* BLPOP and RPUSH.  The program "blpop_all" hands an element to every     *)
(* waiter, once it has answered the push.                                  *)

Popped(key, value) == Array(<<Bulk(<<key>>), Bulk(<<value>>)>>)

RPush(k) ==
  LET key == Word(k, 2) IN
  /\ program = "ours" /\ waiters = <<>>
  /\ Serving(k, "RPUSH")
  /\ db' = [db EXCEPT ![key] = Append(@, Word(k, 3))]
  /\ Write(k, Integer(Len(db[key]) + 1))
  /\ UNCHANGED <<scenario, chunks, requested, waiters, awaited, after, chan, link>>

RPushAll(k) ==
  LET key == Word(k, 2) IN
  /\ program = "blpop_all"
  /\ Serving(k, "RPUSH")
  /\ db' = [db EXCEPT ![key] = Append(@, Word(k, 3))]
  /\ Write(k, Integer(Len(db[key]) + 1))
  /\ after' = [after EXCEPT ![k] = "notify"]
  /\ UNCHANGED <<scenario, chunks, requested, waiters, awaited, chan, link>>

\* Ours hands the element to the oldest waiter before it answers the push.
RPushHand(k) ==
  /\ program = "ours" /\ waiters # <<>>
  /\ Serving(k, "RPUSH")
  /\ chan' = [chan EXCEPT ![Head(waiters)] = <<Word(k, 3)>>]
  /\ waiters' = Tail(waiters)
  /\ Write(k, Integer(Len(db[Word(k, 2)]) + 1))
  /\ UNCHANGED <<scenario, chunks, db, requested, awaited, after, link>>

BLPopNow(k) ==
  LET key == Word(k, 2) IN
  /\ Serving(k, "BLPOP")
  /\ db[key] # <<>>
  /\ Write(k, Popped(key, Head(db[key])))
  /\ db' = [db EXCEPT ![key] = Tail(@)]
  /\ UNCHANGED <<scenario, chunks, requested, waiters, awaited, after, chan, link>>

\* Ours registers the client under the lock it looked with.
BLPopWait(k) ==
  /\ program = "ours"
  /\ Serving(k, "BLPOP")
  /\ db[Word(k, 2)] = <<>>
  /\ waiters' = Append(waiters, k)
  /\ after' = [after EXCEPT ![k] = "wait"]
  /\ UNCHANGED <<scenario, wire, sent, chunks, db, requested, awaited, chan, link>>

\* The other program registers it later.
BLPopLook(k) ==
  /\ program = "blpop_all"
  /\ Serving(k, "BLPOP")
  /\ db[Word(k, 2)] = <<>>
  /\ after' = [after EXCEPT ![k] = "register"]
  /\ UNCHANGED <<scenario, wire, sent, chunks, db, requested, waiters, awaited, chan, link>>

\* A waiter of ours receives an element.
Wake(k) ==
  /\ after[k] = "wait" /\ chan[k] # <<>>
  /\ Write(k, Popped("foo", Head(chan[k])))
  /\ chan' = [chan EXCEPT ![k] = <<>>]
  /\ after' = [after EXCEPT ![k] = ""]
  /\ UNCHANGED <<scenario, inbox, chunks, db, requested, waiters, awaited, link>>

WaitForElement(k) ==
  /\ after[k] = "register"
  /\ waiters' = Append(waiters, k) /\ awaited' = TRUE
  /\ after' = [after EXCEPT ![k] = ""]
  /\ UNCHANGED <<scenario, inbox, wire, sent, chunks, db, requested, chan, link>>

\* Nobody ever waited for this key: the element stays.  Otherwise the element
\* is popped, and lost when all that waited are served already.
NotifyAllWaiters(k) ==
  LET reply == Written(Popped("foo", Head(db["foo"])))
      serve == awaited /\ db["foo"] # <<>> /\ waiters # <<>>
      WithReply(f) == [j \in Conns |-> IF j \in ToSet(waiters) THEN f[j] \o reply ELSE f[j]]
  IN
  /\ after[k] = "notify"
  /\ after' = [after EXCEPT ![k] = ""]
  /\ db' = IF awaited /\ db["foo"] # <<>> THEN [db EXCEPT !["foo"] = Tail(@)] ELSE db
  /\ IF serve
     THEN wire' = WithReply(wire) /\ sent' = WithReply(sent)
          /\ waiters' = <<>> /\ awaited' = FALSE
     ELSE UNCHANGED <<wire, sent, waiters, awaited>>
  /\ UNCHANGED <<scenario, inbox, chunks, requested, chan, link>>

-----------------------------------------------------------------------------
(* A replica's link: four commands, each but the first sent on the answer  *)
(* to the one before; then the reply to PSYNC, the file, and writes.       *)

Handshake == <<Command(<<"PING">>),
               Command(<<"REPLCONF", "listening-port", "6380">>),
               Command(<<"REPLCONF", "capa", "psync2">>),
               Command(<<"PSYNC", "?", "-1">>)>>

Connect ==
  /\ scenario.stage = "yg4" /\ link = 0
  /\ Write(1, Handshake[1])
  /\ link' = 1
  /\ UNCHANGED <<scenario, inbox, chunks, db, requested, waiters, awaited, after, chan>>

\* Ours does not look at the answers; the retry program goes on with the right ones.
NextCommand ==
  /\ link \in 1 .. 3 /\ inbox[1] # <<>>
  /\ program = "retry" => Head(inbox[1]) = Simple(IF link = 1 THEN <<"PONG">> ELSE <<"OK">>)
  /\ inbox' = [inbox EXCEPT ![1] = Tail(@)]
  /\ Write(1, Handshake[link + 1])
  /\ link' = link + 1
  /\ UNCHANGED <<scenario, chunks, db, requested, waiters, awaited, after, chan>>

\* The line of FULLRESYNC, then the file.
ReadFullResync ==
  /\ link \in 4 .. 5 /\ inbox[1] # <<>>
  /\ inbox' = [inbox EXCEPT ![1] = Tail(@)]
  /\ link' = link + 1
  /\ UNCHANGED <<scenario, wire, sent, chunks, db, requested, waiters, awaited, after, chan>>

\* A propagated SET is stored and not answered.
ApplySet ==
  /\ link = Handshaken /\ inbox[1] # <<>>
  /\ db' = [db EXCEPT ![Word(1, 2)] = <<Word(1, 3)>>]
  /\ inbox' = [inbox EXCEPT ![1] = Tail(@)]
  /\ UNCHANGED <<scenario, wire, sent, chunks, requested, waiters, awaited, after, chan, link>>

ProgramNext ==
  \/ WriteChunk \/ Connect \/ NextCommand \/ ReadFullResync \/ ApplySet
  \/ \E k \in Conns :
       \/ Ping(k) \/ ReplConf(k) \/ PsyncWrong(k) \/ Psync(k) \/ SendRDB(k)
       \/ Get(k) \/ GetEveryOther(k) \/ RPush(k) \/ RPushAll(k) \/ RPushHand(k)
       \/ BLPopNow(k) \/ BLPopWait(k) \/ BLPopLook(k) \/ Wake(k) \/ WaitForElement(k)
       \/ NotifyAllWaiters(k)

\* The program has written, or is yet to write, something for connection k
\* that the tester has not read.
Owes(k) ==
  \/ wire[k] # <<>> \/ chunks # <<>>
  \/ program \notin Scripted /\ inbox[k] # <<>>
  \/ after[k] \in {"rdb", "register"} \/ chan[k] # <<>>
  \/ \E j \in Conns : after[j] = "notify"
=============================================================================
