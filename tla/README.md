# A TLA+ model of make-your-own-redis-go

The program is a Redis-like server in Go (`src/redis-starter-go/app`, 2521
lines). One goroutine serves each connection; the goroutines share maps, lists
with a mutex of their own, a list of replicas, and an append-only file. This
directory models it in TLA+, checks the models with TLC and proves some of the
results with TLAPS for every size of the instance. The repository's other program,
`src/redis-tester`, runs a server through stages and judges it; it is modelled too,
and its tests and stage descriptions are read as the statement of what the server
should do.

File and line numbers without a path are those of `src/redis-starter-go/app`.

## The system

| Component | State | Operations | What is hard |
|---|---|---|---|
| Connections, dispatch (`server.go:146-257`) | the connection's reader, `authUser` | read a line, call a handler | `reader.Buffered()` decides where a command ends; an error other than EOF is retried for ever |
| Lists (`handlers.go:317-664`) | per key: mutex, `elements`, `clients` (channels of blocked BLPOPs) | RPUSH, LPUSH, LPOP, LLEN, LRANGE, BLPOP | hand-over to waiters under the mutex, timeouts, hang-ups, panics on indices |
| Replication (`handlers.go:64-130, 792-1051`, `utils.go:40-92`) | `Replicas`, `ReplicasMu`, `MasterOffset`; on a replica `repl_offset` | SET with propagation, PSYNC, REPLCONF GETACK/ACK, WAIT | order of store and propagation, offsets that count different things, a loaded and stored counter, dying replicas |
| Strings, expiry (`handlers.go:64-170, 702-741`) | `ServerMemory`, one timer goroutine per SET with PX | SET, GET, KEYS | a timer is not cancelled by a later SET |
| Append-only file (`utils.go:130-214`, `server.go:85-128`) | the file, its manifest | append, parse at boot | torn tail, order of store and append, PX is not written |
| Sorted sets (`handlers.go:1053-1345`, `utils.go:94-128`) | per key: RWMutex, `Elements`, `Order` | ZADD, ZRANK, ZRANGE, ZCARD, ZSCORE, ZREM | returns that keep the read lock; the map and the order must agree |
| Geospatial (`handlers.go:1347-1639`, `geocoding.go`) | scores in a sorted set | GEOADD, GEOPOS, GEODIST, GEOSEARCH | float arithmetic; the cells searched |
| Users (`handlers.go:172-315`) | `UserRegistry`, `authUser` of each connection | ACL, AUTH | slices changed without a lock |
| RDB loader (`rdb.go`) | none of its own | parse a file at boot | byte layout |
| Bootstrap (`server.go:29-144`) | flags, `ServerInfo` | start, connect to a master, load a file | what is served before what is loaded |
| redis-tester (`src/redis-tester/internal`) | per connection `UnreadBuffer`; a stage's place in its script | send a command, read a value, assert, wait for one of several clients | values arrive in pieces, against deadlines; the verdict must be right for programs it has never seen |

Interactions: the handlers meet only in the shared maps and slices. SET calls
`PropagateCommand` and `AppendToAof`; a replica's link is a connection served by
the same `serveCommands`, with a connection that swallows the replies. Geospatial
commands are sorted-set commands with computed scores. The tester meets a server
through TCP connections alone: as its client, as its replica or as its master.

What makes each component correct: a list is a fair queue and loses nothing it
was given; all replicas apply the master's SETs in one order and end with its
value, and WAIT answers, with the number of replicas that have the command; a
sorted set's order agrees with its scores and its lock is always released; after
a restart memory is what the file says; a key disappears at its last deadline and
no earlier; a command ends where its sender ended it; the tester takes off a
connection what was written to it, passes the programs that do as the stage says,
fails the others, and comes to an end with both.

`PROJECT.json` lists the hazards line by line, with the properties that address
each.

## The modules

| Module | What it is |
|---|---|
| `Lists` | one list key and the connections that use it |
| `FifoList` | the abstract queue a list promises to be |
| `MCLists` | three connections, the values of LPOP's and LRANGE's arguments, symmetry |
| `ListsProofs` | theorems about `Lists` |
| `Replication` | a master, its clients, its replicas and the two byte streams to each |
| `MCReplication` | two clients, two replicas, symmetry |
| `ReplicationProofs` | theorems about `Replication` |
| `ZSetCommands` | the requests, answers and index arithmetic that `OrderedMap` and `SortedSets` share |
| `OrderedMap` | the abstract map from members to scores a sorted set promises to be |
| `SortedSets` | one sorted set, its lock and the connections that use it; geospatial commands |
| `SortedSetsProofs` | theorems about `SortedSets` |
| `GeoGrid` | cells, scores and the boxes of GEOSEARCH |
| `GeoGridProofs` | theorems about scores, cells and boxes |
| `Induction` | induction on natural numbers, stated for sets |
| `MCSortedSets` | a small globe and places on it, LRANGE-like indices |
| `Keyspace` | `ServerMemory`, deadlines, the append-only file, crashes and boot |
| `KeyspaceProofs` | theorems about `Keyspace`, and what AOFParser reads of a file that was appended to, torn and continued |
| `MCKeyspace` | two connections, two keys of which one begins the other, where a write may be cut and what is then read |
| `Sessions` | connections as streams of lines; users and authentication |
| `SessionsProofs` | theorems about `Sessions` |
| `MCSessions` | the programs of two clients |
| `Resp` | the tester's values, how they are written and how they are decoded |
| `Programs` | the programs the tester is run on: its own faulty ones and this server |
| `AuthPrograms` | the same for ACL and AUTH |
| `Tester` | the stages' scripts, the reading of values, the assertions, the verdict |
| `MCTester` | which stage meets which program; the values of `ReadsExact` |
| `TesterProofs` | theorems about `Resp` and `Tester` |

An operator whose comment begins with "Wrong" is a bug the definition after it
could have had. It takes part in no behaviour; substituted for that definition it
makes a property fail, which shows that the property depends on it.

### Lists

`elements`, `clients` and `mutex` are the fields of `LockableList`; `exists` says
that the key is in `ListRegistry`; `chan[c]` is the one-slot buffer of the channel
connection `c` made for its BLPOP, and `clients` names a channel by its
connection. `pc` is where a handler is between two atomic steps: `pushing` inside
RPUSH's critical section, `blocked` in BLPOP's receive or select, `expired` between
the timer and the second critical section. `newElems` belongs to the RPUSH that
holds the mutex. `up` becomes FALSE when a handler panics, since nothing recovers.
`pushed` and `delivered` are history. An element is its push number.

A handler that takes the mutex, works and releases it is one action, since nobody
sees what is between. RPUSH is `RPush` (Lock), one `Hand` for each round of the
loop, `RPushDone` (append, Unlock), because a waiter or its timer can act after
each send. BLPOP is `BLPopNow`, or `BLPopWait` followed by `Receive`, or by
`Expire` and `GiveUp`. In `Expire` the select may choose the timer while the channel
is ready too, as Go allows. `HangUp` is the peer of a blocked BLPOP going away: no
code runs, and the later write fails.

Left out: replies that change nothing (LLEN, LRANGE without a panic, the length
RPUSH answers), the parsing of arguments, `CheckAuth`. LRANGE's arithmetic is
modelled as operators (`FromEnd`, `Clamp`, `LRangeHeader`, `LRangeBody`) and checked
on every list the runs reach.

### FifoList

The refinement maps the queue to `elements \o newElems`, the waiters to `clients`,
what a client was served to `chan`, what clients have to `delivered`. Clients are
served longest waiting first, in push order; nobody pops past a waiting client; a
client may leave, and loses what it was served. `lists_queue` checks that every
behaviour of `Lists` without LPUSH and hang-ups is one of `FifoList` and, unless the
process dies, a fair one.

### Replication

One key. A SET is its number in the order of the Store on the master, and stands
for its value. `SetStore` and `SetPropagate` are the two steps of HandleSet; the AOF
append is left to the persistence module. `link[r]` and `acks[r]` are the two
directions of a TCP connection. `joined[r]` goes from `out` through `rdb` to
`listed`, because HandlePsyncMaster writes the RDB and appends to `Replicas` in
separate steps. A dead replica stays `listed`, as in the code.

`Broadcast` is the loop over `Replicas` under `ReplicasMu`. WAIT is `WaitStart`
(the early reply or not), `WaitGetAck`, rounds of `WaitPoll`, and `WaitTimeout`.
`WaitStart` reads the number of replicas and MasterOffset in one step although the
code reads them one after the other: neither ever falls, and the result is one the
handler could have had at one of the two moments.

On a replica every handler loads `repl_offset` and stores the sum in a second step:
`LinkTake`/`LinkStore` for the goroutine of the link, `LocalTake`/`LocalStore` for
PING and SET of the replica's own clients, one of them at a time. GETACK is answered
with the offset loaded, before it is counted itself.

`order`, `target`, `sent`, `answered` and `got` are history.

Left out: the handshake's text, keys other than one, expiry, sizes that differ
between SETs (`SetSize` is a parameter), TCP back-pressure, a replica that comes back
under its old connection (it would be a new one).

### SortedSets, OrderedMap, GeoGrid

One key. A connection's goroutine reads its arguments (`Send`), looks the key up
(`Find...`, `Miss...`), waits for the RWMutex, works under it, and answers (`Return`).
`writer` and `leaked` are the lock: a `Lock` that has begun shuts new readers out and
waits for those inside (`drain`), as Go's RWMutex does; `leaked` says that a handler
has returned with its read lock, which is then held for ever. ZRANK leaks on both
answers, ZRANGE on an empty range, ZSCORE when the member is missing. ZADD works in
two steps, `AddToSortedSet`'s removal from `Order` and its insertion, so that the set
is there to be seen between them.

`OrderedMap` keeps no order: it counts ranks. The refinement maps a request to be
pending until its answer is fixed; so every answer is the map's at one moment
between call and answer. ZREM, GEOPOS and GEOSEARCH write their reply before they
unlock; that is one step, since the lock hides the difference from other handlers.

`GeoGrid` has `spreadInt32ToInt64`, `interleave`, their inverses and
`Get9BoxRanges` on integers of `GeoBits` bits. The sphere is in three constants:
`Distance` of two positions, `Width` of a box at a latitude and a depth, `Height` of a
box at a depth. Nothing is assumed of them, so nothing the models say depends on the
haversine formula or on what float64 makes of it. A score is an integer; the code keeps
it as a float64, which holds all scores of 52 bits (`handlers.go:1392`).
GEOSEARCH searches the mirrored boxes (below). `OrderedMap` therefore promises exactly
the members that are `Findable`: within the radius, and their mirror image, latitude and
longitude exchanged, in the centre's box or in one beside it on the grid. A member across
180 degrees of longitude is in no such box, nor is one on the upper edge of the map,
and near a pole nine boxes may be narrower than the circle: such members are missed
however near they are, in the map as in the code. What the refinement adds is that
nothing else is missed and nothing is returned that should not be.

### Keyspace

A SET is its number and stands for its value. `phase` is the process: down, before
its accept loop, or serving. SET stores, starts the goroutine of its deadline, appends
and replies, in separate steps where another goroutine could be seen in between.
`Fire` is a deadline's goroutine, which deletes the key whatever it holds. The file is
a sequence of lines, the units AOFParser reads; an append may fail, or be cut at
any of the places in `Cuts`, and the next one goes on behind the cut.

A line reads a text, since AOFParser drops the errors behind a header
(`utils.go:182-184`) and, out of step, takes any line for a key or for a header. `Texts` are
the texts of an instance, keys and values among them: `Counts` says which are headers and of how
many arguments, `SetNames` which are SET once in upper case, `Torn` what a text may read once it
has been cut, a beginning of it, alone or with the next record's header glued to it.
`Beginnings` and `Written` are an append that stops and the next one behind it, `StoreAt` what the
parser makes of the lines behind a header, `Parse` its loop. A value is not known by its text but by its
SET, or is `Odd`. A header announces at most four arguments (`Counts`), since with five
AOFParser might find a PX, which `AppendToAof` never writes.

`Crash` loses
memory, timers and the handlers' places. Boot is ConnectToMaster, then one `Load` per
record of AOFParser or of the dump, then `Accept`; on a slave the link's SETs
(`LinkSet`) may come meanwhile.

### Sessions

The unit is a line. `sent`, `got` and `read` count the lines a client has sent, the
reader has taken from the socket (`Fill`, any number of them), and ReadString has
returned; `reader.Buffered()` is the difference of the last two. A handler is the list
of arguments it has read and goes on until `Needed` says it has all. SETUSER's reads
and writes of the default user are separate steps, as no lock is held; AUTH and the
`CheckAuth` of each handler read `authUser`.

### Resp, Programs, AuthPrograms, Tester

A connection carries symbols (`Symbols`): marks, numerals, CR, LF and opaque bytes. Values
are defined by recursion on their depth (`ValuesTo`, `WrittenTo`, `Decoders`), down to
`MaxDepth`; the code's recursion has no such end, and an array nested deeper, which no
program here sends, is invalid in the model. An int is at most `MaxInt`, and a number beyond it is
none, as for `strconv.Atoi`. A numeral is one symbol, the one `%d` writes or
another spelling that Atoi takes (`Spelled`: `+3`, `03`, `-0`); so a read does not end inside it, and
what a length counts is symbols. `Encoded` is `encode.go`, which panics on integers
(below) and so has no branch for them; `Written` is what programs write, the same with the servers' own
`:%d`. `Written` of what is no value is empty, and never asked for. What a value may be read
from is its `Form`: at every place the symbols that may stand there. `inbox` has
the commands the tester has sent, whole; `wire` what the program has written and the
tester has not read. `Read(k, n)` takes any `n` symbols into `UnreadBuffer` (`buf`), as
ReadIntoBuffer may, and decodes: a whole value leaves the buffer, an invalid one fails
the stage, an incomplete one is read on until `GiveUp`, the deadline. With a value in
hand a step retries (`Retry`), refuses (`Refuse`), approves, or approves only if one
more read finds nothing (`ApproveUnlessExtra`). AssertResponses is `PollClient` round
and round, the reading of the client that has something, and `NoResponse` for each of
the rest.

A stage is a sequence of steps; the eleven scripts are built from the test cases'
operators as the stages build theirs. The scripts are rg2 (PING), vm3 and psync_rdb
(the tester is a replica), yg4 (the tester is the master), ec3 (BLPOP of two
clients), pl7, uv9, hz3, nm2, ws7 (ACL and AUTH), and `values`, which only reads two values
and stands for any use of the reader; its program writes two values of `MCTester`, numbers also
as no program here spells them. The programs are those of `stages_test.go` that
go wrong or slow, with their own order of steps, and `ours`, the server of this
repository, with the order of its own.

`late` is history: a deadline of the tester passed while the program had something
to read, to write or to be read. `seen` and `sent` are history too.

## The runs

| Run | Instance | Shows |
|---|---|---|
| `lists_safety` | 3 connections, 3 elements, batches of up to 2, all commands, hang-ups | types; `RegisteredWaitersReady`; `NoForgottenWaiter`; `NoDuplicate`; `OnlyTimeoutOrHangUpLoses` |
| `lists_queue` | 3 connections, 4 elements, no LPUSH, no hang-up | `NoIdleWaiter`; `PushOrder`; `LRangeIsSlice`; the refinement of `FifoList` and of its fairness; `TimedBLPopAnswered`; `MutexReleased` |
| `repl_safety` | 2 clients, 2 replicas that may die, 2 SETs, 2 WAITs | types; `ReplicaFollowsOrder`; `OffsetExact`; `AcksAscend`; `AckCoversSets`; `WaitOvercountsOnlyReasked` |
| `repl_wait` | 1 client of the master, 1 replica with clients that send PING, 2 SETs, 3 WAITs | `ReplicasConverge`; `TimedWaitAnswered`; `WaitAnswered` |
| `repl_wait_overcount` | 1 client, 1 replica | `WaitCountIsTrue` is violated |
| `repl_wait_hangs` | 2 clients, 1 replica, WAIT with timeout 0 | `WaitAnswered` is violated |
| `repl_diverge` | 2 clients, 1 replica | `ReplicasConverge` is violated |
| `zsets` | 2 connections, 2 members, all ten commands, a 4 by 4 grid, radii 0, 1 and 4 | types; `OrderAgrees`; `WriterAlone`; the refinement of `OrderedMap`; `AnsweredUnlessLeaked` |
| `zsets_leak` | 2 connections that ZADD and ZRANK | `ZAddAnswered` is violated |
| `keyspace` | 2 connections, keys `u1` and `u10`, 3 SETs, one with the value `*2`, one faulty append, one restart, as master or slave, file or dump | types; `AcknowledgedRecovered`; `MemoryMatchesFile`; `ValuesGoForward`; `DeadlineComes` |
| `sessions` | 2 connections; 36 programs of two commands cut at every line, 6 of two clients with ACL and AUTH | types; `CommandsExact`; `AccountKept`; `CommandsAnswered` |
| `tester` | 22 pairs of stage and program, 169 pairs of values, three of the values with numbers spelled otherwise, reads of any size | types; `ReadsExact`; `VerdictAsExpected`; `VerdictComes` |

Bounds. Three connections are one that pushes and two that wait, or one that times
out between two others; with three elements and batches of two a push can serve one
or two waiters, or one and keep the rest. Commands may repeat without limit except
that only `MaxPushed` elements are pushed. LPOP's counts lie below, at and above the
lengths reached, LRANGE's indices on both sides of both ends. Two SETs are enough to
be stored in one order and propagated in the other, two WAITs to have one replica
asked twice, three to have it asked after an overcount. The sizes 27, 37 and 14 are
those of the code's commands, so that offsets compare as in the program.

Two members are enough for an order to be wrong and for a re-scored member to pass
another one; scores come from ZADD's 3 and from the cells of GEOADD, so equal and
different ones occur. Two bits of latitude and longitude are the least at which the
mirrored box differs from the searched one and a box has neighbours on the map and
off it. The globe of `MCSortedSets` goes round: the place and the centre are
neighbours across its seam, so that GEOSEARCH misses a member within the radius, finds
it when the boxes are the whole grid (4), and rejects it (0). Three SETs: one to be lost, one behind it and one that repairs; the dump's
entries count among them. The cuts of an append are one of each kind AOFParser tells
apart; one of them leaves `u1` of `u10`, a key whose SET was whole, and one of the values
is a header for a parser that is out of step. The first command of `sessions` covers each way a handler reads, the second one
what can be eaten; a third would meet the same reader. The values of `tester` hold CR
and LF where a reader could mistake them, empty and nested arrays and both nils; the
ints go to 20, beyond every number the programs write, and `-0`, `+1`, `02` and `+3` (`OtherSpellings`)
are an integer and a length of a string and of an array in another spelling. TLC takes
from a few seconds to three minutes for a run.

CHECK_DEADLOCK is FALSE everywhere: the bounds run out, a panic ends the process,
and clients may stop sending.

Symmetry is used where no liveness property and no refinement is checked.

### Fairness

Go runs every runnable goroutine, timers and tickers fire, TCP delivers between
live ends: weak fairness of every step of a handler that has begun. A goroutine that
waits for a `sync.Mutex` gets it although others keep taking it (the mutex's
starvation mode), hence strong fairness of `GiveUp`, the one step that waits for a
mutex in a handler under way; the same holds of `Lock` in `SortedSets`. In
`Keyspace` a handler's steps, the deadlines and the boot are weakly fair, crashes and
restarts owe nothing; in `Sessions` a connection's goroutine and what the network
carries are, clients are not. In `Tester` only the tester's own steps and deadlines
are fair: a program need do nothing, and `VerdictComes` holds all the same. No fairness of commands: clients owe nothing. No
fairness of `HangUp`, `Die`, `LPop`, `SetStore`, `WaitStart`, `PsyncSendRdb` and the
commands of a replica's clients.

## What the models show of the code

The violation runs, each against a sentence quoted in `PROJECT.json`, and after
them what the other modules' properties have to except:

- `zsets_leak`: ZRANK takes the set's read lock and keeps it (`handlers.go:1114-1133`);
  the next ZADD waits for ever. "In this stage, you'll add support for adding elements to an
  existing sorted set" (`course_definition.yml:3719`) does not hold after a ZRANK.
- `repl_diverge`: clients 1 and 2 store 1, then 2; client 2 propagates first. The
  replicas end with 1, the master has 2. All replicas agree with each other
  (`ReplicaFollowsOrder`).
- `repl_wait_overcount`: a replica's offset counts GETACKs, MasterOffset does not, so
  the second WAIT may count a replica that lacks the last SET.
  `WaitOvercountsOnlyReasked` says it happens to no replica that was asked once only.
- `repl_wait_hangs`: WAIT 1 0 asks for acknowledgements, another client's SET raises
  MasterOffset, the answers stay below it for ever.

Observations made while modelling that no run records:

- A BLPOP with a timeout can answer nil and lose an element that RPUSH gave it, in two ways:
  the timer's case is taken, and before the waiter has the mutex again (`handlers.go:650-653`)
  RPUSH finds it registered and fills its channel; or the channel is full and the select takes
  the timer all the same. `OnlyTimeoutOrHangUpLoses` says these are, with a hang-up, the
  only ways an element is lost. No document says what a push at the moment of the timeout does.
- LPUSH (`handlers.go:482`) wakes no waiter. With LPUSH among the commands
  `NoIdleWaiter` fails after BLPOP, LPUSH.
- LRANGE announces `*-1` or less when the start index is two or more past the end
  index (`handlers.go:435`); `LRangeIsSlice` speaks of the other cases.
- A SET propagated after a replica was sent the RDB and before it is appended to
  `Replicas` (`handlers.go:956-964`) reaches it neither way, nor do values set
  before it joined: the RDB is a constant empty one. `ReplicasConverge` therefore
  speaks of replicas that have got a SET.
- Two goroutines of a replica load and store `repl_offset` without a lock
  (`handlers.go:33-38, 89-95, 855-869`): an update of the link's can be lost. An
  offset is then too small, never too large (`AckCoversSets`).

Sorted sets and places:

- A ZRANK, and on some paths a ZRANGE or ZSCORE, returns with the read lock
  (`handlers.go:1114-1135, 1183-1190, 1270-1277`). The next ZADD, GEOADD or ZREM of the
  set waits for ever, and behind it every reader; `AnsweredUnlessLeaked` says that
  nothing else is left unanswered.
- `Get9BoxRanges` interleaves the longitude cell first (`geocoding.go:152`), `Encode`
  the latitude (`geocoding.go:79`): members within the radius are missed. So are, had it
  the order right, those across 180 degrees of longitude, and near the poles those a narrow box
  away: the steps of `geocoding.go:143-150` stop at the edges of the grid.
- GEODIST of a key that no GEOADD named ends the process (`handlers.go:1491`); a missing
  member counts as score 0. ZADD goes on after a read error with empty arguments.

The keyspace:

- A torn record costs the next acknowledged SET too: AOFParser reads it as part of the
  torn one. It may cost other keys: `SET user:10` torn behind `user:1` stores the empty string, or a
  line of the next record, in `user:1`, whole and acknowledged though that was
  (`utils.go:182-198`). And a value such as `*2`, met out of step, is read as a header, after which
  no record is sure to be read from its start. `AcknowledgedRecovered` and `MemoryMatchesFile`
  except the keys in `Damaged`: those the lines of a torn record and of the first whole one behind it
  may name, until they are set again, or all when such a value is among those lines. More than the keys that
  are lost may be excepted; none that is lost is left out. An append that fails is logged and the SET answered +OK.
- PX is neither appended nor propagated; the deadline of an overwritten value deletes
  the new one (`handlers.go:122`); what a deadline deleted is back after a restart.
- Before its accept loop a slave already applies its link's SETs, and the file's older
  values overwrite them. A slave never appends.

Sessions:

- A command behind RPUSH, LPUSH, GEOPOS or LPOP in one packet is eaten as their
  arguments; a SET cut before PX loses its deadline silently, and its PX is then read
  as commands.
- A refused command's arguments are read as commands. Sorted-set and geospatial
  commands ask nobody for authentication. GETUSER of an unknown user is not answered.
- Two SETUSERs at a time can lose a password, or panic in `Flags[i+1:]`.

The tester:

- `late` cannot be dropped from `VerdictAsExpected`: extra data that comes after the one
  millisecond look passes (`receive_value_test_case.go:43-49`), and the program that
  answers all BLPOPs passes ec3 when its second answer is slow.
- That program can lose a waiter between its look at the list and the registration
  (`blpop-all-clients/app/commands.go`), so it may also fail ec3 for want of an answer.
- yg4's Accept has no deadline; a replica that never connects holds the stage.
  After its two seconds AssertResponses leaves its goroutine behind, blocked.
- `encodeInteger` converts `v.String()`, which is empty for an integer
  (`encoder/encode.go:35-42`), and would panic; no modelled stage sends an integer.
- The expression for FULLRESYNC is not anchored, so text around a match is accepted.

## The proofs

`tlapm` checks every statement of the modules named `...Proofs` and of `Induction`, for
any sets of connections, clients, replicas, keys, members and values and any bounds.
A theorem carries the name of what it says; `PROJECT.json` names the property it states.

Every proof uses the ASSUME of the module it is about: types of the constants, a few
names that differ, positive sizes, the marks and numerals among the symbols, numerals that differ when their numbers do (no constant
occurs in this one, so TLC's evaluation settles it), samples that are sequences of symbols, stages that have a script, a finite set of replicas (the slice `Replicas` is
finite; the counts of WAIT are cardinalities), at least one bit of latitude. Some
theorems have a hypothesis more, always one without which the code does not do it:

| Theorems | Hypothesis | Without it |
|---|---|---|
| `NobodyIdle`, `InPushOrder` | no LPUSH | LPUSH wakes no waiter, and prepends |
| `ListIsAQueue` | no LPUSH, no hang-ups | a BLPOP whose peer has gone stays registered and takes an element nobody gets |
| `OneOrder` | a replica's own clients send no SET | a replica executes them, its value is then its own |
| `OneWriterConverges` | the same, and at most one client of the master | `repl_diverge` |
| `OffsetsCountTheLink`, `AcksNeverGoBack`, `WaitCountBounded` | a replica has no commands of its own clients | a PING or SET of theirs counts, and an update of the link's may be lost |
| `CommandByCommand` | clients send whole commands (`WholeCommands`) | a handler takes the next command's lines for the arguments that are missing |

They are the conditions under which the runs check the same properties.

### Lists

`TypeCorrect` is inductive by itself. `WaitersReady` and `NobodyForgotten` are not: that
a registered waiter's buffer is empty holds because a hand-over deregisters the waiter
it fills, for which the waiter must occur once, for which nobody may register twice,
for which a handler that has returned may be in `clients` no more. `IInv` is `TypeOK`,
`MutexMatchesHandler`, `RegisteredWaitersReady` and `NoForgottenWaiter` together; the
hardest action is `GiveUp`, whose splice must keep every other waiter.

`NothingTwice` needs to know where an element may be: `Apart` says that the list,
`newElems`, the buffers and the answers are injective, disjoint and hold pushed elements
only. From it `LossNeedsTimeoutOrHangUp` looks at one step at a time. `NobodyIdle`
and `InPushOrder` share the invariant `Queue`: nobody is registered beside an element of
`elements`, because BLPOP registers only on an empty list and RPUSH serves the waiters
before it appends; so a hand-over takes the oldest element there is. `ListIsAQueue`
is the refinement of `FifoList`, step by step: `Hand` is the queue's service of its
longest waiter, `Expire` and `GiveUp` are a client leaving, the rest are pushes, pops or
stutters. That it is served fairly stays with TLC.

### Replication

`AckedOffsetsCoverSets`: the offset the master has recorded was in the stream before, and
on the replica before that. `OffsetsBounded` bounds all of them: the stored offset and
both loaded ones by what the replica has taken in, those in the stream and the recorded
one by that less the last GETACK. It holds with any interleaving of the link's and the
local goroutines, lost updates included, because a sum is bounded when it is loaded and
the bound only grows. `OffsetsCountTheLink` and `AcksNeverGoBack` make the bound an
equation and the stream ascending; `WaitCountBounded` follows from the acknowledgement
counted: if it covers the SETs by its size but not in fact, the rest is GETACKs.

`OneOrder` follows `order`, the order of propagation: what a replica has taken and what is
on its link are one piece of `order` that reaches its end, as long as the replica lives. `OneWriterConverges` adds that with one writer the master's value is the
last of `order`, or the SET that is stored and not yet propagated.

### Sorted sets and places

The invariant of `SortedSets` has three parts besides types. `LockOK`: at most one writer,
nobody reads beside it, the writer is where `writer` says. `SetOK`: the slice is sorted by
score, then name, without a name twice, and holds the map's members with the map's
scores, but for those that are `Unsettled`, the one whose ZADD is between its removal and
its insertion. The place the binary search finds is the one at which everything before is
smaller and everything behind greater, so the insertion keeps the order. `Exclusion`,
and `MapAndSliceAgree` follow from these.

`SetIsAnOrderedMap` is the refinement of `OrderedMap`. Its core is that the rank counted in
the map is the place in the slice: the members of smaller rank are in bijection with the
indices below, so the cardinality is the index; ZRANGE's slice is then the names whose
ranks lie between its ends. A request takes effect where its answer is fixed (in `Insert`
for ZADD and GEOADD); `StageOK` relates the request and the answer to the handler's place.
Both the map and the slice are updated through `Put`, which is `[f EXCEPT ![m] = v]` or
adds `m`.

`EncodeIsScore`, `DecodeEncode` and `EncodeDecode` are by induction on the bits.
`SearchFinds` is an equivalence, on which the refinement's GEOSEARCH rests. `SpreadSplit`:
spreading treats the last s bits of a number and those before them separately, so the scores of
a box are one range (`ScoreInBox`) and no other score is in it (`BoxOfScore`).
`InSomeRange`: a score is in one of the ranges just when the mirror image of its cell is
beside the centre. `TakenFromRange`: the binary search and the loop behind it take from the sorted slice
just the elements of a range. Distances and the sizes of boxes occur in
none of these steps but as they are.

### Keyspace

What a file says is defined by recursion over its lines, so an invariant about the file
has to say what parsing gives for the lines to come. `Induction` has induction on the
natural numbers for sets (the least element of the complement of a set contradicts), from
which `KeyspaceProofs` gets that `Parse` satisfies its equation. The invariant
`FileOK` then names a place `p` of the file:

- `Tells(file, p, k, v)`: whatever lines follow those before `p`, parsing up to `p` leaves `v`
  in key `k`;
- `Rest(file, p)`: from `p` on there is nothing, an unfinished line, or one record begun and
  not all there;
- `Calm`: an unfinished last line is no header, unless it is a record's own, and will be none when it is
  completed;
- `Pending`: a torn append is waiting, with no whole one behind it, unless `p` is the file's end;
- `Silent`, `LogLast`: no line from `p` on reads as a key that is not damaged, nor will one that
  is unfinished, and `Tells` has the value of such a key's last append.

`BeginningIsPiece` and `RecordIsPiece` say which texts the lines of an append read: those of
its record and what cuts make of them. Such a piece is `Plain` if none but its first line is a
header. `AppendedLines` says what any plain piece behind such a file makes of it, the first
line glued to an unended one if need be, and `FileStep` that `FileOK` is kept whether the
append is whole, torn or fails. When a piece is not plain and is not read from its start, damage is
`Wild`, for good, and `FileOK` claims no more than the lines' types. `TypeCorrect` and
`AcknowledgedIsRecovered` need this and no more.

`OnlyForward` needs `Forward`: a SET whose goroutine waits for a deadline, or whose handler
has still to start one, is not newer than what its key holds, if that holds anything; and
during a boot only the dump entries loaded so far have such goroutines. `MemoryIsOnFile` needs
`Match`: during a boot memory is what the stores read so far give (`ReadSoFar`); afterwards
each key is `Settled`: its value is that of the newest SET, appended or about to be (`Fresh`),
or a deadline has deleted it, or two appends have crossed, or no append has named it, or
it is damaged and nobody is about to repair it. TLC checked both before they were proved.

### Sessions

What a client sends is defined by recursion over its commands (`FirstLines`), so again
induction comes first: `TextEquation` is its equation, `TextFacts` says where commands end,
that the ends go up and which line stands where, `ArgsFacts` what a handler makes of the
lines it has read.

- `TypeCorrect`: `TypeInv` says that read <= got <= sent <= the length of the text, and
  that what a handler holds and has carried out are lines and commands. It needs `UpdatesOK`: an update
  of the account under way belongs to a handler of ACL with all three arguments of a SETUSER
  read, which therefore waits for nothing more (`GiverWaitsForNothing`).
- `PasswordsKept`: `Alone` (no two SETUSERs at a time before `overlap`), `FlagOK` ("nopass"
  is gone only when there is a password, and is there beside one only while a SETUSER has
  still to look for it) and `PasswordsOK` (until an overlap the passwords are the acknowledged
  ones and that of the SETUSER that has stored its own; what one has read is still
  what is stored; one about to remove "nopass" finds it).
- `CommandByCommand`: a dependable connection is `Somewhere` in its program: `Between` two
  commands with at most the two lengths of the next skipped, `Reading` one, with the lines read
  those of that command, or at the `Option` of a SET that has been answered. `WithinOne` says
  that a connection whose reads each brought one command has taken no more than the one it
  reads, so that `Buffered` is what is left of that command. `ReadingMore` is the heart of it: a handler asks
  for more exactly while its command has more, ACL's by its first argument, RPUSH's, GEOPOS's,
  LPOP's and SET's by what is buffered. TLC checked the invariant before it was proved.

### Tester

A value is read by recursion on its depth and, in an array, on the number of its elements, so the
recursion equations of `ValuesTo`, `WrittenTo`, `FormTo`, `Decoders` and `ElementsRead` come first, by
`Induction`. `Exact(s, i, d, r)` says of a decoder's result `r` at position `i` that a value, if
it is one, nests at most `d` deep and what stands from `i` up to the position returned has its `Form`.
There is a lemma for each kind of value (`LineExact`, `NilExact`, `BulkExact` and so on); for an
array one says it of the elements read so far.

- `DecodeTakesExactly`: what `Decode` and `DecodeFullResyncRDBFile` take has the form of what they
  return, for every sequence of symbols, those no program here writes included: texts as they are,
  numbers in any spelling that Atoi takes.
- `DecodeDecides`: more symbols do not change what has been decided. The reader decodes its whole
  buffer again after every read, so this is why it may stop at the first value or error it finds;
  with `DecodeTakesExactly` it follows that part of a value is incomplete, never a
  value or an error. `Stays` relates the decoders of two sequences one of which begins with the other, by
  the same inductions. `readCRLF` is the case to look at: it is undecided only on a prefix of CRLF.
- `DecodeInvertsWriting`, `RDBFileInverts`: what a program wrote is decoded to the value it was, whatever
  follows it, and no sooner than all of it is there. It is so for the values of `CleanTo`: no CRLF in a
  simple string or an error, a number in an integer, no field set that the type does not call
  for. Others can be written too, unread: `DecodedValues` says that `CleanTo` is exactly what
  `Decode` can return. Of values without integers it is a theorem about `encode.go`; integers
  are written by the servers' own formats.
- `ReadsExactAlways`: with the types `Streams` of the four sequences of a connection and
  `Accounted`, which names what was taken of the symbols written (`Covers`), the property is inductive:
  its own statement by lengths follows (`AccountedIsExact`). A program's step appends to `wire` and
  `sent` the same symbols; `Read` moves some to `buf` and takes, by `DecodeTakesExactly`, the form of a value
  from its front; every other step leaves the four alone. So it holds for any stages, any
  programs built from the modelled steps, any samples, any spellings and any cut into reads.
- `TesterTypeCorrect`: `TypeOK` bounds the place in the script, which is so only because the
  scripts are `Sound`: they end with a step that waits, the first step is no repetition (a retry
  goes back one step), and a step on a group of clients is the last. `left`, the group's
  list, is empty only while the rest are being looked at or after the verdict, so
  the front that `PollClient` takes is there.

### Checked by TLC only

Liveness (`CommandsAnswered` among it) and the fairness half of the refinement of `FifoList`,
which need fairness or ENABLED. And `VerdictAsExpected`: it is about given scripts and given
programs, so there is no constant for a theorem to be general in. An invariant for it
would list, program by program, where tester and program can be together; the run
visits just these states.

## Plan

A numeral as the digits it has, so that a read may end inside it: the theorems about
`Decode` then need what `strconv.Itoa` and `Atoi` do digit by digit.

## Not modelled

- The RDB byte layout: length encodings and integers as strings are a table of
  formats; its effect on memory is in `Keyspace`.
- The sphere: haversine, the width of a degree, float64 rounding. They are constants of
  `GeoGrid`, so the models hold for whatever they are, and say nothing of them.
- The memory that `decode_array.go:48` allocates for a length that was announced, however large.
- Flags, directories, the manifest, logging, the wording of replies other than those
  a stage looks at.
- Of the tester, the stages of streams, transactions, pub/sub, optimistic locking and
  the append-only file, which this server mostly does not implement; their assertions
  (XRANGE, XREAD, published messages, floats); the file-system assertions; starting and
  killing executables.
- A connection that is reset: the server logs the error and tries again for ever
  (`server.go:159-166`), which changes nothing but the log.
