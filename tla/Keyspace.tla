------------------------------ MODULE Keyspace ------------------------------
(***************************************************************************)
(* ServerMemory through crashes and restarts: SET with and without PX, the *)
(* goroutines that delete a key at its deadline, the append-only file, and *)
(* what a new process does before it serves: connect to a master, parse    *)
(* the append-only file or load a dump.                                    *)
(*                                                                         *)
(* A SET is known by its number in the order of the Stores; the number is  *)
(* its value too.  The append-only file is a sequence of lines, the last   *)
(* of which may lack its end: an append after that one continues it.  What *)
(* a line reads is a text, because AOFParser, out of step behind an append *)
(* that was cut, takes any line for a key or for the header of a record.   *)
(***************************************************************************)
EXTENDS Integers, SequencesExt

CONSTANTS
  Conns,       \* connections
  Texts,       \* what a line of the file may read; "*3" and "$" stand for the
               \* header of a record and for every length
  SetNames,    \* the texts that are "SET" in upper case
  Counts,      \* what a text announces as a header: n for "*n", else 0
  Torn,        \* what a text may read once it has been cut: a beginning of it,
               \* alone or run together with the header of the next record
  TextOf,      \* the value of each SET, as a line of the file reads
  Keys,
  PxKeys,      \* the keys some SET has a PX for, in this instance
  Roles,       \* what a process may be started as: "master", "slave"
  Modes,       \* "aof": --appendonly yes; "rdb": a dump is loaded at boot
  Dump,        \* the dump: entries [key, deadline], "none", "past" or "future"
  Cuts,        \* where a write may stop: <<whole lines, end of the next one>>
  MaxSets,     \* bound: SETs in one behaviour, the entries of a dump included
  MaxFaults,   \* bound: appends that fail or are torn
  MaxRestarts  \* bound: processes started after the first

Absent == 0
Odd    == -1             \* a value that is not all of a SET's
Ends   == {"none", "part", "unended"}

\* The lines of a record that are the same for every SET; "" is read past the end.
Fixed == {"*3", "$", "SET"}

\* A header of five or more, behind which AOFParser might find a PX, is left out.
ASSUME KeyspaceAssumption ==
  /\ Keys \union Fixed \union {""} \subseteq Texts /\ PxKeys \subseteq Keys
  /\ SetNames \subseteq Texts /\ "SET" \in SetNames /\ "" \notin SetNames
  /\ Counts \in [Texts -> 0..4] /\ Counts["*3"] = 3
  /\ Counts["$"] = 0 /\ Counts["SET"] = 0 /\ Counts[""] = 0
  /\ Torn \in [Texts -> SUBSET Texts]
  /\ \A t \in Texts : \A u \in Torn[t] : Torn[u] \subseteq Torn[t]
  /\ \A t \in Fixed : \A u \in Torn[t] : Counts[u] = 0
  /\ TextOf \in [1..MaxSets -> Texts]
  /\ Roles \subseteq {"master", "slave"}
  /\ Modes \subseteq {"aof", "rdb"}
  /\ Dump \in Seq([key : Keys, deadline : {"none", "past", "future"}])
  /\ Cuts \subseteq (0..6) \X Ends
  /\ MaxSets \in Nat /\ MaxSets >= Len(Dump) /\ MaxFaults \in Nat /\ MaxRestarts \in Nat

VARIABLES
  phase,    \* "down", "boot" (before the accept loop) or "up"
  role, mode,
  memory,   \* ServerMemory
  timers,   \* SETs, or dump entries, whose goroutine waits for the deadline
  next,     \* boot: how many of the stores of the file have been made
  pc,       \* per connection: "idle", "stored" or "appended"
  value,    \* per connection: the SET under way
  file,     \* the lines of the append-only file
  restarts, faults,
  \* history
  sets,     \* the SETs so far: [key, px]
  log,      \* the appends so far: [set, kept]; kept: "whole", "none" or "torn"
  acked     \* SETs a master has answered with +OK

serving == <<pc, value>>
disk    == <<file, log, faults>>
vars == <<phase, role, mode, memory, timers, next, serving, disk, restarts, sets, acked>>

Init ==
  /\ phase = "boot" /\ role \in Roles /\ mode \in Modes
  /\ memory = [k \in Texts |-> Absent]
  /\ timers = {} /\ next = 0
  /\ pc = [c \in Conns |-> "idle"] /\ value = [c \in Conns |-> 0]
  /\ file = <<>> /\ log = <<>> /\ acked = {}
  /\ sets = IF mode = "aof" THEN <<>>
            ELSE [i \in DOMAIN Dump |-> [key |-> Dump[i].key, px |-> Dump[i].deadline # "none"]]
  /\ restarts = 0 /\ faults = 0

-----------------------------------------------------------------------------
(* The append-only file.                                                   *)

\* A line: what it reads, the SET whose whole value it is, if any, and its end.
Line(text) == [text |-> text, value |-> Odd, end |-> "ended"]

\* The RESP array AppendToAof builds: *3, and a length before each string.
Record(k, w) == << Line("*3"), Line("$"), Line("SET"), Line("$"), Line(k), Line("$"),
                   [Line(TextOf[w]) EXCEPT !.value = w] >>

\* What a write that stops may leave: the first lines of a record, and of the
\* line after them nothing, a part or all but its end.
Beginnings(k, w, cut) ==
  LET lines == SubSeq(Record(k, w), 1, cut[1])
      rest  == Record(k, w)[cut[1] + 1] IN
  CASE cut[2] = "none"    -> {lines}
    [] cut[2] = "part"    -> {Append(lines, [Line(t) EXCEPT !.end = "unended"]) :
                                t \in Torn[rest.text]}
    [] cut[2] = "unended" -> {Append(lines, [rest EXCEPT !.end = "unended"])}

\* The file with lines appended: the first completes an unfinished last one.
Written(lines) ==
  IF file = <<>> \/ lines = <<>> \/ Last(file).end = "ended" THEN {file \o lines}
  ELSE {Front(file) \o <<[Line(t) EXCEPT !.end = Head(lines).end]>> \o Tail(lines) :
          t \in Torn[Last(file).text]}

\* The line at a place; past the end AOFParser reads "".
Nothing == Line("")
LineAt(lines, i) == IF i <= Len(lines) THEN lines[i] ELSE Nothing

\* AOFParser ends at a header that is not there, or not all there.
Over(lines, i) == i > Len(lines) \/ (i = Len(lines) /\ LineAt(lines, i).end # "ended")

\* The arguments behind a header, of two lines each: a SET with a key and a value
\* is stored, whatever those lines are.
StoreAt(lines, i) ==
  IF Counts[LineAt(lines, i).text] >= 3 /\ LineAt(lines, i + 2).text \in SetNames
    THEN << [key |-> LineAt(lines, i + 4).text, value |-> LineAt(lines, i + 6).value] >>
    ELSE <<>>

\* Wrong: an argument is read without the line of its length.
ParseWithoutLengths(lines) ==
  LET At[i \in Nat \ {0}] ==
        IF Over(lines, i) THEN <<>>
        ELSE (IF Counts[LineAt(lines, i).text] >= 3 /\ LineAt(lines, i + 1).text \in SetNames
                THEN << [key   |-> LineAt(lines, i + 2).text,
                         value |-> LineAt(lines, i + 3).value] >>
                ELSE <<>>) \o At[i + 1 + Counts[LineAt(lines, i).text]]
  IN At

\* AOFParser's loop, from line i on: a line that is no header is skipped, behind
\* a header the lengths and the arguments it announces are taken.
Parse(lines) ==
  LET At[i \in Nat \ {0}] ==
        IF Over(lines, i) THEN <<>>
        ELSE StoreAt(lines, i) \o At[i + 1 + 2 * Counts[LineAt(lines, i).text]]
  IN At

\* The stores AOFParser makes.
AOFParser(lines) == Parse(lines)[1]

\* What a boot reads: the stores of the file, or the entries of the dump.
Stores ==
  IF mode = "aof" THEN AOFParser(file)
  ELSE [i \in DOMAIN Dump |-> [key |-> Dump[i].key, value |-> i]]

\* AppendToAof writes no PX, so only the entries of a dump have deadlines here.
DumpDeadline(v) == IF mode = "rdb" THEN Dump[v].deadline ELSE "none"

-----------------------------------------------------------------------------
(* HandleSet: Store; on a master AppendToAof; +OK and the deadline.        *)

Store(k, v) == memory' = [memory EXCEPT ![k] = v]

\* Wrong: the value stored is not the value of this SET.
NewSetStoringNext(k, px) ==
  /\ Len(sets) < MaxSets
  /\ sets' = Append(sets, [key |-> k, px |-> px])
  /\ Store(k, Len(sets) + 2)

NewSet(k, px) ==
  /\ Len(sets) < MaxSets
  /\ sets' = Append(sets, [key |-> k, px |-> px])
  /\ Store(k, Len(sets) + 1)

\* The accept loop runs.
Serving == phase = "up"

SetStore(c, k, px) ==
  /\ Serving /\ pc[c] = "idle"
  /\ NewSet(k, px)
  /\ value' = [value EXCEPT ![c] = Len(sets) + 1]
  /\ pc' = [pc EXCEPT ![c] = "stored"]
  /\ UNCHANGED <<phase, role, mode, timers, next, disk, restarts, acked>>

\* The key of the SET under way.
KeySet(c) == sets[value[c]].key

Appends(c) == pc[c] = "stored" /\ role = "master" /\ mode = "aof"

\* Write and Sync inside AofMu.
SetAppend(c) ==
  /\ Appends(c)
  /\ file' \in Written(Record(KeySet(c), value[c]))
  /\ log' = Append(log, [set |-> value[c], kept |-> "whole"])
  /\ pc' = [pc EXCEPT ![c] = "appended"]
  /\ UNCHANGED <<phase, role, mode, memory, timers, next, value, faults, restarts, sets,
                 acked>>

WriteStops(c, cut) ==
  /\ faults < MaxFaults /\ faults' = faults + 1
  /\ \E lines \in Beginnings(KeySet(c), value[c], cut) : file' \in Written(lines)
  /\ log' = Append(log, [set |-> value[c],
                         kept |-> IF cut = <<0, "none">> THEN "none" ELSE "torn"])

\* The Write fails, having written a part; the error is logged and no more.
SetAppendFails(c, cut) ==
  /\ Appends(c)
  /\ WriteStops(c, cut)
  /\ pc' = [pc EXCEPT ![c] = "appended"]
  /\ UNCHANGED <<phase, role, mode, memory, timers, next, value, restarts, sets, acked>>

\* What has to be written has been written.
ReadyToAnswer(c) == pc[c] = "appended" \/ (pc[c] = "stored" /\ ~Appends(c))

\* Wrong: only a master starts the goroutine.
DeadlineOnMaster(v) == IF sets[v].px /\ role = "master" THEN {v} ELSE {}

\* SET with PX starts the goroutine that sleeps until the deadline.
Deadline(v) == IF sets[v].px THEN {v} ELSE {}

SetReply(c) ==
  /\ ReadyToAnswer(c)
  /\ timers' = timers \union Deadline(value[c])
  /\ acked' = IF role = "master" /\ mode = "aof" THEN acked \union {value[c]} ELSE acked
  /\ pc' = [pc EXCEPT ![c] = "idle"]
  /\ value' = [value EXCEPT ![c] = 0]
  /\ UNCHANGED <<phase, role, mode, memory, next, disk, restarts, sets>>

\* A SET from the master, which propagates no PX.  The link's goroutine is
\* started by ConnectToMaster, before the file is read.
LinkSet(k) ==
  /\ role = "slave" /\ phase # "down"
  /\ NewSet(k, FALSE)
  /\ UNCHANGED <<phase, role, mode, timers, next, serving, disk, restarts, acked>>

\* Wrong: the goroutine looks up the key when it wakes, and finds the latest.
FireOnLatest(v) ==
  /\ v \in timers
  /\ timers' = timers \ {v}
  /\ Store(Last(sets).key, Absent)
  /\ UNCHANGED <<phase, role, mode, next, serving, disk, restarts, sets, acked>>

\* A deadline: the key is deleted, whatever it holds by now.
Fire(v) ==
  /\ v \in timers
  /\ timers' = timers \ {v}
  /\ Store(sets[v].key, Absent)
  /\ UNCHANGED <<phase, role, mode, next, serving, disk, restarts, sets, acked>>

-----------------------------------------------------------------------------
(* The process.                                                            *)

ProcessGone ==
  /\ phase' = "down"
  /\ memory' = [k \in DOMAIN memory |-> Absent]
  /\ timers' = {} /\ next' = 0
  /\ pc' = [c \in Conns |-> "idle"] /\ value' = [c \in Conns |-> 0]
  /\ UNCHANGED <<role, mode, restarts, sets, acked>>

Crash ==
  /\ phase # "down" /\ restarts < MaxRestarts
  /\ ProcessGone /\ UNCHANGED disk

\* The machine stops in the middle of an append.
CrashInAppend(c, cut) ==
  /\ Appends(c) /\ restarts < MaxRestarts
  /\ WriteStops(c, cut)
  /\ ProcessGone

Restart(r) ==
  /\ phase = "down"
  /\ phase' = "boot" /\ role' = r /\ restarts' = restarts + 1
  /\ UNCHANGED <<mode, memory, timers, next, serving, disk, sets, acked>>

\* The next store is made, and a goroutine started if its deadline is to come.
\* LoadRDB skips what has expired.
Load ==
  /\ phase = "boot" /\ next < Len(Stores)
  /\ LET s == Stores[next + 1] IN
       \/ /\ DumpDeadline(s.value) # "past"
          /\ Store(s.key, s.value)
          /\ timers' = IF DumpDeadline(s.value) = "future" THEN timers \union {s.value}
                       ELSE timers
       \/ /\ DumpDeadline(s.value) = "past"
          /\ UNCHANGED <<memory, timers>>
  /\ next' = next + 1
  /\ UNCHANGED <<phase, role, mode, serving, disk, restarts, sets, acked>>

\* Wrong: accepts connections while the file is being read.
LoadedEarly == phase = "boot"

Loaded == phase = "boot" /\ next = Len(Stores)

Accept ==
  /\ Loaded
  /\ phase' = "up" /\ next' = 0
  /\ UNCHANGED <<role, mode, memory, timers, serving, disk, restarts, sets, acked>>

Set(c) ==
  \/ \E k \in Keys : SetStore(c, k, FALSE)
  \/ \E k \in PxKeys : SetStore(c, k, TRUE)
  \/ SetAppend(c)
  \/ SetReply(c)

Fault(c) == \E cut \in Cuts : SetAppendFails(c, cut) \/ CrashInAppend(c, cut)

Next ==
  \/ \E c \in Conns : Set(c) \/ Fault(c)
  \/ \E k \in Keys : LinkSet(k)
  \/ \E v \in timers : Fire(v)
  \/ Crash
  \/ \E r \in Roles : Restart(r)
  \/ Load \/ Accept

\* A handler goes on, a goroutine whose deadline has passed runs, a process that
\* has been started reads its file.  Nothing has to crash or be started again.
Spec ==
  /\ Init /\ [][Next]_vars
  /\ \A c \in Conns : WF_vars(SetAppend(c)) /\ WF_vars(SetReply(c))
  /\ \A v \in 1..MaxSets : WF_vars(Fire(v))
  /\ WF_vars(Load) /\ WF_vars(Accept)

-----------------------------------------------------------------------------
(* Properties.                                                             *)

TypeOK ==
  /\ phase \in {"down", "boot", "up"} /\ role \in Roles /\ mode \in Modes
  /\ memory \in [Texts -> {Absent, Odd} \union DOMAIN sets]
  /\ timers \subseteq DOMAIN sets /\ acked \subseteq DOMAIN sets
  /\ next \in 0..Len(Stores)
  /\ pc \in [Conns -> {"idle", "stored", "appended"}]
  /\ value \in [Conns -> {0} \union DOMAIN sets]
  /\ \A i \in DOMAIN log : log[i].set \in DOMAIN sets

KeyOf(i) == sets[log[i].set].key

\* What the file says of a key: the last of its stores.
OnFile(k) ==
  LET stores == AOFParser(file)
      places == {i \in DOMAIN stores : stores[i].key = k} IN
  IF places = {} THEN Absent
  ELSE stores[CHOOSE i \in places : \A j \in places : j <= i].value

\* An append that reached the file whole, behind one that did.
Intact(i) == log[i].kept = "whole" /\ \A j \in 1..(i - 1) :
               log[j].kept = "torn" => \E m \in (j + 1)..(i - 1) : log[m].kept = "whole"

\* The texts an append may have left in the file for these.
Left(i, texts) ==
  IF log[i].kept = "torn" THEN texts \union UNION {Torn[t] : t \in texts} ELSE texts

\* What the client gave: a key and a value.
Words(i) == {KeyOf(i), TextOf[log[i].set]}

\* The keys AOFParser may find in the lines of an append when it is out of step.
Says(i) ==
  IF log[i].kept = "none" THEN {KeyOf(i)}
  ELSE Left(i, Words(i) \union Fixed \union {""})

\* A key or a value that looks like a header was appended where AOFParser may
\* be out of step: from there on it takes as many lines as that announces.
Wild ==
  \E i \in DOMAIN log : /\ ~Intact(i) /\ log[i].kept # "none"
                        /\ \E t \in Left(i, Words(i)) : Counts[t] > 0

\* The keys that appends which are not intact may have hidden or stored, until an
\* intact append of the key.
Damaged ==
  IF Wild THEN Texts
  ELSE UNION {{k \in Says(i) : ~\E m \in (i + 1)..Len(log) : Intact(m) /\ KeyOf(m) = k} :
                i \in {j \in DOMAIN log : ~Intact(j)}}

\* However often the process or the machine stops, and wherever an append was
\* cut, the file gives back, for every key, an acknowledged SET or one that was
\* appended after it.  Excepted are the keys that the lines of a torn record and
\* of the first whole one behind it may name, "user:1" for a record cut inside
\* "user:10" included, until they are set again; and every key once a key or a
\* value such as "*2" stands in such a record.
AcknowledgedRecovered ==
  \A w \in acked : sets[w].key \notin Damaged =>
    \E i \in DOMAIN log : /\ log[i].set = OnFile(sets[w].key)
                          /\ \A j \in DOMAIN log : log[j].set = w => i >= j

\* When no SET is under way on a master, memory and file agree on every key, set
\* or not, unless the file is damaged, a deadline has deleted the key (the file is not
\* told) or two SETs of the key were stored in one order and appended in another.
MemoryMatchesFile ==
  (Serving /\ role = "master" /\ mode = "aof" /\ \A c \in Conns : pc[c] = "idle") =>
    \A k \in Texts \ Damaged :
      \/ memory[k] = OnFile(k)
      \/ memory[k] = Absent /\ \E v \in DOMAIN sets : sets[v].key = k /\ sets[v].px
      \/ \E i, j \in DOMAIN log : /\ i < j /\ log[i].set > log[j].set
                                  /\ KeyOf(i) = k /\ KeyOf(j) = k

\* While clients are served a value gives way only to a newer one, or goes at a
\* deadline: its own, or that of an older SET of the key, whose goroutine
\* nobody cancelled.
ValuesGoForward ==
  [][Serving /\ Serving' =>
       \A k \in Keys : memory'[k] # memory[k] =>
         \/ memory'[k] > memory[k]
         \/ memory'[k] = Absent /\ \E v \in timers \ timers' :
              sets[v].key = k /\ (memory[k] = Odd \/ v <= memory[k])]_vars

\* The SETs, or dump entries, with a deadline that has not come.
Due == timers \union {v \in {value[c] : c \in Conns} \ {0} : sets[v].px}

\* A value set with PX, or loaded with a deadline to come, does not stay: unless
\* the process stops it is deleted or overwritten.
DeadlineComes ==
  \A v \in 1..MaxSets :
    v \in Due ~> phase # "up" \/ v \notin Range(memory)
=============================================================================
