---------------------------- MODULE Replication ----------------------------
(***************************************************************************)
(* A master, its replicas and its clients: SET with PropagateCommand, the  *)
(* PSYNC handshake, REPLCONF GETACK / ACK and WAIT, for one key.           *)
(*                                                                         *)
(* Each replication connection is a TCP stream: link[r] carries SETs and   *)
(* GETACKs to the replica, acks[r] carries the offsets back.  Everything   *)
(* done inside one ReplicasMu section is one action; what the code does in *)
(* separate sections, or without the mutex, is separate actions.  The      *)
(* replica's offset is a sync.Map entry that is loaded and stored back in  *)
(* two steps, by the link's goroutine and by those of its own clients.     *)
(*                                                                         *)
(* SETs are numbered in the order of their Store on the master; a number   *)
(* stands for the command and for its value.  All SETs have one size.      *)
(*                                                                         *)
(* An operator marked "Wrong" takes part in no behaviour: it is a bug that *)
(* the definition after it could have had, and each of the properties      *)
(* fails for one of them.                                                  *)
(***************************************************************************)
EXTENDS Integers, SequencesExt

CONSTANTS
  Clients,        \* connections to the master
  Replicas,       \* replica processes
  SetSize,        \* bytes of a propagated SET
  GetAckSize,     \* bytes of REPLCONF GETACK * (37, handlers.go:868)
  PingSize,       \* bytes of PING, counted by HandlePing
  Mortal,         \* replicas that may die in this instance
  LocalCommands,  \* what a replica's own clients send: {}, {"PING"}, ...
  WaitFor,        \* numreplicas arguments of WAIT
  Timeouts,       \* TRUE: WAIT has a timeout, FALSE: its timeout is 0
  MaxWrites,      \* bound: SETs in one behaviour
  MaxWaits,       \* bound: WAITs in one behaviour
  MaxLocal        \* bound: bytes of the commands of each replica's own clients

ASSUME ReplicationAssumption ==
  /\ IsFiniteSet(Replicas)
  /\ SetSize \in Nat \ {0} /\ GetAckSize \in Nat \ {0} /\ PingSize \in Nat \ {0}
  /\ Mortal \subseteq Replicas /\ LocalCommands \subseteq {"PING", "SET"}
  /\ WaitFor \subseteq Nat /\ Timeouts \subseteq BOOLEAN
  /\ MaxWrites \in Nat /\ MaxWaits \in Nat /\ MaxLocal \in Nat

GetAck   == 0                    \* a GETACK on a link; n > 0 is the n-th SET
NoAccess == [loaded |-> -1, add |-> 0]   \* no Load/Store of repl_offset under way

VARIABLES
  \* the master
  memory,        \* ServerMemory: number of the SET stored last
  writes,        \* SETs stored so far
  masterOffset,  \* MasterOffset
  joined,        \* "out", "rdb" (RDB sent) or "listed" (in Replicas)
  acked,         \* Replica.Offset
  \* its clients' goroutines
  pc,            \* "idle", "stored", "getack", "poll" or "select"
  value,         \* the SET in progress
  want, timed,   \* WAIT's arguments
  count,         \* WAIT's variable acked; its reply when it has returned
  waits,         \* WAITs begun so far
  \* the connections and the replicas
  link, acks,
  dead,          \* replicas that have died
  store,         \* each replica's ServerMemory
  replOffset,    \* each replica's repl_offset
  linkAccess,    \* the link goroutine's Load/Store of repl_offset under way
  localAccess,   \* the same of a goroutine that serves the replica's clients
  locals,        \* bytes of the commands of the replica's own clients so far
  \* history
  order,         \* SETs in the order of PropagateCommand's counted sends
  target,        \* for each WAIT: Len(order) when it began
  sent,          \* bytes written to each link
  answered,      \* GETACKs each replica has answered
  got            \* SETs each replica has taken from its link, in that order

masterVars  == <<memory, writes, masterOffset, joined, acked>>
clientVars  == <<pc, value, want, timed, count, waits>>
replicaVars == <<dead, store, replOffset, linkAccess, localAccess, locals>>
history     == <<order, target, sent, answered, got>>
vars == <<masterVars, clientVars, link, acks, replicaVars, history>>

Init ==
  /\ memory = 0 /\ writes = 0 /\ masterOffset = 0 /\ waits = 0
  /\ joined = [r \in Replicas |-> "out"]
  /\ acked = [r \in Replicas |-> 0]
  /\ pc = [c \in Clients |-> "idle"]
  /\ value = [c \in Clients |-> 0]
  /\ want = [c \in Clients |-> 0]
  /\ timed = [c \in Clients |-> FALSE]
  /\ count = [c \in Clients |-> 0]
  /\ link = [r \in Replicas |-> <<>>]
  /\ acks = [r \in Replicas |-> <<>>]
  /\ dead = {}
  /\ store = [r \in Replicas |-> 0]
  /\ replOffset = [r \in Replicas |-> 0]
  /\ linkAccess = [r \in Replicas |-> NoAccess]
  /\ localAccess = [r \in Replicas |-> NoAccess]
  /\ locals = [r \in Replicas |-> 0]
  /\ order = <<>>
  /\ target = [c \in Clients |-> 0]
  /\ sent = [r \in Replicas |-> 0]
  /\ answered = [r \in Replicas |-> 0]
  /\ got = [r \in Replicas |-> <<>>]

-----------------------------------------------------------------------------
(* The master's Replicas slice and its connections. *)

Listed == {r \in Replicas : joined[r] = "listed"}

\* Wrong: GETACK is not counted.
SizeOfSetsOnly(msg) == IF msg = GetAck THEN 0 ELSE SetSize

Size(msg) == IF msg = GetAck THEN GetAckSize ELSE SetSize

\* Wrong: leaves out the replicas that have not acknowledged everything so far.
BroadcastToCaughtUp(msg) ==
  LET receivers == {r \in Listed \ dead : acked[r] >= masterOffset} IN
  /\ link' = [r \in Replicas |-> IF r \in receivers THEN Append(link[r], msg) ELSE link[r]]
  /\ sent' = [r \in Replicas |-> IF r \in receivers THEN sent[r] + Size(msg) ELSE sent[r]]

\* conn.Conn.Write to every replica in turn; a dead peer's bytes are dropped.
Broadcast(msg) ==
  /\ link' = [r \in Replicas |-> IF r \in Listed \ dead THEN Append(link[r], msg)
                                                        ELSE link[r]]
  /\ sent' = [r \in Replicas |-> IF r \in Listed \ dead THEN sent[r] + Size(msg)
                                                        ELSE sent[r]]

-----------------------------------------------------------------------------
(* HandleSet on the master: Store, then PropagateCommand, then the reply.   *)
(* Nothing keeps two clients' pairs of steps from interleaving.            *)

SetStore(c) ==
  /\ pc[c] = "idle" /\ writes < MaxWrites
  /\ writes' = writes + 1
  /\ memory' = writes + 1
  /\ value' = [value EXCEPT ![c] = writes + 1]
  /\ pc' = [pc EXCEPT ![c] = "stored"]
  /\ UNCHANGED <<masterOffset, joined, acked, want, timed, count, waits, link,
                 acks, replicaVars, history>>

SetPropagate(c) ==
  /\ pc[c] = "stored"
  /\ pc' = [pc EXCEPT ![c] = "idle"]
  /\ value' = [value EXCEPT ![c] = 0]
  /\ IF Listed = {}
       THEN UNCHANGED <<masterOffset, link, order, sent>>
       ELSE /\ masterOffset' = masterOffset + SetSize
            /\ Broadcast(value[c])
            /\ order' = Append(order, value[c])
  /\ UNCHANGED <<memory, writes, joined, acked, want, timed, count, waits, acks,
                 replicaVars, target, answered, got>>

(* HandlePsyncMaster: FULLRESYNC and an empty RDB, then, in a section of its *)
(* own, the append to Replicas.  The replica has stored offset 0 and serves *)
(* the link and its own clients once it has read the RDB.                  *)
PsyncSendRdb(r) ==
  /\ joined[r] = "out" /\ r \notin dead
  /\ joined' = [joined EXCEPT ![r] = "rdb"]
  /\ UNCHANGED <<memory, writes, masterOffset, acked, clientVars, link, acks,
                 replicaVars, history>>

PsyncRegister(r) ==
  /\ joined[r] = "rdb"
  /\ joined' = [joined EXCEPT ![r] = "listed"]
  /\ UNCHANGED <<memory, writes, masterOffset, acked, clientVars, link, acks,
                 replicaVars, history>>

\* Wrong: adds the GETACK that was answered.
ReceiveAckAndGetAck(r) ==
  /\ joined[r] = "listed" /\ acks[r] # <<>>
  /\ acked' = [acked EXCEPT ![r] = Head(acks[r]) + GetAckSize]
  /\ acks' = [acks EXCEPT ![r] = Tail(acks[r])]
  /\ UNCHANGED <<memory, writes, masterOffset, joined, clientVars, link,
                 replicaVars, history>>

\* HandleReplConf, ACK: the goroutine of the replica's connection on the master.
ReceiveAck(r) ==
  /\ joined[r] = "listed" /\ acks[r] # <<>>
  /\ acked' = [acked EXCEPT ![r] = Head(acks[r])]
  /\ acks' = [acks EXCEPT ![r] = Tail(acks[r])]
  /\ UNCHANGED <<memory, writes, masterOffset, joined, clientVars, link,
                 replicaVars, history>>

-----------------------------------------------------------------------------
(* HandleWait. *)

\* Wrong: forgives a GETACK that has not been counted yet.
CaughtButGetAck == {r \in Listed : acked[r] + GetAckSize >= masterOffset}

\* Wrong: compares with > instead of >=.
CaughtStrictly == {r \in Listed : acked[r] > masterOffset}

\* Replicas whose stored offset has reached the master's, in the poll loop.
Caught == {r \in Listed : acked[r] >= masterOffset}

\* The counts of lines 987 and 990 are read one after the other; neither ever
\* falls, so what the handler does with them is what it would have done had
\* it read both at one of the two moments.
WaitStart(c, n, t) ==
  /\ pc[c] = "idle" /\ waits < MaxWaits
  /\ waits' = waits + 1
  /\ IF Listed = {} \/ masterOffset = 0
       THEN /\ count' = [count EXCEPT ![c] = Cardinality(Listed)]
            /\ UNCHANGED <<pc, want, timed, target>>
       ELSE /\ pc' = [pc EXCEPT ![c] = "getack"]
            /\ want' = [want EXCEPT ![c] = n]
            /\ timed' = [timed EXCEPT ![c] = t]
            /\ target' = [target EXCEPT ![c] = Len(order)]
            /\ UNCHANGED count
  /\ UNCHANGED <<masterVars, value, link, acks, replicaVars, order, sent, answered, got>>

\* GETACK is sent once for the whole WAIT.
WaitGetAck(c) ==
  /\ pc[c] = "getack"
  /\ pc' = [pc EXCEPT ![c] = "poll"]
  /\ Broadcast(GetAck)
  /\ UNCHANGED <<masterVars, value, want, timed, count, waits, acks, replicaVars,
                 order, target, answered, got>>

\* The reply is count; the handler's arguments are forgotten.
WaitReply(c) ==
  /\ pc' = [pc EXCEPT ![c] = "idle"]
  /\ want' = [want EXCEPT ![c] = 0]
  /\ timed' = [timed EXCEPT ![c] = FALSE]
  /\ target' = [target EXCEPT ![c] = 0]

\* One round of the loop, the first or one that a tick has started.
WaitPoll(c) ==
  /\ pc[c] \in {"poll", "select"}
  /\ count' = [count EXCEPT ![c] = Cardinality(Caught)]
  /\ IF Cardinality(Caught) >= want[c]
       THEN WaitReply(c)
       ELSE /\ pc' = [pc EXCEPT ![c] = "select"]
            /\ UNCHANGED <<want, timed, target>>
  /\ UNCHANGED <<masterVars, value, waits, link, acks, replicaVars, order, sent,
                 answered, got>>

\* Wrong: waits on until somebody has caught up.
WaitTimeoutForOne(c) ==
  /\ pc[c] = "select" /\ timed[c] /\ count[c] > 0
  /\ WaitReply(c)
  /\ UNCHANGED <<masterVars, value, count, waits, link, acks, replicaVars, order,
                 sent, answered, got>>

\* ctx.Done(): answers with the count of the last round.
WaitTimeout(c) ==
  /\ pc[c] = "select" /\ timed[c]
  /\ WaitReply(c)
  /\ UNCHANGED <<masterVars, value, count, waits, link, acks, replicaVars, order,
                 sent, answered, got>>

-----------------------------------------------------------------------------
(* The replica.  Every handler that counts loads repl_offset, and stores the *)
(* sum later.                                                              *)

Alive(r) == r \notin dead /\ joined[r] # "out"

\* The link's goroutine reads a command: a SET is stored, a GETACK answered
\* with the offset before it; either way the offset has been loaded.
LinkTake(r) ==
  /\ Alive(r) /\ linkAccess[r] = NoAccess /\ link[r] # <<>>
  /\ LET msg == Head(link[r]) IN
       /\ link' = [link EXCEPT ![r] = Tail(link[r])]
       /\ linkAccess' = [linkAccess EXCEPT ![r] =
                           [loaded |-> replOffset[r], add |-> Size(msg)]]
       /\ IF msg = GetAck
            THEN /\ acks' = [acks EXCEPT ![r] = Append(acks[r], replOffset[r])]
                 /\ answered' = [answered EXCEPT ![r] = answered[r] + 1]
                 /\ UNCHANGED <<store, got>>
            ELSE /\ store' = [store EXCEPT ![r] = msg]
                 /\ got' = [got EXCEPT ![r] = Append(got[r], msg)]
                 /\ UNCHANGED <<acks, answered>>
  /\ UNCHANGED <<masterVars, clientVars, dead, replOffset, localAccess, locals,
                 order, target, sent>>

\* Wrong: stores the command's size in place of the sum.
LinkStoreSize(r) ==
  /\ Alive(r) /\ linkAccess[r] # NoAccess
  /\ replOffset' = [replOffset EXCEPT ![r] = linkAccess[r].add]
  /\ linkAccess' = [linkAccess EXCEPT ![r] = NoAccess]
  /\ UNCHANGED <<masterVars, clientVars, link, acks, dead, store, localAccess,
                 locals, history>>

LinkStore(r) ==
  /\ Alive(r) /\ linkAccess[r] # NoAccess
  /\ replOffset' = [replOffset EXCEPT ![r] = linkAccess[r].loaded + linkAccess[r].add]
  /\ linkAccess' = [linkAccess EXCEPT ![r] = NoAccess]
  /\ UNCHANGED <<masterVars, clientVars, link, acks, dead, store, localAccess,
                 locals, history>>

\* HandlePing and HandleSet on the replica, for one of its own clients: they
\* count the command although it came over no link.  -1 is the client's value.
LocalSize(cmd) == IF cmd = "PING" THEN PingSize ELSE SetSize

LocalTake(r, cmd) ==
  /\ Alive(r) /\ localAccess[r] = NoAccess
  /\ locals[r] + LocalSize(cmd) <= MaxLocal
  /\ locals' = [locals EXCEPT ![r] = locals[r] + LocalSize(cmd)]
  /\ localAccess' = [localAccess EXCEPT ![r] =
                       [loaded |-> replOffset[r], add |-> LocalSize(cmd)]]
  /\ store' = IF cmd = "SET" THEN [store EXCEPT ![r] = -1] ELSE store
  /\ UNCHANGED <<masterVars, clientVars, link, acks, dead, replOffset, linkAccess,
                 history>>

LocalStore(r) ==
  /\ Alive(r) /\ localAccess[r] # NoAccess
  /\ replOffset' = [replOffset EXCEPT ![r] = localAccess[r].loaded + localAccess[r].add]
  /\ localAccess' = [localAccess EXCEPT ![r] = NoAccess]
  /\ UNCHANGED <<masterVars, clientVars, link, acks, dead, store, linkAccess,
                 locals, history>>

\* A replica dies.  The master never takes it off Replicas.
Die(r) ==
  /\ r \in Mortal \ dead
  /\ dead' = dead \cup {r}
  /\ link' = [link EXCEPT ![r] = <<>>]
  /\ UNCHANGED <<masterVars, clientVars, acks, store, replOffset, linkAccess,
                 localAccess, locals, history>>

-----------------------------------------------------------------------------
Set(c)  == SetStore(c) \/ SetPropagate(c)
Wait(c) == \/ \E n \in WaitFor, t \in Timeouts : WaitStart(c, n, t)
           \/ WaitGetAck(c) \/ WaitPoll(c) \/ WaitTimeout(c)
Master(r)  == PsyncSendRdb(r) \/ PsyncRegister(r) \/ ReceiveAck(r)
Replica(r) == \/ LinkTake(r) \/ LinkStore(r)
              \/ \E cmd \in LocalCommands : LocalTake(r, cmd)
              \/ LocalStore(r)

Next ==
  \/ \E c \in Clients : Set(c) \/ Wait(c)
  \/ \E r \in Replicas : Master(r) \/ Replica(r) \/ Die(r)

(***************************************************************************)
(* Handlers that have begun go on, tickers and timers fire, TCP delivers   *)
(* while both ends live.  Nobody has to send a command or to join.         *)
(***************************************************************************)
Fairness ==
  /\ \A c \in Clients : /\ WF_vars(SetPropagate(c)) /\ WF_vars(WaitGetAck(c))
                        /\ WF_vars(WaitPoll(c)) /\ WF_vars(WaitTimeout(c))
  /\ \A r \in Replicas : /\ WF_vars(ReceiveAck(r)) /\ WF_vars(LinkTake(r))
                         /\ WF_vars(LinkStore(r)) /\ WF_vars(PsyncRegister(r))

Spec == Init /\ [][Next]_vars /\ Fairness

-----------------------------------------------------------------------------
(* Properties. *)

MasterTypes ==
  /\ memory \in 0 .. MaxWrites /\ writes \in 0 .. MaxWrites
  /\ masterOffset \in Nat
  /\ joined \in [Replicas -> {"out", "rdb", "listed"}]
  /\ acked \in [Replicas -> Nat]

ClientTypes ==
  /\ pc \in [Clients -> {"idle", "stored", "getack", "poll", "select"}]
  /\ value \in [Clients -> 0 .. MaxWrites]
  /\ \A c \in Clients : pc[c] = "stored" => value[c] # 0
  /\ want \in [Clients -> Nat]
  /\ timed \in [Clients -> BOOLEAN]
  /\ count \in [Clients -> Nat]
  /\ waits \in 0 .. MaxWaits
  /\ target \in [Clients -> Nat]

StreamTypes ==
  /\ link \in [Replicas -> Seq(0 .. MaxWrites)]
  /\ acks \in [Replicas -> Seq(Nat)]
  /\ sent \in [Replicas -> Nat]
  /\ order \in Seq(1 .. MaxWrites)
  /\ got \in [Replicas -> Seq(1 .. MaxWrites)]
  /\ answered \in [Replicas -> Nat]

Access == {NoAccess} \cup [loaded : Nat, add : Nat \ {0}]

ReplicaTypes ==
  /\ dead \subseteq Replicas
  /\ store \in [Replicas -> -1 .. MaxWrites]
  /\ replOffset \in [Replicas -> Nat]
  /\ linkAccess \in [Replicas -> Access]
  /\ localAccess \in [Replicas -> Access]
  /\ locals \in [Replicas -> 0 .. MaxLocal]

\* Every variable has its type (server.go:16-26, structures.go:19-22 and the
\* local variables of the handlers).
TypeOK == MasterTypes /\ ClientTypes /\ StreamTypes /\ ReplicaTypes

IsSet(msg) == msg # GetAck

\* How many SETs are among msgs from the i-th message on, and all their bytes.
SetsFrom(msgs, i) == Cardinality({k \in i .. Len(msgs) : IsSet(msgs[k])})

Bytes(msgs) == SetSize * SetsFrom(msgs, 1) + GetAckSize * (Len(msgs) - SetsFrom(msgs, 1))

\* The SETs a replica has taken and those on its link are the end of the common
\* order, and the one taken last is its value: all replicas apply the SETs in one
\* order, however the clients' handlers interleave (PropagateCommand writes to
\* every replica within one ReplicasMu section, utils.go:61-82).
ReplicaFollowsOrder ==
  \A r \in Listed \ dead :
    LET missed == Len(order) - (Len(got[r]) + SetsFrom(link[r], 1)) IN
    /\ missed >= 0
    /\ \A i \in DOMAIN got[r] : got[r][i] = order[missed + i]
    /\ \A i \in DOMAIN link[r] : IsSet(link[r][i]) =>
         link[r][i] = order[Len(order) + 1 - SetsFrom(link[r], i)]
    /\ got[r] # <<>> => store[r] = Last(got[r])

\* A live replica's offset, with the command it is counting, is the number of
\* bytes of the commands it has taken from its link (handlers.go:89-95, 857-868).
OffsetExact ==
  \A r \in Replicas : Alive(r) /\ r \in Listed =>
    replOffset[r] + (IF linkAccess[r] = NoAccess THEN 0 ELSE linkAccess[r].add)
      = sent[r] - Bytes(link[r])

\* The offsets the master has and will read never go back, and none is ahead of
\* the replica (handlers.go:855-869, 882-892).
AcksAscend ==
  \A r \in Replicas :
    LET offsets == <<acked[r]>> \o acks[r] \o <<replOffset[r]>> IN
    \A i, k \in DOMAIN offsets : i < k => offsets[i] <= offsets[k]

\* What an acknowledged offset proves: the replica has stored SETs of at least
\* that many bytes, less the GETACKs it answered before the last one and its own
\* clients' commands, which it counts and MasterOffset does not (handlers.go:868,
\* utils.go:74).
AckCoversSets ==
  \A r \in Replicas : acked[r] > 0 =>
    acked[r] <= SetSize * Len(got[r]) + GetAckSize * (answered[r] - 1) + locals[r]

\* c's WAIT leaves its loop.
WaitReturns(c) == pc[c] \in {"poll", "select"} /\ pc'[c] = "idle"

\* The replicas that have the command WAIT asks about: the last one propagated
\* when WAIT began.
HaveCommand(c) == {r \in Listed : order[target[c]] \in Range(got[r])}

\* WAIT counts a replica without the command only if the replica has answered a
\* GETACK before the one that is counted (handlers.go:1026-1037).
WaitOvercountsOnlyReasked ==
  [][\A c \in Clients : WaitReturns(c) =>
       count'[c] <= Cardinality(HaveCommand(c) \cup {r \in Listed : answered[r] > 1})]_vars

\* The number WAIT answers is a number of replicas that have the command.
WaitCountIsTrue ==
  [][\A c \in Clients : WaitReturns(c) => count'[c] <= Cardinality(HaveCommand(c))]_vars

Quiet(r) == link[r] = <<>> /\ \A c \in Clients : pc[c] # "stored"

\* When no SET is under way, a live replica that is being sent SETs has the
\* master's value (handlers.go:87-98).
ReplicasConverge ==
  \A r \in Listed \ dead : Quiet(r) /\ got[r] # <<>> => store[r] = memory

\* A WAIT with a timeout is answered (handlers.go:1039-1049).
TimedWaitAnswered ==
  \A c \in Clients :
    pc[c] \in {"getack", "poll", "select"} /\ timed[c] ~> pc[c] = "idle"

\* A WAIT is answered when enough replicas have or will have all commands up
\* to the one it asks about, as long as no replica dies or is sent commands by
\* clients of its own (handlers.go:1000-1050).
WaitAnswered ==
  \A c \in Clients :
    /\ pc[c] = "select"
    /\ want[c] <= Cardinality({r \in Listed :
                    Range(SubSeq(order, 1, target[c])) \subseteq
                      Range(got[r] \o link[r])})
    ~> pc[c] = "idle" \/ dead # {} \/ \E r \in Replicas : locals[r] # 0
=============================================================================
