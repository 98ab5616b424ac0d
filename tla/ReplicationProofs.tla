------------------------- MODULE ReplicationProofs --------------------------
(***************************************************************************)
(* Proofs about Replication: type correctness, what an acknowledged offset *)
(* proves, one order of SETs on every replica, offsets that count every    *)
(* byte of the link, acknowledgements that never go back, what a WAIT's    *)
(* count is worth, and convergence under one writer, for any number of     *)
(* clients and replicas and any sizes.                                     *)
(***************************************************************************)
EXTENDS Replication, SequenceTheorems, FiniteSetTheorems, TLAPS

-----------------------------------------------------------------------------
(* Types, one lemma for each group of variables. *)

\* Sizes are positive, whatever is sent.
LEMMA SizeType == \A msg : Size(msg) \in Nat \ {0}
BY ReplicationAssumption DEF Size

\* A broadcast appends one message to some links and counts its bytes.
LEMMA BroadcastType ==
  ASSUME link \in [Replicas -> Seq(0 .. MaxWrites)], sent \in [Replicas -> Nat],
         NEW msg \in 0 .. MaxWrites, Broadcast(msg)
  PROVE  link' \in [Replicas -> Seq(0 .. MaxWrites)] /\ sent' \in [Replicas -> Nat]
<1>1. \A r \in Replicas : sent[r] + Size(msg) \in Nat
  BY SizeType
<1>2. \A r \in Replicas : Append(link[r], msg) \in Seq(0 .. MaxWrites)
  BY AppendProperties
<1>3. link' \in [Replicas -> Seq(0 .. MaxWrites)]
  BY <1>2 DEF Broadcast
<1>4. sent' \in [Replicas -> Nat]
  BY <1>1 DEF Broadcast
<1> QED
  BY <1>3, <1>4

\* How many replicas are listed, or have caught up, is a number.
LEMMA CountsAreNumbers == Cardinality(Listed) \in Nat /\ Cardinality(Caught) \in Nat
<1>1. IsFiniteSet(Replicas)
  BY ReplicationAssumption
<1>2. Listed \subseteq Replicas /\ Caught \subseteq Replicas
  BY DEF Listed, Caught
<1>3. IsFiniteSet(Listed) /\ IsFiniteSet(Caught)
  BY <1>1, <1>2, FS_Subset
<1> QED
  BY <1>3, FS_CardinalityType

\* Only the master's own handlers change its variables.
LEMMA MasterTypesStep == TypeOK /\ [Next]_vars => MasterTypes'
<1> SUFFICES ASSUME TypeOK, [Next]_vars PROVE MasterTypes'
  OBVIOUS
<1>0. MasterTypes
  BY DEF TypeOK
<1>1. ASSUME NEW c \in Clients, SetStore(c) PROVE MasterTypes'
  BY <1>0, <1>1, ReplicationAssumption DEF MasterTypes, SetStore
<1>2. ASSUME NEW c \in Clients, SetPropagate(c) PROVE MasterTypes'
  BY <1>0, <1>2, ReplicationAssumption DEF MasterTypes, SetPropagate
<1>3. ASSUME NEW r \in Replicas, PsyncSendRdb(r) \/ PsyncRegister(r)
      PROVE  MasterTypes'
  BY <1>0, <1>3 DEF MasterTypes, PsyncSendRdb, PsyncRegister
<1>4. ASSUME NEW r \in Replicas, ReceiveAck(r) PROVE MasterTypes'
  <2>1. acks[r] \in Seq(Nat) /\ acks[r] # <<>>
    BY <1>4 DEF TypeOK, StreamTypes, ReceiveAck
  <2>2. Head(acks[r]) \in Nat
    BY <2>1, HeadTailProperties
  <2> QED
    BY <1>0, <1>4, <2>2 DEF MasterTypes, ReceiveAck
<1>5. CASE UNCHANGED masterVars
  BY <1>0, <1>5 DEF MasterTypes, masterVars
<1>6. ASSUME NEW c \in Clients, Wait(c) PROVE UNCHANGED masterVars
  BY <1>6 DEF Wait, WaitStart, WaitGetAck, WaitPoll, WaitTimeout
<1>7. ASSUME NEW r \in Replicas, Replica(r) \/ Die(r) PROVE UNCHANGED masterVars
  BY <1>7 DEF Replica, LinkTake, LinkStore, LocalTake, LocalStore, Die
<1>8. CASE UNCHANGED vars
  BY <1>5, <1>8 DEF vars
<1> QED
  BY <1>1, <1>2, <1>3, <1>4, <1>5, <1>6, <1>7, <1>8 DEF Next, Set, Master

\* Only the clients' handlers change theirs.
LEMMA ClientTypesStep == TypeOK /\ [Next]_vars => ClientTypes'
<1> SUFFICES ASSUME TypeOK, [Next]_vars PROVE ClientTypes'
  OBVIOUS
<1>0. ClientTypes
  BY DEF TypeOK
<1>1. ASSUME NEW c \in Clients, SetStore(c) PROVE ClientTypes'
  <2>1. writes + 1 \in 1 .. MaxWrites
    BY <1>1, ReplicationAssumption DEF TypeOK, MasterTypes, SetStore
  <2> QED
    BY <1>0, <1>1, <2>1 DEF ClientTypes, SetStore, history
<1>2. ASSUME NEW c \in Clients, SetPropagate(c) PROVE ClientTypes'
  BY <1>0, <1>2, ReplicationAssumption DEF ClientTypes, SetPropagate
<1>3. ASSUME NEW c \in Clients, NEW n \in WaitFor, NEW t \in Timeouts, WaitStart(c, n, t)
      PROVE  ClientTypes'
  <2>1. n \in Nat /\ t \in BOOLEAN
    BY <1>3, ReplicationAssumption
  <2>2. Len(order) \in Nat
    BY LenProperties DEF TypeOK, StreamTypes
  <2>3. waits' \in 0 .. MaxWaits
    BY <1>0, <1>3, ReplicationAssumption DEF ClientTypes, WaitStart
  <2>4. UNCHANGED value
    BY <1>3 DEF WaitStart
  <2>5. CASE Listed = {} \/ masterOffset = 0
    <3>1. /\ count' = [count EXCEPT ![c] = Cardinality(Listed)]
          /\ UNCHANGED <<pc, want, timed, target>>
      BY <1>3, <2>5 DEF WaitStart
    <3> QED
      BY <1>0, <2>3, <2>4, <3>1, CountsAreNumbers DEF ClientTypes
  <2>6. CASE ~(Listed = {} \/ masterOffset = 0)
    <3>1. /\ pc' = [pc EXCEPT ![c] = "getack"]
          /\ want' = [want EXCEPT ![c] = n]
          /\ timed' = [timed EXCEPT ![c] = t]
          /\ target' = [target EXCEPT ![c] = Len(order)]
          /\ UNCHANGED count
      BY <1>3, <2>6 DEF WaitStart
    <3> QED
      BY <1>0, <2>1, <2>2, <2>3, <2>4, <3>1 DEF ClientTypes
  <2> QED
    BY <2>5, <2>6
<1>4. ASSUME NEW c \in Clients, WaitGetAck(c) PROVE ClientTypes'
  BY <1>0, <1>4 DEF ClientTypes, WaitGetAck
<1>5. ASSUME NEW c \in Clients, WaitPoll(c) PROVE ClientTypes'
  <2>1. count' \in [Clients -> Nat]
    BY <1>0, <1>5, CountsAreNumbers DEF ClientTypes, WaitPoll
  <2>2. CASE Cardinality(Caught) >= want[c]
    <3>1. /\ pc' = [pc EXCEPT ![c] = "idle"]
          /\ want' = [want EXCEPT ![c] = 0]
          /\ timed' = [timed EXCEPT ![c] = FALSE]
          /\ target' = [target EXCEPT ![c] = 0]
          /\ UNCHANGED <<value, waits>>
      BY <1>5, <2>2 DEF WaitPoll, WaitReply
    <3> QED
      BY <1>0, <2>1, <3>1 DEF ClientTypes
  <2>3. CASE ~(Cardinality(Caught) >= want[c])
    <3>1. /\ pc' = [pc EXCEPT ![c] = "select"]
          /\ UNCHANGED <<value, want, timed, waits, target>>
      BY <1>5, <2>3 DEF WaitPoll
    <3> QED
      BY <1>0, <2>1, <3>1 DEF ClientTypes
  <2> QED
    BY <2>2, <2>3
<1>6. ASSUME NEW c \in Clients, WaitTimeout(c) PROVE ClientTypes'
  BY <1>0, <1>6 DEF ClientTypes, WaitTimeout, WaitReply
<1>7. CASE UNCHANGED <<clientVars, target>>
  BY <1>0, <1>7 DEF ClientTypes, clientVars
<1>8. ASSUME NEW r \in Replicas, Master(r) \/ Replica(r) \/ Die(r)
      PROVE  UNCHANGED <<clientVars, target>>
  BY <1>8 DEF Master, PsyncSendRdb, PsyncRegister, ReceiveAck, Replica, LinkTake,
              LinkStore, LocalTake, LocalStore, Die, history
<1>9. CASE UNCHANGED vars
  BY <1>7, <1>9 DEF vars, history
<1> QED
  BY <1>1, <1>2, <1>3, <1>4, <1>5, <1>6, <1>7, <1>8, <1>9 DEF Next, Set, Wait

\* Streams grow at the master's end and are taken at the replica's.
LEMMA StreamTypesStep == TypeOK /\ [Next]_vars => StreamTypes'
<1> SUFFICES ASSUME TypeOK, [Next]_vars PROVE StreamTypes'
  OBVIOUS
<1> DEFINE streams == <<link, acks, sent, order, got, answered>>
<1>0. StreamTypes
  BY DEF TypeOK
<1>1. ASSUME NEW c \in Clients, SetPropagate(c) PROVE StreamTypes'
  <2>1. value[c] \in 1 .. MaxWrites
    BY <1>1, ReplicationAssumption DEF TypeOK, ClientTypes, SetPropagate
  <2>2. order' \in Seq(1 .. MaxWrites)
    <3>1. order \in Seq(1 .. MaxWrites) /\ Append(order, value[c]) \in Seq(1 .. MaxWrites)
      BY <1>0, <2>1, AppendProperties DEF StreamTypes
    <3> QED
      BY <1>1, <3>1 DEF SetPropagate
  <2>3. link' \in [Replicas -> Seq(0 .. MaxWrites)] /\ sent' \in [Replicas -> Nat]
    <3>1. value[c] \in 0 .. MaxWrites
      BY <2>1
    <3> QED
      BY <1>0, <1>1, <3>1, BroadcastType DEF StreamTypes, SetPropagate
  <2> QED
    BY <1>0, <1>1, <2>2, <2>3 DEF StreamTypes, SetPropagate
<1>2. ASSUME NEW c \in Clients, WaitGetAck(c) PROVE StreamTypes'
  <2>1. GetAck \in 0 .. MaxWrites
    BY ReplicationAssumption DEF GetAck
  <2>2. link' \in [Replicas -> Seq(0 .. MaxWrites)] /\ sent' \in [Replicas -> Nat]
    BY <1>0, <1>2, <2>1, BroadcastType DEF StreamTypes, WaitGetAck
  <2> QED
    BY <1>0, <1>2, <2>2 DEF StreamTypes, WaitGetAck
<1>3. ASSUME NEW r \in Replicas, ReceiveAck(r) PROVE StreamTypes'
  <2>1. Tail(acks[r]) \in Seq(Nat)
    BY <1>0, <1>3, HeadTailProperties DEF StreamTypes, ReceiveAck
  <2> QED
    BY <1>0, <1>3, <2>1 DEF StreamTypes, ReceiveAck, history
<1>4. ASSUME NEW r \in Replicas, LinkTake(r) PROVE StreamTypes'
  <2>1. /\ Head(link[r]) \in 0 .. MaxWrites
        /\ Tail(link[r]) \in Seq(0 .. MaxWrites)
    BY <1>0, <1>4, HeadTailProperties DEF StreamTypes, LinkTake
  <2>2. link' \in [Replicas -> Seq(0 .. MaxWrites)]
    BY <1>0, <1>4, <2>1 DEF StreamTypes, LinkTake
  <2>3. CASE Head(link[r]) = GetAck
    <3>1. Append(acks[r], replOffset[r]) \in Seq(Nat)
      BY <1>0, AppendProperties DEF StreamTypes, TypeOK, ReplicaTypes
    <3>2. /\ acks' = [acks EXCEPT ![r] = Append(acks[r], replOffset[r])]
          /\ answered' = [answered EXCEPT ![r] = answered[r] + 1]
          /\ UNCHANGED <<sent, order, got>>
      BY <1>4, <2>3 DEF LinkTake
    <3> QED
      BY <1>0, <2>2, <3>1, <3>2 DEF StreamTypes
  <2>4. CASE Head(link[r]) # GetAck
    <3>1. Append(got[r], Head(link[r])) \in Seq(1 .. MaxWrites)
      <4>1. Head(link[r]) \in 1 .. MaxWrites
        BY <2>1, <2>4, ReplicationAssumption DEF GetAck
      <4>2. got[r] \in Seq(1 .. MaxWrites)
        BY <1>0 DEF StreamTypes
      <4> QED
        BY <4>1, <4>2, AppendProperties
    <3>2. /\ got' = [got EXCEPT ![r] = Append(got[r], Head(link[r]))]
          /\ UNCHANGED <<acks, answered, sent, order>>
      BY <1>4, <2>4 DEF LinkTake
    <3> QED
      BY <1>0, <2>2, <3>1, <3>2 DEF StreamTypes
  <2> QED
    BY <2>3, <2>4
<1>5. ASSUME NEW r \in Replicas, Die(r) PROVE StreamTypes'
  <2>1. <<>> \in Seq(0 .. MaxWrites)
    BY EmptySeq
  <2> QED
    BY <1>0, <1>5, <2>1 DEF StreamTypes, Die, history
<1>6. CASE UNCHANGED streams
  BY <1>0, <1>6 DEF StreamTypes
<1>7. ASSUME NEW c \in Clients,
             SetStore(c) \/ WaitPoll(c) \/ WaitTimeout(c)
             \/ \E n \in WaitFor, t \in Timeouts : WaitStart(c, n, t)
      PROVE  UNCHANGED streams
  BY <1>7 DEF SetStore, WaitPoll, WaitTimeout, WaitStart, history
<1>8. ASSUME NEW r \in Replicas,
             PsyncSendRdb(r) \/ PsyncRegister(r) \/ LinkStore(r) \/ LocalStore(r)
             \/ \E cmd \in LocalCommands : LocalTake(r, cmd)
      PROVE  UNCHANGED streams
  BY <1>8 DEF PsyncSendRdb, PsyncRegister, LinkStore, LocalStore, LocalTake, history
<1>9. CASE UNCHANGED vars
  BY <1>6, <1>9 DEF vars, history
<1> QED
  BY <1>1, <1>2, <1>3, <1>4, <1>5, <1>6, <1>7, <1>8, <1>9
  DEF Next, Set, Wait, Master, Replica

\* Only the replicas' goroutines, and their deaths, change their variables.
LEMMA ReplicaTypesStep == TypeOK /\ [Next]_vars => ReplicaTypes'
<1> SUFFICES ASSUME TypeOK, [Next]_vars PROVE ReplicaTypes'
  OBVIOUS
<1>0. ReplicaTypes
  BY DEF TypeOK
<1>1. ASSUME NEW r \in Replicas, LinkTake(r) PROVE ReplicaTypes'
  <2>1. Head(link[r]) \in -1 .. MaxWrites
    <3>1. link[r] \in Seq(0 .. MaxWrites) /\ link[r] # <<>>
      BY <1>1 DEF TypeOK, StreamTypes, LinkTake
    <3>2. Head(link[r]) \in 0 .. MaxWrites
      BY <3>1, HeadTailProperties
    <3> QED
      BY <3>2, ReplicationAssumption
  <2>2. [loaded |-> replOffset[r], add |-> Size(Head(link[r]))] \in Access
    BY <1>0, SizeType DEF ReplicaTypes, Access
  <2>3. linkAccess' \in [Replicas -> Access] /\ store' \in [Replicas -> -1 .. MaxWrites]
    BY <1>0, <1>1, <2>1, <2>2 DEF ReplicaTypes, LinkTake
  <2> QED
    BY <1>0, <1>1, <2>3 DEF ReplicaTypes, LinkTake
<1>2. ASSUME NEW r \in Replicas, LinkStore(r) PROVE ReplicaTypes'
  <2>1. linkAccess[r].loaded + linkAccess[r].add \in Nat
    BY <1>0, <1>2 DEF ReplicaTypes, Access, LinkStore
  <2>2. NoAccess \in Access
    BY DEF Access
  <2> QED
    BY <1>0, <1>2, <2>1, <2>2 DEF ReplicaTypes, LinkStore
<1>3. ASSUME NEW r \in Replicas, NEW cmd \in LocalCommands, LocalTake(r, cmd)
      PROVE  ReplicaTypes'
  <2>1. LocalSize(cmd) \in Nat \ {0}
    BY ReplicationAssumption DEF LocalSize
  <2>2. [loaded |-> replOffset[r], add |-> LocalSize(cmd)] \in Access
    BY <1>0, <2>1 DEF ReplicaTypes, Access
  <2>3. locals[r] + LocalSize(cmd) \in 0 .. MaxLocal
    BY <1>0, <1>3, <2>1, ReplicationAssumption DEF ReplicaTypes, LocalTake
  <2>4. store' \in [Replicas -> -1 .. MaxWrites]
    BY <1>0, <1>3, ReplicationAssumption DEF ReplicaTypes, LocalTake
  <2> QED
    BY <1>0, <1>3, <2>2, <2>3, <2>4 DEF ReplicaTypes, LocalTake
<1>4. ASSUME NEW r \in Replicas, LocalStore(r) PROVE ReplicaTypes'
  <2>1. localAccess[r].loaded + localAccess[r].add \in Nat
    BY <1>0, <1>4 DEF ReplicaTypes, Access, LocalStore
  <2>2. NoAccess \in Access
    BY DEF Access
  <2> QED
    BY <1>0, <1>4, <2>1, <2>2 DEF ReplicaTypes, LocalStore
<1>5. ASSUME NEW r \in Replicas, Die(r) PROVE ReplicaTypes'
  BY <1>0, <1>5 DEF ReplicaTypes, Die
<1>6. CASE UNCHANGED replicaVars
  BY <1>0, <1>6 DEF ReplicaTypes, replicaVars
<1>7. ASSUME NEW c \in Clients, Set(c) \/ Wait(c) PROVE UNCHANGED replicaVars
  BY <1>7 DEF Set, SetStore, SetPropagate, Wait, WaitStart, WaitGetAck, WaitPoll,
              WaitTimeout
<1>8. ASSUME NEW r \in Replicas, Master(r) PROVE UNCHANGED replicaVars
  BY <1>8 DEF Master, PsyncSendRdb, PsyncRegister, ReceiveAck
<1>9. CASE UNCHANGED vars
  BY <1>6, <1>9 DEF vars
<1> QED
  BY <1>1, <1>2, <1>3, <1>4, <1>5, <1>6, <1>7, <1>8, <1>9 DEF Next, Replica

\* Every step of every handler keeps the types.
LEMMA TypeStep == TypeOK /\ [Next]_vars => TypeOK'
BY MasterTypesStep, ClientTypesStep, StreamTypesStep, ReplicaTypesStep DEF TypeOK

\* The state before anybody connects has them.
LEMMA TypeInit == Init => TypeOK
<1> SUFFICES ASSUME Init PROVE TypeOK
  OBVIOUS
<1>1. MasterTypes
  BY ReplicationAssumption DEF Init, MasterTypes
<1>2. ClientTypes
  BY ReplicationAssumption DEF Init, ClientTypes
<1>3. StreamTypes
  BY EmptySeq DEF Init, StreamTypes
<1>4. ReplicaTypes
  BY ReplicationAssumption DEF Init, ReplicaTypes, Access
<1> QED
  BY <1>1, <1>2, <1>3, <1>4 DEF TypeOK

\* Every state of every run has its types.
THEOREM TypeCorrect == Spec => []TypeOK
BY TypeInit, TypeStep, PTL DEF Spec

-----------------------------------------------------------------------------
(* What an acknowledged offset proves.  Every offset in the system, stored, *)
(* being stored, on its way or recorded by the master, is bounded by what   *)
(* the replica has taken in; an acknowledged one is bounded by what it had  *)
(* taken in before the GETACK it answers.                                  *)

\* Bytes of the SETs a replica has taken and of the GETACKs it has answered.
SetBytes(r) == SetSize * Len(got[r])
AckBytes(r) == GetAckSize * answered[r]

\* All it has counted or may be about to count, and the same without the last
\* GETACK it answered.
Taken(r)       == SetBytes(r) + AckBytes(r) + locals[r]
TakenBefore(r) == Taken(r) - GetAckSize

AccessBounded(access, r) == access # NoAccess => access.loaded + access.add <= Taken(r)

OffsetsBounded(r) ==
  /\ replOffset[r] <= Taken(r)
  /\ AccessBounded(linkAccess[r], r)
  /\ AccessBounded(localAccess[r], r)
  /\ \A i \in DOMAIN acks[r] : acks[r][i] <= TakenBefore(r)
  /\ acked[r] > 0 => acked[r] <= TakenBefore(r)

AckInv == TypeOK /\ \A r \in Replicas : OffsetsBounded(r)

TakenTypes ==
  \A r \in Replicas : SetBytes(r) \in Nat /\ AckBytes(r) \in Nat /\ Taken(r) \in Nat

\* What a replica has taken in is a number of bytes.
LEMMA TakenType == TypeOK => TakenTypes
<1> SUFFICES ASSUME TypeOK, NEW r \in Replicas
             PROVE  SetBytes(r) \in Nat /\ AckBytes(r) \in Nat /\ Taken(r) \in Nat
  BY DEF TakenTypes
<1>1. Len(got[r]) \in Nat
  BY LenProperties DEF TypeOK, StreamTypes
<1>2. answered[r] \in Nat /\ locals[r] \in Nat
  BY ReplicationAssumption DEF TypeOK, StreamTypes, ReplicaTypes
<1>3. SetBytes(r) \in Nat /\ AckBytes(r) \in Nat
  BY <1>1, <1>2, ReplicationAssumption DEF SetBytes, AckBytes
<1> QED
  BY <1>2, <1>3 DEF Taken

\* The same one step later.
LEMMA TakenTypeNext == TypeOK' => TakenTypes'
BY TakenType, PTL

\* A replica that takes nothing in keeps its bounds.
LEMMA TakenUnchanged ==
  ASSUME NEW r \in Replicas,
         got'[r] = got[r], answered'[r] = answered[r], locals'[r] = locals[r]
  PROVE  Taken(r)' = Taken(r) /\ TakenBefore(r)' = TakenBefore(r)
BY DEF Taken, TakenBefore, SetBytes, AckBytes

\* ... if none of its offsets changes either.
LEMMA BoundsUnchanged ==
  ASSUME NEW r \in Replicas, OffsetsBounded(r),
         got'[r] = got[r], answered'[r] = answered[r], locals'[r] = locals[r],
         replOffset'[r] = replOffset[r], linkAccess'[r] = linkAccess[r],
         localAccess'[r] = localAccess[r], acks'[r] = acks[r], acked'[r] = acked[r]
  PROVE  OffsetsBounded(r)'
<1>1. Taken(r)' = Taken(r) /\ TakenBefore(r)' = TakenBefore(r)
  BY TakenUnchanged
<1>2. replOffset'[r] <= Taken(r)'
  BY <1>1 DEF OffsetsBounded
<1>3. AccessBounded(linkAccess[r], r)' /\ AccessBounded(localAccess[r], r)'
  BY <1>1 DEF OffsetsBounded, AccessBounded
<1>4. /\ \A i \in DOMAIN acks'[r] : acks'[r][i] <= TakenBefore(r)'
      /\ acked'[r] > 0 => acked'[r] <= TakenBefore(r)'
  BY <1>1 DEF OffsetsBounded
<1> QED
  BY <1>2, <1>3, <1>4 DEF OffsetsBounded

\* The link's goroutine takes a SET or answers a GETACK.
LEMMA BoundsLinkTake ==
  ASSUME AckInv, TypeOK', NEW r \in Replicas, LinkTake(r)
  PROVE  OffsetsBounded(r)'
<1> DEFINE msg == Head(link[r])
<1>a. TypeOK /\ OffsetsBounded(r) /\ link[r] # <<>>
  BY DEF AckInv, LinkTake
<1>b. replOffset' = replOffset /\ localAccess' = localAccess /\ locals' = locals /\ acked' = acked
  BY DEF LinkTake, masterVars
<1>c. replOffset[r] \in Nat /\ locals[r] \in Nat /\ localAccess[r] \in Access
  BY <1>a, ReplicationAssumption DEF TypeOK, ReplicaTypes
<1>d. got[r] \in Seq(1 .. MaxWrites) /\ answered[r] \in Nat /\ acks[r] \in Seq(Nat)
  BY <1>a DEF TypeOK, StreamTypes
<1>e. acked[r] \in Nat
  BY <1>a DEF TypeOK, MasterTypes
<1>0. /\ TypeOK /\ OffsetsBounded(r)
      /\ replOffset[r] \in Nat /\ replOffset' = replOffset
      /\ localAccess' = localAccess /\ locals' = locals /\ acked' = acked
  BY <1>a, <1>b, <1>c
<1>1. linkAccess'[r] = [loaded |-> replOffset[r], add |-> Size(msg)]
  BY <1>a DEF TypeOK, ReplicaTypes, LinkTake
<1>2. /\ SetBytes(r) \in Nat /\ AckBytes(r) \in Nat /\ Taken(r) \in Nat
      /\ Taken(r)' \in Nat
  BY <1>a, TakenType, TakenTypeNext DEF TakenTypes
<1>3. Taken(r)' = Taken(r) + Size(msg)
  <2>1. CASE msg = GetAck
    <3>1. got'[r] = got[r] /\ answered'[r] = answered[r] + 1
      BY <1>a, <2>1 DEF TypeOK, StreamTypes, LinkTake
    <3>2. AckBytes(r)' = AckBytes(r) + GetAckSize
      BY <1>d, <3>1, ReplicationAssumption DEF AckBytes
    <3>3. SetBytes(r)' = SetBytes(r)
      BY <3>1 DEF SetBytes
    <3> QED
      BY <1>b, <1>c, <1>2, <2>1, <3>2, <3>3, ReplicationAssumption DEF Taken, Size
  <2>2. CASE msg # GetAck
    <3>1. got'[r] = Append(got[r], msg) /\ answered'[r] = answered[r]
      BY <1>a, <2>2 DEF TypeOK, StreamTypes, LinkTake
    <3>2. Len(got'[r]) = Len(got[r]) + 1 /\ Len(got[r]) \in Nat
      BY <1>d, <3>1
    <3>3. SetBytes(r)' = SetBytes(r) + SetSize
      BY <3>2, ReplicationAssumption DEF SetBytes
    <3>4. AckBytes(r)' = AckBytes(r)
      BY <3>1 DEF AckBytes
    <3> QED
      BY <1>b, <1>c, <1>2, <2>2, <3>3, <3>4, ReplicationAssumption DEF Taken, Size
  <2> QED
    BY <2>1, <2>2
<1>4. Size(msg) \in Nat /\ GetAckSize \in Nat
  BY SizeType, ReplicationAssumption
<1>5. replOffset'[r] <= Taken(r)' /\ AccessBounded(linkAccess[r], r)'
  BY <1>0, <1>1, <1>2, <1>3, <1>4 DEF OffsetsBounded, AccessBounded
<1>6. AccessBounded(localAccess[r], r)'
  <2>1. localAccess[r] # NoAccess => localAccess[r].loaded + localAccess[r].add \in Nat
    BY <1>c DEF Access
  <2> QED
    BY <1>0, <1>2, <1>3, <1>4, <2>1 DEF OffsetsBounded, AccessBounded
<1>7. acked'[r] > 0 => acked'[r] <= TakenBefore(r)'
  BY <1>0, <1>2, <1>3, <1>4, <1>e DEF OffsetsBounded, TakenBefore
<1>8. \A i \in DOMAIN acks'[r] : acks'[r][i] <= TakenBefore(r)'
  <2>1. ASSUME NEW i \in DOMAIN acks[r] PROVE acks[r][i] <= TakenBefore(r)'
    <3>1. acks[r][i] \in Nat
      BY <1>d
    <3>2. acks[r][i] <= TakenBefore(r)
      BY <1>0 DEF OffsetsBounded
    <3> QED
      BY <1>2, <1>3, <1>4, <3>1, <3>2 DEF TakenBefore
  <2>2. CASE msg = GetAck
    <3>1. acks'[r] = Append(acks[r], replOffset[r])
      BY <1>a, <2>2 DEF TypeOK, StreamTypes, LinkTake
    <3>2. replOffset[r] <= TakenBefore(r)'
      BY <1>0, <1>2, <1>3, <2>2, ReplicationAssumption DEF Size, OffsetsBounded, TakenBefore
    <3>3. \A i \in DOMAIN acks'[r] :
            acks'[r][i] = replOffset[r] \/ (i \in DOMAIN acks[r] /\ acks'[r][i] = acks[r][i])
      BY <1>d, <1>c, <3>1, AppendProperties
    <3> QED
      BY <2>1, <3>2, <3>3
  <2>3. CASE msg # GetAck
    <3>1. acks' = acks
      BY <2>3 DEF LinkTake
    <3> QED
      BY <2>1, <3>1
  <2> QED
    BY <2>2, <2>3
<1> QED
  BY <1>5, <1>6, <1>7, <1>8 DEF OffsetsBounded

\* A stored offset was bounded when it was loaded.
LEMMA BoundsLinkStore ==
  ASSUME AckInv, NEW r \in Replicas, LinkStore(r)
  PROVE  OffsetsBounded(r)'
<1>1. TypeOK /\ OffsetsBounded(r)
  BY DEF AckInv
<1>2. /\ replOffset'[r] = linkAccess[r].loaded + linkAccess[r].add
      /\ linkAccess[r] # NoAccess /\ linkAccess'[r] = NoAccess
  BY <1>1 DEF TypeOK, ReplicaTypes, LinkStore
<1>3. /\ got' = got /\ answered' = answered /\ locals' = locals /\ acks' = acks
      /\ acked' = acked /\ localAccess' = localAccess
  BY DEF LinkStore, history, masterVars
<1>4. Taken(r)' = Taken(r) /\ TakenBefore(r)' = TakenBefore(r)
  BY <1>3, TakenUnchanged
<1>5. replOffset'[r] <= Taken(r)'
  BY <1>1, <1>2, <1>4 DEF OffsetsBounded, AccessBounded
<1>6. AccessBounded(linkAccess[r], r)' /\ AccessBounded(localAccess[r], r)'
  BY <1>1, <1>2, <1>3, <1>4 DEF OffsetsBounded, AccessBounded
<1>7. /\ \A i \in DOMAIN acks'[r] : acks'[r][i] <= TakenBefore(r)'
      /\ acked'[r] > 0 => acked'[r] <= TakenBefore(r)'
  BY <1>1, <1>3, <1>4 DEF OffsetsBounded
<1> QED
  BY <1>5, <1>6, <1>7 DEF OffsetsBounded

\* The same of a goroutine that serves the replica's own clients.
LEMMA BoundsLocalStore ==
  ASSUME AckInv, NEW r \in Replicas, LocalStore(r)
  PROVE  OffsetsBounded(r)'
<1>1. TypeOK /\ OffsetsBounded(r)
  BY DEF AckInv
<1>2. /\ replOffset'[r] = localAccess[r].loaded + localAccess[r].add
      /\ localAccess[r] # NoAccess /\ localAccess'[r] = NoAccess
  BY <1>1 DEF TypeOK, ReplicaTypes, LocalStore
<1>3. /\ got' = got /\ answered' = answered /\ locals' = locals /\ acks' = acks
      /\ acked' = acked /\ linkAccess' = linkAccess
  BY DEF LocalStore, history, masterVars
<1>4. Taken(r)' = Taken(r) /\ TakenBefore(r)' = TakenBefore(r)
  BY <1>3, TakenUnchanged
<1>5. replOffset'[r] <= Taken(r)'
  BY <1>1, <1>2, <1>4 DEF OffsetsBounded, AccessBounded
<1>6. AccessBounded(linkAccess[r], r)' /\ AccessBounded(localAccess[r], r)'
  BY <1>1, <1>2, <1>3, <1>4 DEF OffsetsBounded, AccessBounded
<1>7. /\ \A i \in DOMAIN acks'[r] : acks'[r][i] <= TakenBefore(r)'
      /\ acked'[r] > 0 => acked'[r] <= TakenBefore(r)'
  BY <1>1, <1>3, <1>4 DEF OffsetsBounded
<1> QED
  BY <1>5, <1>6, <1>7 DEF OffsetsBounded

\* A command of the replica's own clients: it is counted as taken, too.
LEMMA BoundsLocalTake ==
  ASSUME AckInv, TypeOK', NEW r \in Replicas, NEW cmd \in LocalCommands, LocalTake(r, cmd)
  PROVE  OffsetsBounded(r)'
<1>1. TypeOK /\ OffsetsBounded(r)
  BY DEF AckInv
<1>2. /\ locals'[r] = locals[r] + LocalSize(cmd)
      /\ localAccess'[r] = [loaded |-> replOffset[r], add |-> LocalSize(cmd)]
  BY <1>1 DEF TypeOK, ReplicaTypes, LocalTake
<1>3. /\ got' = got /\ answered' = answered /\ acks' = acks
      /\ acked' = acked /\ linkAccess' = linkAccess /\ replOffset' = replOffset
  BY DEF LocalTake, history, masterVars
<1>4. LocalSize(cmd) \in Nat /\ GetAckSize \in Nat
  BY ReplicationAssumption DEF LocalSize
<1>5. /\ locals[r] \in Nat /\ replOffset[r] \in Nat /\ acked[r] \in Nat
      /\ linkAccess[r] \in Access /\ acks[r] \in Seq(Nat)
  BY <1>1, ReplicationAssumption DEF TypeOK, MasterTypes, StreamTypes, ReplicaTypes
<1>6. SetBytes(r) \in Nat /\ AckBytes(r) \in Nat /\ Taken(r) \in Nat
  BY <1>1, TakenType DEF TakenTypes
<1>7. Taken(r)' = Taken(r) + LocalSize(cmd)
  <2>1. SetBytes(r)' = SetBytes(r) /\ AckBytes(r)' = AckBytes(r)
    BY <1>3 DEF SetBytes, AckBytes
  <2> QED
    BY <1>2, <1>4, <1>5, <1>6, <2>1 DEF Taken
<1>8. replOffset'[r] <= Taken(r)' /\ AccessBounded(localAccess[r], r)'
  BY <1>1, <1>2, <1>3, <1>4, <1>5, <1>6, <1>7 DEF OffsetsBounded, AccessBounded
<1>9. AccessBounded(linkAccess[r], r)'
  <2>1. linkAccess[r] # NoAccess => linkAccess[r].loaded + linkAccess[r].add \in Nat
    BY <1>5 DEF Access
  <2> QED
    BY <1>1, <1>3, <1>4, <1>6, <1>7, <2>1 DEF OffsetsBounded, AccessBounded
<1>10. ASSUME NEW i \in DOMAIN acks'[r] PROVE acks'[r][i] <= TakenBefore(r)'
  <2>1. acks'[r][i] \in Nat /\ acks'[r][i] <= TakenBefore(r)
    BY <1>1, <1>3, <1>5 DEF OffsetsBounded
  <2> QED
    BY <1>4, <1>6, <1>7, <2>1 DEF TakenBefore
<1>11. acked'[r] > 0 => acked'[r] <= TakenBefore(r)'
  BY <1>1, <1>3, <1>4, <1>5, <1>6, <1>7 DEF OffsetsBounded, TakenBefore
<1> QED
  BY <1>8, <1>9, <1>10, <1>11 DEF OffsetsBounded

\* The master records the first offset of the stream.
LEMMA BoundsReceiveAck ==
  ASSUME AckInv, NEW r \in Replicas, ReceiveAck(r)
  PROVE  OffsetsBounded(r)'
<1>1. TypeOK /\ OffsetsBounded(r) /\ acks[r] # <<>>
  BY DEF AckInv, ReceiveAck
<1>2. acked'[r] = Head(acks[r]) /\ acks'[r] = Tail(acks[r])
  BY <1>1 DEF TypeOK, MasterTypes, StreamTypes, ReceiveAck
<1>3. /\ got' = got /\ answered' = answered /\ locals' = locals
      /\ localAccess' = localAccess /\ linkAccess' = linkAccess /\ replOffset' = replOffset
  BY DEF ReceiveAck, history, replicaVars
<1>4. acks[r] \in Seq(Nat)
  BY <1>1 DEF TypeOK, StreamTypes
<1>5. Taken(r)' = Taken(r) /\ TakenBefore(r)' = TakenBefore(r)
  BY <1>3, TakenUnchanged
<1>6. /\ replOffset'[r] <= Taken(r)'
      /\ AccessBounded(linkAccess[r], r)' /\ AccessBounded(localAccess[r], r)'
  BY <1>1, <1>3, <1>5 DEF OffsetsBounded, AccessBounded
<1>7. acked'[r] <= TakenBefore(r)'
  <2>1. 1 \in DOMAIN acks[r] /\ Head(acks[r]) = acks[r][1]
    BY <1>1, <1>4
  <2> QED
    BY <1>1, <1>2, <1>5, <2>1 DEF OffsetsBounded
<1>8. ASSUME NEW i \in DOMAIN acks'[r] PROVE acks'[r][i] <= TakenBefore(r)'
  <2>1. i + 1 \in DOMAIN acks[r] /\ Tail(acks[r])[i] = acks[r][i + 1]
    BY <1>1, <1>2, <1>4, HeadTailProperties
  <2> QED
    BY <1>1, <1>2, <1>5, <2>1 DEF OffsetsBounded
<1> QED
  BY <1>6, <1>7, <1>8 DEF OffsetsBounded

\* Nothing else touches what bounds a replica's offsets.
LEMMA BoundsOthers ==
  ASSUME AckInv, NEW r \in Replicas,
         \/ UNCHANGED <<got, answered, locals, replOffset, linkAccess, localAccess, acks, acked>>
         \/ \E q \in Replicas \ {r} :
              \/ ReceiveAck(q) \/ LinkTake(q) \/ LinkStore(q) \/ LocalStore(q)
              \/ \E cmd \in LocalCommands : LocalTake(q, cmd)
  PROVE  OffsetsBounded(r)'
<1>1. TypeOK /\ OffsetsBounded(r)
  BY DEF AckInv
<1>2. CASE UNCHANGED <<got, answered, locals, replOffset, linkAccess, localAccess, acks, acked>>
  BY <1>1, <1>2, BoundsUnchanged
<1>3. /\ acked \in [Replicas -> Nat] /\ acks \in [Replicas -> Seq(Nat)]
      /\ got \in [Replicas -> Seq(1 .. MaxWrites)] /\ answered \in [Replicas -> Nat]
      /\ replOffset \in [Replicas -> Nat] /\ linkAccess \in [Replicas -> Access]
      /\ localAccess \in [Replicas -> Access] /\ locals \in [Replicas -> 0 .. MaxLocal]
  BY <1>1 DEF TypeOK, MasterTypes, StreamTypes, ReplicaTypes
<1> DEFINE sameForR ==
             /\ got'[r] = got[r] /\ answered'[r] = answered[r] /\ locals'[r] = locals[r]
             /\ replOffset'[r] = replOffset[r] /\ linkAccess'[r] = linkAccess[r]
             /\ localAccess'[r] = localAccess[r] /\ acks'[r] = acks[r] /\ acked'[r] = acked[r]
<1>4. ASSUME NEW q \in Replicas \ {r}, ReceiveAck(q) PROVE sameForR
  BY <1>3, <1>4 DEF ReceiveAck, history, replicaVars
<1>5. ASSUME NEW q \in Replicas \ {r}, LinkTake(q) PROVE sameForR
  <2>1. /\ got'[r] = got[r] /\ answered'[r] = answered[r] /\ acks'[r] = acks[r]
    BY <1>3, <1>5 DEF LinkTake
  <2>2. linkAccess'[r] = linkAccess[r]
    BY <1>3, <1>5 DEF LinkTake
  <2> QED
    BY <1>5, <2>1, <2>2 DEF LinkTake, masterVars
<1>6. ASSUME NEW q \in Replicas \ {r}, LinkStore(q) PROVE sameForR
  BY <1>3, <1>6 DEF LinkStore, history, masterVars
<1>7. ASSUME NEW q \in Replicas \ {r}, LocalStore(q) PROVE sameForR
  BY <1>3, <1>7 DEF LocalStore, history, masterVars
<1>8. ASSUME NEW q \in Replicas \ {r}, NEW cmd \in LocalCommands, LocalTake(q, cmd)
      PROVE  sameForR
  BY <1>3, <1>8 DEF LocalTake, history, masterVars
<1>9. sameForR => OffsetsBounded(r)'
  BY <1>1, BoundsUnchanged
<1> QED
  BY <1>2, <1>4, <1>5, <1>6, <1>7, <1>8, <1>9

\* Before the first step nothing has been taken in and nothing acknowledged.
LEMMA AckInit == Init => AckInv
<1> SUFFICES ASSUME Init, NEW r \in Replicas PROVE OffsetsBounded(r)
  BY TypeInit DEF AckInv
<1>1. TakenTypes /\ acks[r] = <<>> /\ acked[r] = 0 /\ replOffset[r] = 0
  BY TypeInit, TakenType DEF Init
<1>2. linkAccess[r] = NoAccess /\ localAccess[r] = NoAccess
  BY DEF Init
<1>3. DOMAIN acks[r] = {}
  BY <1>1, EmptySeq
<1> QED
  BY <1>1, <1>2, <1>3 DEF OffsetsBounded, AccessBounded, TakenTypes

\* Every step keeps the bounds: SET, WAIT, PSYNC and a death touch none of them.
LEMMA AckStep == AckInv /\ [Next]_vars => AckInv'
<1> SUFFICES ASSUME AckInv, [Next]_vars PROVE AckInv'
  OBVIOUS
<1>0. TypeOK /\ TypeOK'
  BY TypeStep DEF AckInv
<1> SUFFICES ASSUME NEW r \in Replicas PROVE OffsetsBounded(r)'
  BY <1>0 DEF AckInv
<1> DEFINE same == UNCHANGED <<got, answered, locals, replOffset, linkAccess, localAccess,
                               acks, acked>>
<1>1. ASSUME NEW c \in Clients, Set(c) \/ Wait(c) PROVE same
  BY <1>1 DEF Set, SetStore, SetPropagate, Wait, WaitStart, WaitGetAck, WaitPoll,
              WaitTimeout, masterVars, replicaVars, history
<1>2. ASSUME NEW q \in Replicas, PsyncSendRdb(q) \/ PsyncRegister(q) \/ Die(q) PROVE same
  BY <1>2 DEF PsyncSendRdb, PsyncRegister, Die, masterVars, replicaVars, history
<1>3. CASE UNCHANGED vars
  <2>1. same
    BY <1>3 DEF vars, masterVars, replicaVars, history
  <2> QED
    BY <2>1, BoundsOthers
<1>4. ASSUME NEW q \in Replicas,
             \/ ReceiveAck(q) \/ LinkTake(q) \/ LinkStore(q) \/ LocalStore(q)
             \/ \E cmd \in LocalCommands : LocalTake(q, cmd)
      PROVE  OffsetsBounded(r)'
  <2>1. CASE q # r
    BY <1>4, <2>1, BoundsOthers
  <2>2. CASE q = r
    BY <1>0, <1>4, <2>2, BoundsReceiveAck, BoundsLinkTake, BoundsLinkStore,
       BoundsLocalTake, BoundsLocalStore
  <2> QED
    BY <2>1, <2>2
<1>5. CASE same
  BY <1>5, BoundsOthers
<1> QED
  BY <1>1, <1>2, <1>3, <1>4, <1>5 DEF Next, Master, Replica

\* What an acknowledged offset proves, for any number of replicas and clients
\* and any sizes: the replica has stored SETs of that many bytes, less the
\* GETACKs it answered before the last one and its own clients' commands
\* (handlers.go:855-869, 882-892).
THEOREM AckedOffsetsCoverSets == Spec => []AckCoversSets
<1>1. AckInv => AckCoversSets
  <2> SUFFICES ASSUME AckInv, NEW r \in Replicas, acked[r] > 0
               PROVE  acked[r] <= SetSize * Len(got[r]) + GetAckSize * (answered[r] - 1)
                                    + locals[r]
    BY DEF AckCoversSets
  <2>1. TypeOK /\ acked[r] <= TakenBefore(r)
    BY DEF AckInv, OffsetsBounded
  <2>2. answered[r] \in Nat /\ GetAckSize \in Nat /\ locals[r] \in Nat
    BY <2>1, ReplicationAssumption DEF TypeOK, StreamTypes, ReplicaTypes
  <2>3. GetAckSize * (answered[r] - 1) = AckBytes(r) - GetAckSize
    BY <2>2 DEF AckBytes
  <2>4. AckBytes(r) \in Nat /\ SetBytes(r) \in Nat
    BY <2>1, TakenType DEF TakenTypes
  <2>5. TakenBefore(r) = SetBytes(r) + (AckBytes(r) - GetAckSize) + locals[r]
    BY <2>2, <2>4 DEF TakenBefore, Taken
  <2> QED
    BY <2>1, <2>3, <2>5 DEF SetBytes
<1> QED
  BY <1>1, AckInit, AckStep, PTL DEF Spec

-----------------------------------------------------------------------------
(* How many SETs a stream carries. *)

\* A stream's places are numbered from 1.
LEMMA StreamLength ==
  \A s \in Seq(Nat) : Len(s) \in Nat /\ DOMAIN s = 1 .. Len(s) /\ (s # <<>> => Len(s) # 0)
<1> SUFFICES ASSUME NEW s \in Seq(Nat)
             PROVE  Len(s) \in Nat /\ DOMAIN s = 1 .. Len(s) /\ (s # <<>> => Len(s) # 0)
  OBVIOUS
<1> QED
  BY LenProperties, EmptySeq

SetPlaces(msgs, i) == {k \in i .. Len(msgs) : IsSet(msgs[k])}

\* A finite number, none beyond the end of the stream.
LEMMA SetsFromType ==
  ASSUME NEW s \in Seq(Nat), NEW i \in Nat
  PROVE  /\ IsFiniteSet(SetPlaces(s, i))
         /\ SetsFrom(s, i) = Cardinality(SetPlaces(s, i))
         /\ SetsFrom(s, i) \in Nat
         /\ i > Len(s) => SetsFrom(s, i) = 0
<1>1. Len(s) \in Nat
  BY LenProperties
<1>2. IsFiniteSet(i .. Len(s))
  BY <1>1, FS_Interval
<1>3. SetPlaces(s, i) \in SUBSET (i .. Len(s))
  BY DEF SetPlaces
<1>4. IsFiniteSet(SetPlaces(s, i))
  BY <1>2, <1>3, FS_Subset
<1>5. SetsFrom(s, i) = Cardinality(SetPlaces(s, i))
  BY DEF SetsFrom, SetPlaces
<1>6. SetsFrom(s, i) \in Nat
  BY <1>4, <1>5, FS_CardinalityType
<1>7. ASSUME i > Len(s) PROVE SetsFrom(s, i) = 0
  <2>1. SetPlaces(s, i) = {}
    BY <1>1, <1>3, <1>7
  <2> QED
    BY <2>1, <1>5, FS_EmptySet
<1> QED
  BY <1>4, <1>5, <1>6, <1>7

\* A message appended counts if it is a SET.
LEMMA SetsFromAppend ==
  ASSUME NEW s \in Seq(Nat), NEW m \in Nat, NEW i \in 1 .. Len(s) + 1
  PROVE  SetsFrom(Append(s, m), i) = SetsFrom(s, i) + (IF IsSet(m) THEN 1 ELSE 0)
<1> DEFINE t == Append(s, m)
<1>1. Len(s) \in Nat /\ i \in Nat
  BY LenProperties
<1>2. /\ t \in Seq(Nat) /\ Len(t) = Len(s) + 1
      /\ \A k \in 1 .. Len(s) : t[k] = s[k]
      /\ t[Len(s) + 1] = m
  BY AppendProperties
<1>3. /\ IsFiniteSet(SetPlaces(s, i)) /\ SetsFrom(s, i) = Cardinality(SetPlaces(s, i))
      /\ SetsFrom(s, i) \in Nat
  BY <1>1, SetsFromType
<1>4. SetsFrom(t, i) = Cardinality(SetPlaces(t, i))
  BY <1>1, <1>2, SetsFromType
<1> HIDE DEF t
<1>5. ASSUME NEW k, k # Len(s) + 1
      PROVE  k \in SetPlaces(t, i) <=> k \in SetPlaces(s, i)
  <2>1. k \in i .. Len(t) <=> k \in i .. Len(s)
    BY <1>1, <1>2, <1>5
  <2>2. k \in i .. Len(s) => t[k] = s[k]
    BY <1>1, <1>2
  <2> QED
    BY <2>1, <2>2 DEF SetPlaces
<1>6. /\ Len(s) + 1 \in SetPlaces(t, i) <=> IsSet(m)
      /\ Len(s) + 1 \notin SetPlaces(s, i)
  <2>1. Len(s) + 1 \in i .. Len(t) /\ ~(Len(s) + 1 \in i .. Len(s))
    BY <1>1, <1>2
  <2> QED
    BY <1>2, <2>1 DEF SetPlaces
<1>7. CASE IsSet(m)
  <2>1. SetPlaces(t, i) = SetPlaces(s, i) \cup {Len(s) + 1}
    <3>1. ASSUME NEW k
          PROVE  k \in SetPlaces(t, i) <=> k \in SetPlaces(s, i) \/ k = Len(s) + 1
      <4>1. CASE k = Len(s) + 1
        BY <1>6, <1>7, <4>1
      <4> QED
        BY <1>5, <4>1
    <3> QED
      BY <3>1
  <2>2. Len(s) + 1 \notin SetPlaces(s, i)
    BY <1>1 DEF SetPlaces
  <2>3. Cardinality(SetPlaces(t, i)) = Cardinality(SetPlaces(s, i)) + 1
    <3>1. Cardinality(SetPlaces(s, i) \cup {Len(s) + 1}) = Cardinality(SetPlaces(s, i)) + 1
      BY <1>3, <2>2, FS_AddElement
    <3> QED
      BY <2>1, <3>1
  <2> QED
    BY <1>3, <1>4, <1>7, <2>3 DEF t
<1>8. CASE ~IsSet(m)
  <2>1. ASSUME NEW k PROVE k \in SetPlaces(t, i) <=> k \in SetPlaces(s, i)
    <3>1. CASE k = Len(s) + 1
      BY <1>6, <1>8, <3>1
    <3> QED
      BY <1>5, <3>1
  <2>2. SetPlaces(t, i) \subseteq SetPlaces(s, i) /\ SetPlaces(s, i) \subseteq SetPlaces(t, i)
    BY <2>1
  <2>3. SetsFrom(t, i) = SetsFrom(s, i)
    <3>1. SetPlaces(t, i) = SetPlaces(s, i)
      BY <2>2
    <3> QED
      BY <1>3, <1>4, <3>1
  <2> QED
    BY <1>3, <1>8, <2>3 DEF t, IsSet
<1> QED
  BY <1>7, <1>8

\* The message at i counts if it is a SET.
LEMMA SetsFromHead ==
  ASSUME NEW s \in Seq(Nat), NEW i \in 1 .. Len(s)
  PROVE  SetsFrom(s, i) = SetsFrom(s, i + 1) + (IF IsSet(s[i]) THEN 1 ELSE 0)
<1>1. Len(s) \in Nat /\ i \in Nat /\ i + 1 \in Nat
  BY LenProperties
<1>2. /\ IsFiniteSet(SetPlaces(s, i + 1)) /\ SetsFrom(s, i + 1) \in Nat
      /\ SetsFrom(s, i + 1) = Cardinality(SetPlaces(s, i + 1))
      /\ SetsFrom(s, i) = Cardinality(SetPlaces(s, i))
  BY <1>1, SetsFromType
<1>3. CASE IsSet(s[i])
  <2>1. SetPlaces(s, i) = SetPlaces(s, i + 1) \cup {i}
    <3>1. ASSUME NEW k
          PROVE  k \in SetPlaces(s, i) <=> k \in SetPlaces(s, i + 1) \/ k = i
      BY <1>1, <1>3 DEF SetPlaces
    <3> QED
      BY <3>1
  <2>2. i \notin SetPlaces(s, i + 1)
    BY <1>1 DEF SetPlaces
  <2>3. Cardinality(SetPlaces(s, i)) = Cardinality(SetPlaces(s, i + 1)) + 1
    <3>1. Cardinality(SetPlaces(s, i + 1) \cup {i}) = Cardinality(SetPlaces(s, i + 1)) + 1
      BY <1>2, <2>2, FS_AddElement
    <3> QED
      BY <2>1, <3>1
  <2>4. SetsFrom(s, i) = SetsFrom(s, i + 1) + 1
    BY <1>2, <2>3
  <2> QED
    BY <1>3, <2>4
<1>4. CASE ~IsSet(s[i])
  <2>1. SetPlaces(s, i) = SetPlaces(s, i + 1)
    <3>1. ASSUME NEW k PROVE k \in SetPlaces(s, i) <=> k \in SetPlaces(s, i + 1)
      BY <1>1, <1>4 DEF SetPlaces
    <3>2. SetPlaces(s, i) \subseteq SetPlaces(s, i + 1) /\ SetPlaces(s, i + 1) \subseteq SetPlaces(s, i)
      BY <3>1
    <3> QED
      BY <3>2
  <2> QED
    BY <1>2, <1>4, <2>1
<1> QED
  BY <1>3, <1>4

\* No more are left further on.
LEMMA SetsFromFalls ==
  ASSUME NEW s \in Seq(Nat), NEW i \in Nat, NEW k \in Nat, i <= k
  PROVE  SetsFrom(s, k) <= SetsFrom(s, i)
<1>1. Len(s) \in Nat
  BY LenProperties
<1>2. /\ IsFiniteSet(SetPlaces(s, i))
      /\ SetsFrom(s, i) = Cardinality(SetPlaces(s, i))
      /\ SetsFrom(s, k) = Cardinality(SetPlaces(s, k))
  BY SetsFromType
<1>3. SetPlaces(s, k) \in SUBSET SetPlaces(s, i)
  BY <1>1 DEF SetPlaces
<1>4. Cardinality(SetPlaces(s, k)) <= Cardinality(SetPlaces(s, i))
  BY <1>2, <1>3, FS_Subset
<1> QED
  BY <1>2, <1>4

\* Without its first message a stream is one shorter.
LEMMA SetsFromTail ==
  ASSUME NEW s \in Seq(Nat), s # <<>>, NEW i \in Nat \ {0}
  PROVE  SetsFrom(Tail(s), i) = SetsFrom(s, i + 1)
<1> DEFINE t == Tail(s)
           A == SetPlaces(s, i + 1)
           B == SetPlaces(t, i)
           f == [a \in A |-> a - 1]
<1>1. Len(s) \in Nat \ {0}
  BY LenProperties, EmptySeq
<1>2. /\ t \in Seq(Nat) /\ Len(t) = Len(s) - 1
      /\ \A k \in 1 .. Len(s) - 1 : t[k] = s[k + 1]
  <2>1. \A u \in Seq(Nat) : u # <<>> =>
          /\ Tail(u) \in Seq(Nat) /\ Len(Tail(u)) = Len(u) - 1
          /\ \A k \in 1 .. Len(Tail(u)) : Tail(u)[k] = u[k + 1]
    BY HeadTailProperties
  <2>2. /\ Tail(s) \in Seq(Nat) /\ Len(Tail(s)) = Len(s) - 1
        /\ \A k \in 1 .. Len(Tail(s)) : Tail(s)[k] = s[k + 1]
    BY <2>1
  <2> QED
    BY <2>2
<1>3. /\ IsFiniteSet(A) /\ SetsFrom(s, i + 1) = Cardinality(A)
  <2>1. i + 1 \in Nat
    OBVIOUS
  <2>2. \A k \in Nat : /\ IsFiniteSet(SetPlaces(s, k))
                        /\ SetsFrom(s, k) = Cardinality(SetPlaces(s, k))
    BY SetsFromType
  <2> QED
    BY <2>1, <2>2
<1>4. SetsFrom(t, i) = Cardinality(B)
  BY <1>2, SetsFromType
<1> HIDE DEF t
<1>5. \A a : a \in A <=> (a \in i + 1 .. Len(s) /\ IsSet(s[a]))
  BY DEF SetPlaces
<1>6. \A b : b \in B <=> (b \in i .. Len(s) - 1 /\ IsSet(s[b + 1]))
  <2> SUFFICES ASSUME NEW b PROVE b \in B <=> (b \in i .. Len(s) - 1 /\ IsSet(s[b + 1]))
    OBVIOUS
  <2>1. b \in B <=> (b \in i .. Len(s) - 1 /\ IsSet(t[b]))
    BY <1>2 DEF SetPlaces
  <2>2. ASSUME b \in i .. Len(s) - 1 PROVE t[b] = s[b + 1]
    <3>1. b \in 1 .. Len(s) - 1
      BY <1>1, <2>2
    <3> QED
      BY <1>2, <3>1
  <2> QED
    BY <2>1, <2>2
<1>7. f \in Bijection(A, B)
  <2>1. \A a \in A : a - 1 \in B /\ a \in Int
    <3> SUFFICES ASSUME NEW a \in A PROVE a - 1 \in B /\ a \in Int
      OBVIOUS
    <3>1. a \in i + 1 .. Len(s) /\ IsSet(s[a])
      BY <1>5
    <3>2. a - 1 \in i .. Len(s) - 1 /\ (a - 1) + 1 = a /\ a \in Int
      BY <1>1, <3>1
    <3>3. a - 1 \in B <=> (a - 1 \in i .. Len(s) - 1 /\ IsSet(s[(a - 1) + 1]))
      BY <1>6
    <3> QED
      BY <3>1, <3>2, <3>3
  <2>2. \A b \in B : b + 1 \in A /\ (b + 1) - 1 = b
    <3> SUFFICES ASSUME NEW b \in B PROVE b + 1 \in A /\ (b + 1) - 1 = b
      OBVIOUS
    <3>1. b \in i .. Len(s) - 1 /\ IsSet(s[b + 1])
      BY <1>6
    <3>2. b + 1 \in i + 1 .. Len(s) /\ (b + 1) - 1 = b
      BY <1>1, <3>1
    <3> QED
      BY <1>5, <3>1, <3>2
  <2> HIDE DEF A, B
  <2>3. f \in [A -> B]
    BY <2>1
  <2>4. \A x, y \in A : x - 1 = y - 1 => x = y
    BY <2>1
  <2>5. \A b \in B : \E a \in A : f[a] = b
    BY <2>2
  <2>6. f \in Injection(A, B)
    BY <2>3, <2>4 DEF Injection, IsInjective
  <2>7. f \in Surjection(A, B)
    BY <2>3, <2>5 DEF Surjection
  <2> QED
    BY <2>6, <2>7 DEF Bijection
<1>8. ExistsBijection(A, B)
  BY <1>7 DEF ExistsBijection
<1> HIDE DEF A, B
<1>9. Cardinality(B) = Cardinality(A)
  BY <1>3, <1>8, FS_Bijection
<1> QED
  BY <1>3, <1>4, <1>9 DEF t

-----------------------------------------------------------------------------
(* One order.  What a replica has taken and what is on its link are the end *)
(* of the order of propagation.                                            *)

FollowsIn(o, g, l) ==
  /\ Len(g) + SetsFrom(l, 1) <= Len(o)
  /\ \A i \in DOMAIN g : g[i] = o[Len(o) - (Len(g) + SetsFrom(l, 1)) + i]
  /\ \A i \in DOMAIN l : IsSet(l[i]) => l[i] = o[Len(o) + 1 - SetsFrom(l, i)]

\* Nothing taken and nothing on the way follow any order.
LEMMA FollowsFresh ==
  ASSUME NEW o \in Seq(Nat)
  PROVE  FollowsIn(o, <<>>, <<>>)
<1>1. Len(o) \in Nat /\ Len(<<>>) = 0
  BY StreamLength
<1>2. SetsFrom(<<>>, 1) = 0
  <2>1. ASSUME NEW e \in Seq(Nat), e = <<>> PROVE SetsFrom(e, 1) = 0
    <3>1. 1 > Len(e)
      BY <2>1
    <3> QED
      BY <3>1, SetsFromType
  <2>2. <<>> \in Seq(Nat)
    BY EmptySeq
  <2> QED
    BY <2>1, <2>2
<1>3. DOMAIN <<>> = {}
  BY EmptySeq
<1> QED
  BY <1>1, <1>2, <1>3 DEF FollowsIn

\* A SET is added to the order and to the link at once.
LEMMA FollowsSetSent ==
  ASSUME NEW o \in Seq(Nat), NEW g \in Seq(Nat), NEW l \in Seq(Nat), NEW m \in Nat,
         FollowsIn(o, g, l), IsSet(m)
  PROVE  FollowsIn(Append(o, m), g, Append(l, m))
<1> DEFINE p == Append(o, m)
           t == Append(l, m)
<1>1. Len(o) \in Nat /\ Len(g) \in Nat /\ Len(l) \in Nat
  BY StreamLength
<1>2. /\ Len(p) = Len(o) + 1 /\ p[Len(o) + 1] = m
      /\ \A k \in 1 .. Len(o) : p[k] = o[k]
  BY AppendProperties
<1>3. /\ t \in Seq(Nat) /\ Len(t) = Len(l) + 1 /\ t[Len(l) + 1] = m
      /\ \A k \in 1 .. Len(l) : t[k] = l[k]
  BY AppendProperties
<1>4. \A i \in 1 .. Len(l) + 1 : SetsFrom(t, i) = SetsFrom(l, i) + 1
  BY SetsFromAppend
<1>5. \A i \in Nat : SetsFrom(l, i) \in Nat
  BY SetsFromType
<1>6. SetsFrom(t, 1) = SetsFrom(l, 1) + 1 /\ SetsFrom(l, 1) \in Nat
  BY <1>1, <1>4, <1>5
<1> HIDE DEF p, t
<1>7. Len(g) + SetsFrom(t, 1) <= Len(p)
  BY <1>1, <1>2, <1>6 DEF FollowsIn
<1>8. ASSUME NEW i \in DOMAIN g
      PROVE  g[i] = p[Len(p) - (Len(g) + SetsFrom(t, 1)) + i]
  <2>1. i \in 1 .. Len(g)
    BY StreamLength
  <2>a. Len(p) = Len(o) + 1
    BY <1>2
  <2>b. Len(g) + SetsFrom(l, 1) <= Len(o)
    BY DEF FollowsIn
  <2>2. Len(p) - (Len(g) + SetsFrom(t, 1)) + i = Len(o) - (Len(g) + SetsFrom(l, 1)) + i
    <3>2. i \in Nat
      BY <1>1, <2>1
    <3>3. (Len(o) + 1) - (Len(g) + (SetsFrom(l, 1) + 1)) + i
            = Len(o) - (Len(g) + SetsFrom(l, 1)) + i
      <4> DEFINE a == Len(o)
                 b == Len(g)
                 d == SetsFrom(l, 1)
      <4>1. a \in Nat /\ b \in Nat /\ d \in Nat
        BY <1>1, <1>6
      <4> HIDE DEF a, b, d
      <4>2. (a + 1) - (b + (d + 1)) + i = a - (b + d) + i
        BY <3>2, <4>1
      <4> QED
        BY <4>2 DEF a, b, d
    <3> QED
      BY <1>6, <2>a, <3>3
  <2>3. Len(o) - (Len(g) + SetsFrom(l, 1)) + i \in 1 .. Len(o)
    <3>1. \A a, b, d, x \in Nat :
            x + d <= a /\ 1 <= b /\ b <= x => a - (x + d) + b \in 1 .. a
      OBVIOUS
    <3>2. i \in Nat /\ 1 <= i /\ i <= Len(g) /\ SetsFrom(l, 1) \in Nat
      BY <1>1, <1>6, <2>1
    <3> QED
      BY <1>1, <2>b, <3>1, <3>2
  <2>4. g[i] = o[Len(o) - (Len(g) + SetsFrom(l, 1)) + i]
    BY DEF FollowsIn
  <2> QED
    BY <1>2, <2>2, <2>3, <2>4
<1>9. ASSUME NEW i \in DOMAIN t, IsSet(t[i])
      PROVE  t[i] = p[Len(p) + 1 - SetsFrom(t, i)]
  <2>1. i \in 1 .. Len(l) + 1
    BY <1>3, StreamLength
  <2>2. CASE i = Len(l) + 1
    <3>1. SetsFrom(l, i) = 0
      BY <1>1, <2>2, SetsFromType
    <3>2. SetsFrom(t, i) = 1
      BY <1>4, <2>1, <3>1
    <3>3. Len(p) + 1 - SetsFrom(t, i) = Len(o) + 1
      BY <1>1, <1>2, <3>2
    <3> QED
      BY <1>2, <1>3, <2>2, <3>3
  <2>3. CASE i # Len(l) + 1
    <3>1. i \in 1 .. Len(l) /\ i \in DOMAIN l /\ i \in Nat /\ i + 1 \in Nat
      BY <1>1, <2>1, <2>3, StreamLength
    <3>2. t[i] = l[i] /\ IsSet(l[i])
      BY <1>3, <1>9, <3>1
    <3>3. SetsFrom(l, i) = SetsFrom(l, i + 1) + 1
      BY <3>1, <3>2, SetsFromHead
    <3>4. SetsFrom(l, i) <= SetsFrom(l, 1)
      BY <3>1, SetsFromFalls
    <3>5. SetsFrom(l, i) \in 1 .. Len(o)
      <4>1. SetsFrom(l, i + 1) \in Nat /\ SetsFrom(l, i) \in Nat
        BY <1>5, <3>1
      <4>2. SetsFrom(l, 1) <= Len(o)
        BY <1>1, <1>6 DEF FollowsIn
      <4> QED
        BY <1>1, <1>6, <3>3, <3>4, <4>1, <4>2
    <3>6. SetsFrom(t, i) = SetsFrom(l, i) + 1
      BY <1>4, <2>1
    <3>7. /\ Len(p) + 1 - SetsFrom(t, i) = Len(o) + 1 - SetsFrom(l, i)
          /\ Len(o) + 1 - SetsFrom(l, i) \in 1 .. Len(o)
      BY <1>1, <1>2, <3>5, <3>6
    <3>8. l[i] = o[Len(o) + 1 - SetsFrom(l, i)]
      BY <3>1, <3>2 DEF FollowsIn
    <3> QED
      BY <1>2, <3>2, <3>7, <3>8
  <2> QED
    BY <2>2, <2>3
<1> QED
  BY <1>7, <1>8, <1>9 DEF FollowsIn, p, t

\* A GETACK changes nothing in it.
LEMMA FollowsGetAckSent ==
  ASSUME NEW o \in Seq(Nat), NEW g \in Seq(Nat), NEW l \in Seq(Nat), FollowsIn(o, g, l)
  PROVE  FollowsIn(o, g, Append(l, GetAck))
<1> DEFINE t == Append(l, GetAck)
<1>1. Len(l) \in Nat /\ GetAck \in Nat /\ ~IsSet(GetAck)
  BY StreamLength DEF GetAck, IsSet
<1>2. /\ t \in Seq(Nat) /\ Len(t) = Len(l) + 1 /\ t[Len(l) + 1] = GetAck
      /\ \A k \in 1 .. Len(l) : t[k] = l[k]
  BY <1>1, AppendProperties
<1>3. \A i \in 1 .. Len(l) + 1 : SetsFrom(t, i) = SetsFrom(l, i) + 0
  BY <1>1, SetsFromAppend
<1>4. \A i \in Nat : SetsFrom(l, i) \in Nat
  BY SetsFromType
<1>5. \A i \in 1 .. Len(l) + 1 : SetsFrom(t, i) = SetsFrom(l, i)
  BY <1>1, <1>3, <1>4
<1>6. SetsFrom(t, 1) = SetsFrom(l, 1)
  BY <1>1, <1>5
<1> HIDE DEF t
<1>7. ASSUME NEW i \in DOMAIN t, IsSet(t[i])
      PROVE  t[i] = o[Len(o) + 1 - SetsFrom(t, i)]
  <2>1. i \in 1 .. Len(l) + 1
    BY <1>2, StreamLength
  <2>2. i # Len(l) + 1
    BY <1>1, <1>2, <1>7
  <2>3. i \in DOMAIN l /\ t[i] = l[i]
    <3>1. i \in 1 .. Len(l)
      BY <1>1, <2>1, <2>2
    <3> QED
      BY <1>2, <3>1, StreamLength
  <2> QED
    BY <1>5, <1>7, <2>1, <2>3 DEF FollowsIn
<1> QED
  BY <1>6, <1>7 DEF FollowsIn, t

\* Taking the message at the head of the link moves it over to what is taken.
LEMMA FollowsTaken ==
  ASSUME NEW o \in Seq(Nat), NEW g \in Seq(Nat), NEW l \in Seq(Nat), l # <<>>,
         FollowsIn(o, g, l)
  PROVE  FollowsIn(o, IF IsSet(Head(l)) THEN Append(g, Head(l)) ELSE g, Tail(l))
<1> DEFINE t == Tail(l)
           m == Head(l)
<1>1. Len(o) \in Nat /\ Len(g) \in Nat /\ Len(l) \in Nat \ {0}
  BY StreamLength
<1>2. /\ m = l[1] /\ m \in Nat
      /\ t \in Seq(Nat) /\ Len(t) = Len(l) - 1
      /\ \A k \in 1 .. Len(l) - 1 : t[k] = l[k + 1]
  BY <1>1, HeadTailProperties
<1>3. \A i \in Nat \ {0} : SetsFrom(t, i) = SetsFrom(l, i + 1)
  BY SetsFromTail
<1>4. SetsFrom(t, 1) \in Nat /\ SetsFrom(l, 1) \in Nat
  BY <1>2, SetsFromType
<1>5. SetsFrom(l, 1) = SetsFrom(t, 1) + (IF IsSet(m) THEN 1 ELSE 0)
  <2>1. 1 \in 1 .. Len(l)
    BY <1>1
  <2>2. SetsFrom(l, 1) = SetsFrom(l, 1 + 1) + (IF IsSet(l[1]) THEN 1 ELSE 0)
    BY <2>1, SetsFromHead
  <2>3. SetsFrom(t, 1) = SetsFrom(l, 1 + 1)
    BY <1>3
  <2> QED
    BY <1>2, <2>2, <2>3
<1> HIDE DEF t, m
<1>6. ASSUME NEW i \in DOMAIN t, IsSet(t[i])
      PROVE  t[i] = o[Len(o) + 1 - SetsFrom(t, i)]
  <2>1. i \in 1 .. Len(l) - 1
    BY <1>2, StreamLength
  <2>2. i \in Nat \ {0}
    BY <1>1, <2>1
  <2>4. t[i] = l[i + 1]
    BY <1>2, <2>1
  <2>3. i + 1 \in DOMAIN l
    BY <1>1, <2>1, StreamLength
  <2> QED
    BY <1>3, <1>6, <2>2, <2>3, <2>4 DEF FollowsIn
<1>7. CASE IsSet(m)
  <2> DEFINE h == Append(g, m)
  <2>1. /\ Len(h) = Len(g) + 1 /\ h[Len(g) + 1] = m
        /\ \A k \in 1 .. Len(g) : h[k] = g[k]
        /\ DOMAIN h = 1 .. Len(g) + 1
    BY <1>1, <1>2, AppendProperties, StreamLength
  <2> HIDE DEF h
  <2>2. Len(h) + SetsFrom(t, 1) = Len(g) + SetsFrom(l, 1)
    BY <1>1, <1>4, <1>5, <1>7, <2>1
  <2>3. Len(h) + SetsFrom(t, 1) <= Len(o)
    BY <2>2 DEF FollowsIn
  <2>4. ASSUME NEW i \in DOMAIN h
        PROVE  h[i] = o[Len(o) - (Len(h) + SetsFrom(t, 1)) + i]
    <3>1. CASE i = Len(g) + 1
      <4>1. Len(o) - (Len(h) + SetsFrom(t, 1)) + i = Len(o) + 1 - SetsFrom(l, 1)
        <5>1. Len(o) - (Len(g) + SetsFrom(l, 1)) + (Len(g) + 1) = Len(o) + 1 - SetsFrom(l, 1)
          <6>1. Len(o) \in Int /\ Len(g) \in Int /\ SetsFrom(l, 1) \in Int
            BY <1>1, <1>4
          <6>2. \A x, y, z \in Int : x - (y + z) + (y + 1) = x + 1 - z
            OBVIOUS
          <6> QED
            BY <6>1, <6>2
        <5> QED
          BY <2>2, <3>1, <5>1
      <4>2. l[1] = o[Len(o) + 1 - SetsFrom(l, 1)]
        <5>1. 1 \in DOMAIN l
          <6>1. 1 \in 1 .. Len(l)
            BY <1>1
          <6> QED
            BY <6>1, StreamLength
        <5>2. IsSet(l[1])
          BY <1>2, <1>7
        <5> QED
          BY <5>1, <5>2 DEF FollowsIn
      <4> QED
        BY <1>2, <2>1, <3>1, <4>1, <4>2
    <3>2. CASE i # Len(g) + 1
      <4>1. i \in DOMAIN g /\ h[i] = g[i]
        <5>1. i \in 1 .. Len(g)
          <6>1. i \in 1 .. Len(g) + 1
            BY <2>1
          <6> QED
            BY <1>1, <3>2, <6>1
        <5> QED
          BY <2>1, <5>1, StreamLength
      <4>2. g[i] = o[Len(o) - (Len(g) + SetsFrom(l, 1)) + i]
        BY <4>1 DEF FollowsIn
      <4> QED
        BY <2>2, <4>1, <4>2
    <3> QED
      BY <3>1, <3>2
  <2>5. FollowsIn(o, h, t)
    BY <1>6, <2>3, <2>4 DEF FollowsIn
  <2> QED
    BY <1>7, <2>5 DEF h, m, t
<1>8. CASE ~IsSet(m)
  <2>1. SetsFrom(t, 1) = SetsFrom(l, 1)
    BY <1>4, <1>5, <1>8
  <2>2. FollowsIn(o, g, t)
    BY <1>6, <2>1 DEF FollowsIn
  <2> QED
    BY <1>8, <2>2 DEF m, t
<1> QED
  BY <1>7, <1>8

\* Streams carry numbers.
LEMMA StreamNumbers ==
  ASSUME TypeOK
  PROVE  /\ order \in Seq(Nat)
         /\ \A r \in Replicas : link[r] \in Seq(Nat) /\ got[r] \in Seq(Nat) /\ acks[r] \in Seq(Nat)
         /\ \A c \in Clients : value[c] \in Nat /\ (pc[c] = "stored" => IsSet(value[c]))
<1>1. \A i \in 1 .. MaxWrites : i \in Nat
  OBVIOUS
<1>2. \A i \in 0 .. MaxWrites : i \in Nat
  OBVIOUS
<1>3. order \in Seq(Nat)
  BY <1>1, SeqMonotonic DEF TypeOK, StreamTypes
<1>4. ASSUME NEW r \in Replicas
      PROVE  link[r] \in Seq(Nat) /\ got[r] \in Seq(Nat) /\ acks[r] \in Seq(Nat)
  <2>1. /\ link[r] \in Seq(0 .. MaxWrites) /\ got[r] \in Seq(1 .. MaxWrites)
        /\ acks[r] \in Seq(Nat)
    BY DEF TypeOK, StreamTypes
  <2>2. link[r] \in Seq(Nat)
    BY <1>2, <2>1, SeqMonotonic
  <2>3. got[r] \in Seq(Nat)
    BY <1>1, <2>1, SeqMonotonic
  <2> QED
    BY <2>1, <2>2, <2>3
<1>5. ASSUME NEW c \in Clients
      PROVE  value[c] \in Nat /\ (pc[c] = "stored" => IsSet(value[c]))
  BY DEF TypeOK, ClientTypes, IsSet, GetAck
<1> QED
  BY <1>3, <1>4, <1>5

\* A broadcast reaches the live replicas of the list.
LEMMA BroadcastReaches ==
  ASSUME TypeOK, NEW msg, Broadcast(msg), NEW r \in Replicas
  PROVE  IF r \in Listed \ dead
           THEN link'[r] = Append(link[r], msg) /\ sent'[r] = sent[r] + Size(msg)
           ELSE link'[r] = link[r] /\ sent'[r] = sent[r]
BY DEF Broadcast

\* What is taken is a stretch of the order, a dead replica's too.
Window(r) ==
  \E s \in Nat : /\ s + Len(got[r]) <= Len(order)
                 /\ \A i \in DOMAIN got[r] : got[r][i] = order[s + i]

Follow(r) ==
  /\ joined[r] # "listed" => got[r] = <<>> /\ link[r] = <<>>
  /\ r \notin dead => FollowsIn(order, got[r], link[r])
  /\ Window(r)

OrderInv == TypeOK /\ \A r \in Replicas : Follow(r)

\* The window of a live replica is the one before what is on its link.
LEMMA FollowsWindow ==
  ASSUME TypeOK, NEW r \in Replicas, FollowsIn(order, got[r], link[r])
  PROVE  Window(r)
<1> DEFINE s == Len(order) - (Len(got[r]) + SetsFrom(link[r], 1))
<1>1. order \in Seq(Nat) /\ got[r] \in Seq(Nat) /\ link[r] \in Seq(Nat)
  BY StreamNumbers
<1>2. Len(order) \in Nat /\ Len(got[r]) \in Nat
  BY <1>1, StreamLength
<1>3. SetsFrom(link[r], 1) \in Nat
  BY <1>1, SetsFromType
<1>4. Len(got[r]) + SetsFrom(link[r], 1) <= Len(order)
  BY DEF FollowsIn
<1>5. s \in Nat /\ s + Len(got[r]) <= Len(order)
  BY <1>2, <1>3, <1>4
<1>6. \A i \in DOMAIN got[r] : got[r][i] = order[s + i]
  BY DEF FollowsIn
<1> HIDE DEF s
<1> QED
  BY <1>5, <1>6 DEF Window

\* The same one step later.
LEMMA FollowsWindowNext ==
  ASSUME TypeOK', NEW r \in Replicas, FollowsIn(order, got[r], link[r])'
  PROVE  Window(r)'
BY FollowsWindow, PTL

\* Where nothing moves, nothing is broken.
LEMMA FollowSame ==
  ASSUME NEW r \in Replicas, Follow(r),
         order' = order, got'[r] = got[r], link'[r] = link[r],
         r \notin dead' => r \notin dead,
         joined'[r] # "listed" => joined[r] # "listed"
  PROVE  Follow(r)'
BY DEF Follow, Window, FollowsIn

\* Where the SETs taken stay and the order grows, they are a stretch of it still.
LEMMA WindowGrows ==
  ASSUME TypeOK, NEW r \in Replicas, Window(r), NEW m \in Nat,
         order' = Append(order, m), got'[r] = got[r]
  PROVE  Window(r)'
<1>1. PICK s \in Nat : /\ s + Len(got[r]) <= Len(order)
                       /\ \A i \in DOMAIN got[r] : got[r][i] = order[s + i]
  BY DEF Window
<1>2. order \in Seq(Nat) /\ got[r] \in Seq(Nat)
  BY StreamNumbers
<1>3. /\ Len(order) \in Nat /\ Len(got[r]) \in Nat /\ DOMAIN got[r] = 1 .. Len(got[r])
  BY <1>2, StreamLength
<1>4. Len(order') = Len(order) + 1 /\ \A k \in 1 .. Len(order) : order'[k] = order[k]
  BY <1>2, AppendProperties
<1>5. s + Len(got'[r]) <= Len(order')
  BY <1>1, <1>3, <1>4
<1>6. ASSUME NEW i \in DOMAIN got'[r] PROVE got'[r][i] = order'[s + i]
  <2>1. i \in 1 .. Len(got[r])
    BY <1>3
  <2>2. s + i \in 1 .. Len(order)
    BY <1>1, <1>3, <2>1
  <2> QED
    BY <1>1, <1>4, <2>2
<1> QED
  BY <1>5, <1>6 DEF Window

\* PropagateCommand: one section, one place in the order and on every link.
LEMMA FollowPropagate ==
  ASSUME OrderInv, TypeOK', NEW c \in Clients, SetPropagate(c), NEW r \in Replicas
  PROVE  Follow(r)'
<1>1. TypeOK /\ Follow(r)
  BY DEF OrderInv
<1>2. /\ order \in Seq(Nat) /\ got[r] \in Seq(Nat) /\ link[r] \in Seq(Nat)
      /\ value[c] \in Nat /\ IsSet(value[c])
  BY <1>1, StreamNumbers DEF SetPropagate
<1>3. got' = got /\ joined' = joined /\ dead' = dead
  BY DEF SetPropagate, replicaVars
<1>4. CASE Listed = {}
  BY <1>1, <1>3, <1>4, FollowSame DEF SetPropagate
<1>5. CASE Listed # {}
  <2>1. order' = Append(order, value[c]) /\ Broadcast(value[c])
    BY <1>5 DEF SetPropagate
  <2>2. CASE r \in Listed \ dead
    <3>1. link'[r] = Append(link[r], value[c])
      BY <1>1, <2>1, <2>2, BroadcastReaches
    <3>2. FollowsIn(order, got[r], link[r])
      BY <1>1, <2>2 DEF Follow
    <3>3. FollowsIn(Append(order, value[c]), got[r], Append(link[r], value[c]))
      BY <1>2, <3>2, FollowsSetSent
    <3>4. FollowsIn(order, got[r], link[r])'
      BY <1>3, <2>1, <3>1, <3>3 DEF FollowsIn
    <3>5. joined'[r] = "listed"
      BY <1>3, <2>2 DEF Listed
    <3> QED
      BY <3>4, <3>5, FollowsWindowNext DEF Follow
  <2>3. CASE r \notin Listed \ dead
    <3>1. link'[r] = link[r]
      BY <1>1, <2>1, <2>3, BroadcastReaches
    <3>2. Window(r)'
      BY <1>1, <1>2, <1>3, <2>1, WindowGrows DEF Follow
    <3>3. r \notin dead => joined[r] # "listed" /\ got[r] = <<>> /\ link[r] = <<>>
      BY <1>1, <2>3 DEF Follow, Listed
    <3>4. order' \in Seq(Nat)
      BY <1>2, <2>1, AppendProperties
    <3>5. FollowsIn(order', <<>>, <<>>)
      BY <3>4, FollowsFresh
    <3>6. r \notin dead' => FollowsIn(order, got[r], link[r])'
      BY <1>3, <3>1, <3>3, <3>5 DEF FollowsIn
    <3>7. joined'[r] # "listed" => got'[r] = <<>> /\ link'[r] = <<>>
      BY <1>1, <1>3, <3>1 DEF Follow
    <3> QED
      BY <3>2, <3>6, <3>7 DEF Follow
  <2> QED
    BY <2>2, <2>3
<1> QED
  BY <1>4, <1>5

\* GETACKs come between the SETs.
LEMMA FollowGetAck ==
  ASSUME OrderInv, TypeOK', NEW c \in Clients, WaitGetAck(c), NEW r \in Replicas
  PROVE  Follow(r)'
<1>1. TypeOK /\ Follow(r)
  BY DEF OrderInv
<1>2. order \in Seq(Nat) /\ got[r] \in Seq(Nat) /\ link[r] \in Seq(Nat)
  BY <1>1, StreamNumbers
<1>3. got' = got /\ joined' = joined /\ dead' = dead /\ order' = order /\ Broadcast(GetAck)
  BY DEF WaitGetAck, masterVars, replicaVars
<1>4. CASE r \in Listed \ dead
  <2>1. link'[r] = Append(link[r], GetAck)
    BY <1>1, <1>3, <1>4, BroadcastReaches
  <2>2. FollowsIn(order, got[r], link[r])
    BY <1>1, <1>4 DEF Follow
  <2>3. FollowsIn(order, got[r], Append(link[r], GetAck))
    BY <1>2, <2>2, FollowsGetAckSent
  <2>4. FollowsIn(order, got[r], link[r])'
    BY <1>3, <2>1, <2>3 DEF FollowsIn
  <2>5. joined'[r] = "listed"
    BY <1>3, <1>4 DEF Listed
  <2> QED
    BY <2>4, <2>5, FollowsWindowNext DEF Follow
<1>5. CASE r \notin Listed \ dead
  <2>1. link'[r] = link[r]
    BY <1>1, <1>3, <1>5, BroadcastReaches
  <2> QED
    BY <1>1, <1>3, <2>1, FollowSame
<1> QED
  BY <1>4, <1>5

\* The replica reads its link from the front.
LEMMA FollowTake ==
  ASSUME OrderInv, TypeOK', NEW r \in Replicas, LinkTake(r)
  PROVE  Follow(r)'
<1>1. TypeOK /\ Follow(r)
  BY DEF OrderInv
<1>2. order \in Seq(Nat) /\ got[r] \in Seq(Nat) /\ link[r] \in Seq(Nat) /\ link[r] # <<>>
  BY <1>1, StreamNumbers DEF LinkTake
<1>3. joined' = joined /\ dead' = dead /\ order' = order /\ r \notin dead
  BY DEF LinkTake, masterVars, Alive
<1>4. /\ link'[r] = Tail(link[r])
      /\ got'[r] = IF IsSet(Head(link[r])) THEN Append(got[r], Head(link[r])) ELSE got[r]
  BY <1>1 DEF LinkTake, IsSet, TypeOK, StreamTypes
<1>5. FollowsIn(order, got[r], link[r])
  BY <1>1, <1>3 DEF Follow
<1>6. FollowsIn(order, IF IsSet(Head(link[r])) THEN Append(got[r], Head(link[r])) ELSE got[r],
                Tail(link[r]))
  BY <1>2, <1>5, FollowsTaken
<1>7. FollowsIn(order, got[r], link[r])'
  BY <1>3, <1>4, <1>6 DEF FollowsIn
<1>8. joined'[r] = "listed"
  BY <1>1, <1>2, <1>3 DEF Follow
<1> QED
  BY <1>7, <1>8, FollowsWindowNext DEF Follow

\* A death cuts the link.
LEMMA FollowDie ==
  ASSUME OrderInv, NEW q \in Replicas, Die(q), NEW r \in Replicas
  PROVE  Follow(r)'
<1>1. TypeOK /\ Follow(r)
  BY DEF OrderInv
<1>2. /\ order' = order /\ got' = got /\ joined' = joined /\ dead' = dead \cup {q}
      /\ link'[r] = IF r = q THEN <<>> ELSE link[r]
  BY <1>1 DEF Die, history, masterVars, TypeOK, StreamTypes
<1>3. CASE r = q
  <2>1. Window(r)'
    BY <1>1, <1>2 DEF Follow, Window
  <2> QED
    BY <1>1, <1>2, <1>3, <2>1 DEF Follow
<1>4. CASE r # q
  BY <1>1, <1>2, <1>4, FollowSame
<1> QED
  BY <1>3, <1>4

\* Every step keeps every replica on the order.
LEMMA OrderStep == OrderInv /\ [Next]_vars => OrderInv'
<1> SUFFICES ASSUME OrderInv, [Next]_vars PROVE OrderInv'
  OBVIOUS
<1>0. TypeOK /\ TypeOK'
  BY TypeStep DEF OrderInv
<1> SUFFICES ASSUME NEW r \in Replicas PROVE Follow(r)'
  BY <1>0 DEF OrderInv
<1>1. Follow(r)
  BY DEF OrderInv
<1> DEFINE same == /\ order' = order /\ got'[r] = got[r] /\ link'[r] = link[r] /\ dead' = dead
                   /\ joined'[r] # "listed" => joined[r] # "listed"
<1>2. ASSUME NEW c \in Clients, SetPropagate(c) PROVE Follow(r)'
  BY <1>0, <1>2, FollowPropagate
<1>3. ASSUME NEW c \in Clients, WaitGetAck(c) PROVE Follow(r)'
  BY <1>0, <1>3, FollowGetAck
<1>4. ASSUME NEW q \in Replicas, LinkTake(q) PROVE Follow(r)'
  <2>1. CASE q = r
    BY <1>0, <1>4, <2>1, FollowTake
  <2>2. CASE q # r
    <3>1. same
      <4>1. got'[r] = got[r]
        BY <1>0, <1>4, <2>2 DEF LinkTake, TypeOK, StreamTypes
      <4>2. order' = order /\ link'[r] = link[r] /\ dead' = dead /\ joined' = joined
        BY <1>0, <1>4, <2>2 DEF LinkTake, masterVars, TypeOK, StreamTypes
      <4> QED
        BY <4>1, <4>2
    <3> QED
      BY <1>1, <3>1, FollowSame
  <2> QED
    BY <2>1, <2>2
<1>5. ASSUME NEW q \in Replicas, Die(q) PROVE Follow(r)'
  BY <1>5, FollowDie
<1>6. ASSUME NEW c \in Clients,
             SetStore(c) \/ WaitPoll(c) \/ WaitTimeout(c)
             \/ \E n \in WaitFor, t \in Timeouts : WaitStart(c, n, t)
      PROVE  same
  BY <1>6 DEF SetStore, WaitPoll, WaitTimeout, WaitStart, masterVars, replicaVars, history
<1>7. ASSUME NEW q \in Replicas, PsyncSendRdb(q) \/ PsyncRegister(q) PROVE same
  BY <1>0, <1>7 DEF PsyncSendRdb, PsyncRegister, replicaVars, history, TypeOK, MasterTypes
<1>8. ASSUME NEW q \in Replicas,
             ReceiveAck(q) \/ LinkStore(q) \/ LocalStore(q)
             \/ \E cmd \in LocalCommands : LocalTake(q, cmd)
      PROVE  same
  BY <1>8 DEF ReceiveAck, LinkStore, LocalStore, LocalTake, masterVars, replicaVars, history
<1>9. ASSUME UNCHANGED vars PROVE same
  BY <1>9 DEF vars, masterVars, replicaVars, history
<1>10. CASE same
  BY <1>1, <1>10, FollowSame
<1> QED
  BY <1>2, <1>3, <1>4, <1>5, <1>6, <1>7, <1>8, <1>9, <1>10
  DEF Next, Set, Wait, Master, Replica

\* Before the first SET every replica follows.
LEMMA OrderInit == Init => OrderInv
<1> SUFFICES ASSUME Init PROVE OrderInv
  OBVIOUS
<1>1. TypeOK
  BY TypeInit
<1> SUFFICES ASSUME NEW r \in Replicas PROVE Follow(r)
  BY <1>1 DEF OrderInv
<1>2. order \in Seq(Nat) /\ got[r] = <<>> /\ link[r] = <<>>
  BY <1>1, StreamNumbers DEF Init
<1>3. FollowsIn(order, <<>>, <<>>)
  BY <1>2, FollowsFresh
<1>4. FollowsIn(order, got[r], link[r])
  BY <1>2, <1>3 DEF FollowsIn
<1> QED
  BY <1>1, <1>2, <1>4, FollowsWindow DEF Follow

\* The invariant of one order, in every state.
LEMMA OrderAlways == Spec => []OrderInv
BY OrderInit, OrderStep, PTL DEF Spec

-----------------------------------------------------------------------------
(* The value of a replica is the SET it took last.                         *)

StoreInv ==
  OrderInv /\ \A r \in Replicas : got[r] # <<>> => store[r] = Last(got[r])

\* Only the link writes to a replica whose own clients send no SET.
LEMMA StoreStep ==
  ASSUME "SET" \notin LocalCommands
  PROVE  StoreInv /\ [Next]_vars => StoreInv'
<1> SUFFICES ASSUME StoreInv, [Next]_vars PROVE StoreInv'
  OBVIOUS
<1>0. OrderInv /\ OrderInv' /\ TypeOK
  BY OrderStep DEF StoreInv, OrderInv
<1> SUFFICES ASSUME NEW r \in Replicas, got'[r] # <<>> PROVE store'[r] = Last(got'[r])
  BY <1>0 DEF StoreInv
<1>1. got[r] # <<>> => store[r] = Last(got[r])
  BY DEF StoreInv
<1> DEFINE same == got'[r] = got[r] /\ store'[r] = store[r]
<1>2. ASSUME NEW q \in Replicas, LinkTake(q) PROVE store'[r] = Last(got'[r])
  <2>1. CASE q = r /\ Head(link[r]) # GetAck
    <3>1. store'[r] = Head(link[r]) /\ got'[r] = Append(got[r], Head(link[r]))
      BY <1>0, <1>2, <2>1 DEF LinkTake, TypeOK, StreamTypes, ReplicaTypes
    <3>2. got[r] \in Seq(Nat) /\ Len(got[r]) \in Nat
      BY <1>0, StreamNumbers, StreamLength
    <3>3. Len(got'[r]) = Len(got[r]) + 1 /\ got'[r][Len(got[r]) + 1] = Head(link[r])
      BY <3>1, <3>2
    <3> QED
      BY <3>1, <3>3 DEF Last
  <2>2. CASE q = r /\ Head(link[r]) = GetAck
    BY <1>1, <1>2, <2>2 DEF LinkTake
  <2>3. CASE q # r
    <3>1. same
      BY <1>0, <1>2, <2>3 DEF LinkTake, TypeOK, StreamTypes, ReplicaTypes
    <3> QED
      BY <1>1, <3>1
  <2> QED
    BY <2>1, <2>2, <2>3
<1>3. ASSUME NEW c \in Clients, Set(c) \/ Wait(c) PROVE same
  BY <1>3 DEF Set, SetStore, SetPropagate, Wait, WaitStart, WaitGetAck, WaitPoll,
              WaitTimeout, replicaVars, history
<1>4. ASSUME NEW q \in Replicas,
             \/ PsyncSendRdb(q) \/ PsyncRegister(q) \/ ReceiveAck(q) \/ LinkStore(q)
             \/ LocalStore(q) \/ Die(q)
      PROVE  same
  BY <1>4 DEF PsyncSendRdb, PsyncRegister, ReceiveAck, LinkStore, LocalStore, Die,
              replicaVars, history
<1>5. ASSUME NEW q \in Replicas, NEW cmd \in LocalCommands, LocalTake(q, cmd) PROVE same
  BY <1>5 DEF LocalTake, history
<1>6. ASSUME UNCHANGED vars PROVE same
  BY <1>6 DEF vars, replicaVars, history
<1> QED
  BY <1>1, <1>2, <1>3, <1>4, <1>5, <1>6 DEF Next, Master, Replica

\* Every state has it.
LEMMA StoreAlways ==
  ASSUME "SET" \notin LocalCommands
  PROVE  Spec => []StoreInv
<1>1. Init => StoreInv
  BY OrderInit DEF Init, StoreInv
<1>2. StoreInv /\ [Next]_vars => StoreInv'
  BY StoreStep
<1> QED
  BY <1>1, <1>2, PTL DEF Spec

\* However the SETs of any number of clients interleave, every live replica
\* takes them in the one order of PropagateCommand's sections and has the value
\* of the one it took last, as long as its own clients send it no SET
\* (utils.go:61-82, handlers.go:87-98).
THEOREM OneOrder ==
  ASSUME "SET" \notin LocalCommands
  PROVE  Spec => []ReplicaFollowsOrder
<1>1. StoreInv => ReplicaFollowsOrder
  <2> SUFFICES ASSUME StoreInv, NEW r \in Listed \ dead
               PROVE  /\ Len(order) - (Len(got[r]) + SetsFrom(link[r], 1)) >= 0
                      /\ \A i \in DOMAIN got[r] :
                           got[r][i] = order[Len(order) - (Len(got[r]) + SetsFrom(link[r], 1)) + i]
                      /\ \A i \in DOMAIN link[r] : IsSet(link[r][i]) =>
                           link[r][i] = order[Len(order) + 1 - SetsFrom(link[r], i)]
                      /\ got[r] # <<>> => store[r] = Last(got[r])
    BY DEF ReplicaFollowsOrder
  <2>1. r \in Replicas /\ r \notin dead
    BY DEF Listed
  <2>2. TypeOK /\ FollowsIn(order, got[r], link[r]) /\ (got[r] # <<>> => store[r] = Last(got[r]))
    BY <2>1 DEF StoreInv, OrderInv, Follow
  <2>3. order \in Seq(Nat) /\ got[r] \in Seq(Nat) /\ link[r] \in Seq(Nat)
    BY <2>1, <2>2, StreamNumbers
  <2>4. Len(order) \in Nat /\ Len(got[r]) \in Nat
    BY <2>3, StreamLength
  <2>5. SetsFrom(link[r], 1) \in Nat
    BY <2>3, SetsFromType
  <2>6. Len(order) - (Len(got[r]) + SetsFrom(link[r], 1)) >= 0
    <3>1. Len(got[r]) + SetsFrom(link[r], 1) <= Len(order)
      BY <2>2 DEF FollowsIn
    <3> QED
      BY <2>4, <2>5, <3>1
  <2> QED
    BY <2>2, <2>6 DEF FollowsIn
<1> QED
  BY <1>1, StoreAlways, PTL

-----------------------------------------------------------------------------
(* Offsets count bytes.  Until one of its own clients sends it a command, a *)
(* replica's offset is what it has taken from its link, and what it has     *)
(* acknowledged never goes back.                                           *)

\* A product one step further on.
LEMMA OneMore ==
  \A a \in Nat, n \in Int : a * (n + 1) = a * n + a /\ a * n \in Int
OBVIOUS

\* The bytes of a stream are a number, and none if it is empty.
LEMMA BytesType ==
  ASSUME NEW s \in Seq(Nat)
  PROVE  Bytes(s) \in Int /\ (s = <<>> => Bytes(s) = 0)
<1>1. SetsFrom(s, 1) \in Nat /\ Len(s) \in Nat
  BY SetsFromType, StreamLength
<1>2. /\ SetSize * SetsFrom(s, 1) \in Int
      /\ GetAckSize * (Len(s) - SetsFrom(s, 1)) \in Int
  BY <1>1, OneMore, ReplicationAssumption
<1>3. ASSUME s = <<>> PROVE Bytes(s) = 0
  <2>1. Len(s) = 0
    BY <1>3
  <2>2. SetsFrom(s, 1) = 0
    <3>1. 1 > Len(s)
      BY <2>1
    <3> QED
      BY <3>1, SetsFromType
  <2> QED
    BY <2>1, <2>2, ReplicationAssumption DEF Bytes
<1> QED
  BY <1>2, <1>3 DEF Bytes

\* A message appended adds its size.
LEMMA BytesAppend ==
  ASSUME NEW s \in Seq(Nat), NEW m \in Nat
  PROVE  Bytes(Append(s, m)) = Bytes(s) + Size(m)
<1> DEFINE n == SetsFrom(s, 1)
           o == Len(s) - n
<1>1. n \in Nat /\ Len(s) \in Nat /\ o \in Int
  BY SetsFromType, StreamLength
<1>2. Len(Append(s, m)) = Len(s) + 1
  BY AppendProperties
<1>3. SetsFrom(Append(s, m), 1) = n + (IF IsSet(m) THEN 1 ELSE 0)
  BY <1>1, SetsFromAppend
<1>4. /\ SetSize * (n + 1) = SetSize * n + SetSize /\ SetSize * n \in Int
      /\ GetAckSize * (o + 1) = GetAckSize * o + GetAckSize /\ GetAckSize * o \in Int
  <2>1. SetSize \in Nat /\ GetAckSize \in Nat /\ n \in Int /\ o \in Int
    BY <1>1, ReplicationAssumption
  <2> HIDE DEF n, o
  <2> QED
    BY <2>1, OneMore
<1>5. Bytes(s) = SetSize * n + GetAckSize * o
  BY DEF Bytes
<1>6. CASE IsSet(m)
  <2>1. SetsFrom(Append(s, m), 1) = n + 1
    BY <1>3, <1>6
  <2>2. Len(Append(s, m)) - SetsFrom(Append(s, m), 1) = o
    BY <1>1, <1>2, <2>1
  <2>3. Bytes(Append(s, m)) = SetSize * (n + 1) + GetAckSize * o
    BY <2>1, <2>2 DEF Bytes
  <2>4. Size(m) = SetSize
    BY <1>6 DEF Size, IsSet
  <2> HIDE DEF n, o
  <2> QED
    BY <1>4, <1>5, <2>3, <2>4, ReplicationAssumption
<1>7. CASE ~IsSet(m)
  <2>1. SetsFrom(Append(s, m), 1) = n
    BY <1>1, <1>3, <1>7
  <2>2. Len(Append(s, m)) - SetsFrom(Append(s, m), 1) = o + 1
    BY <1>1, <1>2, <2>1
  <2>3. Bytes(Append(s, m)) = SetSize * n + GetAckSize * (o + 1)
    BY <2>1, <2>2 DEF Bytes
  <2>4. Size(m) = GetAckSize
    BY <1>7 DEF Size, IsSet
  <2> HIDE DEF n, o
  <2> QED
    BY <1>4, <1>5, <2>3, <2>4, ReplicationAssumption
<1> QED
  BY <1>6, <1>7

\* The message taken from the front was worth its size.
LEMMA BytesTail ==
  ASSUME NEW s \in Seq(Nat), s # <<>>
  PROVE  Bytes(s) = Bytes(Tail(s)) + Size(Head(s))
<1> DEFINE t == Tail(s)
           n == SetsFrom(t, 1)
           o == Len(t) - n
<1>1. Len(s) \in Nat \ {0}
  BY StreamLength
<1>2. t \in Seq(Nat) /\ Len(t) = Len(s) - 1 /\ Head(s) = s[1]
  BY <1>1, HeadTailProperties
<1>3. n \in Nat /\ Len(t) \in Nat /\ o \in Int
  <2>1. n \in Nat
    BY <1>2, SetsFromType
  <2>2. Len(t) \in Nat
    BY <1>2, StreamLength
  <2> QED
    BY <2>1, <2>2
<1>4. SetsFrom(s, 1) = n + (IF IsSet(Head(s)) THEN 1 ELSE 0)
  <2>1. SetsFrom(s, 1) = SetsFrom(s, 1 + 1) + (IF IsSet(s[1]) THEN 1 ELSE 0)
    BY <1>1, SetsFromHead
  <2>2. SetsFrom(t, 1) = SetsFrom(s, 1 + 1)
    BY SetsFromTail
  <2> QED
    BY <1>2, <2>1, <2>2
<1>5. /\ SetSize * (n + 1) = SetSize * n + SetSize /\ SetSize * n \in Int
      /\ GetAckSize * (o + 1) = GetAckSize * o + GetAckSize /\ GetAckSize * o \in Int
  <2>1. SetSize \in Nat /\ GetAckSize \in Nat /\ n \in Int /\ o \in Int
    BY <1>3, ReplicationAssumption
  <2> HIDE DEF n, o
  <2> QED
    BY <2>1, OneMore
<1>6. Bytes(t) = SetSize * n + GetAckSize * o
  BY DEF Bytes
<1>7. CASE IsSet(Head(s))
  <2>1. SetsFrom(s, 1) = n + 1
    BY <1>4, <1>7
  <2>2. Len(s) - SetsFrom(s, 1) = o
    BY <1>1, <1>2, <1>3, <2>1
  <2>3. Bytes(s) = SetSize * (n + 1) + GetAckSize * o
    BY <2>1, <2>2 DEF Bytes
  <2>4. Size(Head(s)) = SetSize
    BY <1>7 DEF Size, IsSet
  <2> HIDE DEF n, o
  <2> QED
    BY <1>5, <1>6, <2>3, <2>4, ReplicationAssumption
<1>8. CASE ~IsSet(Head(s))
  <2>1. SetsFrom(s, 1) = n
    BY <1>3, <1>4, <1>8
  <2>2. Len(s) - SetsFrom(s, 1) = o + 1
    BY <1>1, <1>2, <1>3, <2>1
  <2>3. Bytes(s) = SetSize * n + GetAckSize * (o + 1)
    BY <2>1, <2>2 DEF Bytes
  <2>4. Size(Head(s)) = GetAckSize
    BY <1>8 DEF Size, IsSet
  <2> HIDE DEF n, o
  <2> QED
    BY <1>5, <1>6, <2>3, <2>4, ReplicationAssumption
<1> QED
  BY <1>7, <1>8

\* What the link's goroutine is about to add.
Pending(r) == IF linkAccess[r] = NoAccess THEN 0 ELSE linkAccess[r].add

Exact(r) ==
  /\ joined[r] # "listed" => link[r] = <<>> /\ sent[r] = 0 /\ linkAccess[r] = NoAccess
  /\ locals[r] = 0 =>
       /\ localAccess[r] = NoAccess
       /\ joined[r] # "listed" => replOffset[r] = 0
       /\ Alive(r) => replOffset[r] + Pending(r) = sent[r] - Bytes(link[r])

Ascend(r) ==
  locals[r] = 0 =>
    /\ linkAccess[r] # NoAccess => linkAccess[r].loaded = replOffset[r]
    /\ acked[r] <= replOffset[r]
    /\ \A i \in DOMAIN acks[r] : acked[r] <= acks[r][i] /\ acks[r][i] <= replOffset[r]
    /\ \A i, k \in DOMAIN acks[r] : i < k => acks[r][i] <= acks[r][k]

OffsetInv == TypeOK /\ \A r \in Replicas : Exact(r) /\ Ascend(r)

\* Where nothing moves, nothing is broken: a replica that has just been sent the
\* RDB has counted nothing.
LEMMA ExactSame ==
  ASSUME NEW r \in Replicas, Exact(r),
         link'[r] = link[r], sent'[r] = sent[r], linkAccess'[r] = linkAccess[r],
         localAccess'[r] = localAccess[r], replOffset'[r] = replOffset[r],
         locals'[r] = locals[r],
         joined'[r] # "listed" => joined[r] # "listed",
         Alive(r)' => Alive(r) \/ joined[r] # "listed"
  PROVE  Exact(r)'
<1>1. Pending(r)' = Pending(r)
  BY DEF Pending
<1>2. Bytes(link[r])' = Bytes(link[r])
  BY DEF Bytes, SetsFrom
<1>3. ASSUME locals'[r] = 0, Alive(r)'
      PROVE  replOffset'[r] + Pending(r)' = sent'[r] - Bytes(link[r])'
  <2>1. CASE Alive(r)
    BY <1>1, <1>2, <1>3, <2>1 DEF Exact
  <2>2. CASE joined[r] # "listed"
    <3>1. replOffset[r] = 0 /\ sent[r] = 0 /\ link[r] = <<>> /\ Pending(r) = 0
      BY <1>3, <2>2 DEF Exact, Pending
    <3>2. Bytes(link[r]) = 0
      BY <3>1, EmptySeq, BytesType
    <3> QED
      BY <1>1, <1>2, <3>1, <3>2
  <2> QED
    BY <1>3, <2>1, <2>2
<1> QED
  BY <1>3 DEF Exact

\* The order of a replica's offsets and acknowledgements depends on its own state only.
LEMMA AscendSame ==
  ASSUME NEW r \in Replicas, Ascend(r),
         linkAccess'[r] = linkAccess[r], replOffset'[r] = replOffset[r],
         locals'[r] = locals[r], acks'[r] = acks[r], acked'[r] = acked[r]
  PROVE  Ascend(r)'
BY DEF Ascend

\* What OffsetInv says of the types at one replica.
LEMMA OffsetTypes ==
  ASSUME TypeOK, NEW r \in Replicas
  PROVE  /\ link[r] \in Seq(Nat) /\ acks[r] \in Seq(Nat)
         /\ replOffset[r] \in Nat /\ sent[r] \in Nat /\ acked[r] \in Nat /\ locals[r] \in Nat
         /\ linkAccess[r] # NoAccess =>
              linkAccess[r].loaded \in Nat /\ linkAccess[r].add \in Nat \ {0}
         /\ Pending(r) \in Nat
<1>1. link[r] \in Seq(Nat) /\ acks[r] \in Seq(Nat)
  BY StreamNumbers
<1>2. linkAccess[r] # NoAccess =>
        linkAccess[r].loaded \in Nat /\ linkAccess[r].add \in Nat \ {0}
  BY DEF TypeOK, ReplicaTypes, Access
<1> QED
  BY <1>1, <1>2, ReplicationAssumption
  DEF TypeOK, MasterTypes, StreamTypes, ReplicaTypes, Pending

\* A broadcast: the same number of bytes is written and on the way.
LEMMA ExactBroadcast ==
  ASSUME TypeOK, NEW r \in Replicas, Exact(r), NEW m \in Nat, Broadcast(m),
         UNCHANGED <<joined, replicaVars>>
  PROVE  Exact(r)'
<1>1. /\ linkAccess' = linkAccess /\ localAccess' = localAccess /\ replOffset' = replOffset
      /\ locals' = locals /\ dead' = dead /\ joined' = joined
  BY DEF replicaVars
<1>2. (Alive(r)' <=> Alive(r)) /\ Pending(r)' = Pending(r)
  BY <1>1 DEF Alive, Pending
<1>3. CASE r \in Listed \ dead
  <2>1. link'[r] = Append(link[r], m) /\ sent'[r] = sent[r] + Size(m)
    BY <1>3, BroadcastReaches
  <2>2. joined[r] = "listed" /\ Alive(r)
    BY <1>3 DEF Listed, Alive
  <2>3. Bytes(link[r])' = Bytes(link[r]) + Size(m)
    <3>1. Bytes(Append(link[r], m)) = Bytes(link[r]) + Size(m)
      BY OffsetTypes, BytesAppend
    <3> QED
      BY <2>1, <3>1 DEF Bytes, SetsFrom
  <2>4. Bytes(link[r]) \in Int /\ Size(m) \in Int /\ sent[r] \in Int
    BY OffsetTypes, BytesType, SizeType
  <2>5. sent'[r] - Bytes(link[r])' = sent[r] - Bytes(link[r])
    BY <2>1, <2>3, <2>4
  <2> QED
    BY <1>1, <1>2, <2>2, <2>5 DEF Exact
<1>4. CASE r \notin Listed \ dead
  <2>1. link'[r] = link[r] /\ sent'[r] = sent[r]
    BY <1>4, BroadcastReaches
  <2> QED
    BY <1>1, <1>2, <2>1, ExactSame
<1> QED
  BY <1>3, <1>4

\* Taken from the link, a command is pending; a GETACK is answered with the
\* offset before it.
LEMMA OffsetTake ==
  ASSUME TypeOK, NEW r \in Replicas, Exact(r), Ascend(r), LinkTake(r)
  PROVE  Exact(r)' /\ Ascend(r)'
<1> DEFINE m == Head(link[r])
<1>1. /\ replOffset' = replOffset /\ localAccess' = localAccess /\ locals' = locals
      /\ dead' = dead /\ joined' = joined /\ acked' = acked /\ sent' = sent
  BY DEF LinkTake, masterVars
<1>2. link'[r] = Tail(link[r]) /\ linkAccess'[r] = [loaded |-> replOffset[r], add |-> Size(m)]
  BY DEF LinkTake, TypeOK, StreamTypes, ReplicaTypes
<1>3. link[r] # <<>> /\ linkAccess[r] = NoAccess /\ Alive(r)
  BY DEF LinkTake
<1>4. joined[r] = "listed"
  BY <1>3 DEF Exact
<1>5. linkAccess'[r] # NoAccess /\ linkAccess'[r].loaded = replOffset[r]
      /\ linkAccess'[r].add = Size(m)
  BY <1>2, OffsetTypes DEF NoAccess
<1>6. Pending(r)' = Size(m) /\ Pending(r) = 0
  BY <1>3, <1>5 DEF Pending
<1>7. Bytes(link[r]) = Bytes(link[r])' + Size(m)
  <2>1. Bytes(link[r]) = Bytes(Tail(link[r])) + Size(m)
    BY <1>3, OffsetTypes, BytesTail
  <2> QED
    BY <1>2, <2>1 DEF Bytes, SetsFrom
<1>8. Exact(r)'
  <2>1. ASSUME locals[r] = 0
        PROVE  replOffset'[r] + Pending(r)' = sent'[r] - Bytes(link[r])'
    <3>1. replOffset[r] + Pending(r) = sent[r] - Bytes(link[r])
      BY <1>3, <2>1 DEF Exact
    <3>2. Tail(link[r]) \in Seq(Nat)
      BY <1>3, OffsetTypes, HeadTailProperties
    <3>3. Bytes(Tail(link[r])) \in Int
      BY <3>2, BytesType
    <3>4. Bytes(link[r])' \in Int
      BY <1>2, <3>3 DEF Bytes, SetsFrom
    <3>5. sent[r] \in Int /\ replOffset[r] \in Int /\ Size(m) \in Int
      BY OffsetTypes, SizeType
    <3> HIDE DEF m
    <3> QED
      BY <1>1, <1>6, <1>7, <3>1, <3>4, <3>5
  <2> QED
    BY <1>1, <1>4, <2>1 DEF Exact
<1>9. Ascend(r)'
  <2>1. acks'[r] = acks[r] \/ acks'[r] = Append(acks[r], replOffset[r])
    BY DEF LinkTake, TypeOK, StreamTypes
  <2>2. CASE acks'[r] = acks[r]
    BY <1>1, <1>5, <2>2 DEF Ascend
  <2>3. CASE acks'[r] = Append(acks[r], replOffset[r])
    <3>1. acks[r] \in Seq(Nat) /\ replOffset[r] \in Nat
      BY OffsetTypes
    <3>2. Len(acks[r]) \in Nat /\ DOMAIN acks[r] = 1 .. Len(acks[r])
      BY <3>1, StreamLength
    <3>3. /\ DOMAIN acks'[r] = 1 .. Len(acks[r]) + 1
          /\ acks'[r][Len(acks[r]) + 1] = replOffset[r]
          /\ \A k \in DOMAIN acks[r] : acks'[r][k] = acks[r][k]
      BY <2>3, <3>1, <3>2, AppendProperties
    <3>4. \A i \in DOMAIN acks'[r] :
            \/ i \in DOMAIN acks[r] /\ acks'[r][i] = acks[r][i]
            \/ i = Len(acks[r]) + 1 /\ acks'[r][i] = replOffset[r]
      BY <3>2, <3>3
    <3>5. \A i, k \in DOMAIN acks'[r] : i < k => i \in DOMAIN acks[r]
      BY <3>2, <3>3
    <3>6. ASSUME locals[r] = 0, NEW i \in DOMAIN acks'[r]
          PROVE  acked[r] <= acks'[r][i] /\ acks'[r][i] <= replOffset[r]
      BY <3>1, <3>4, <3>6 DEF Ascend
    <3>7. ASSUME locals[r] = 0, NEW i \in DOMAIN acks'[r], NEW k \in DOMAIN acks'[r], i < k
          PROVE  acks'[r][i] <= acks'[r][k]
      <4>1. i \in DOMAIN acks[r] /\ acks'[r][i] = acks[r][i]
        BY <3>3, <3>5, <3>7
      <4> QED
        BY <3>4, <3>7, <4>1 DEF Ascend
    <3> QED
      BY <1>1, <1>5, <3>6, <3>7 DEF Ascend
  <2> QED
    BY <2>1, <2>2, <2>3
<1> QED
  BY <1>8, <1>9

\* What was pending is counted.
LEMMA OffsetStore ==
  ASSUME TypeOK, NEW r \in Replicas, Exact(r), Ascend(r), LinkStore(r)
  PROVE  Exact(r)' /\ Ascend(r)'
<1>1. /\ link' = link /\ localAccess' = localAccess /\ locals' = locals /\ acks' = acks
      /\ dead' = dead /\ joined' = joined /\ acked' = acked /\ sent' = sent
  BY DEF LinkStore, masterVars, history
<1>2. /\ replOffset'[r] = linkAccess[r].loaded + linkAccess[r].add
      /\ linkAccess'[r] = NoAccess /\ linkAccess[r] # NoAccess
  BY DEF LinkStore, TypeOK, ReplicaTypes
<1>3. joined[r] = "listed"
  BY <1>2 DEF Exact
<1>4. Pending(r)' = 0 /\ Pending(r) = linkAccess[r].add
  BY <1>2 DEF Pending
<1>5. (Alive(r)' <=> Alive(r)) /\ Bytes(link[r])' = Bytes(link[r])
  BY <1>1 DEF Alive, Bytes, SetsFrom
<1>6. linkAccess[r].add \in Nat /\ replOffset[r] \in Nat
  BY <1>2, OffsetTypes
<1>7. locals[r] = 0 => replOffset'[r] = replOffset[r] + linkAccess[r].add
  BY <1>2 DEF Ascend
<1>8. Exact(r)'
  <2>1. ASSUME locals[r] = 0
        PROVE  replOffset'[r] + Pending(r)' = replOffset[r] + Pending(r)
    BY <1>4, <1>6, <1>7, <2>1
  <2> QED
    BY <1>1, <1>3, <1>5, <2>1 DEF Exact
<1>9. Ascend(r)'
  <2>1. locals[r] = 0 => replOffset[r] <= replOffset'[r] /\ replOffset'[r] \in Nat
    BY <1>6, <1>7
  <2>2. acked[r] \in Nat /\ \A i \in DOMAIN acks[r] : acks[r][i] \in Nat
    BY OffsetTypes
  <2> QED
    BY <1>1, <1>2, <1>6, <2>1, <2>2 DEF Ascend
<1> QED
  BY <1>8, <1>9

\* A replica that serves clients of its own is outside the claim.
LEMMA OffsetLocal ==
  ASSUME TypeOK, NEW r \in Replicas, Exact(r), Ascend(r),
         LocalStore(r) \/ \E cmd \in LocalCommands : LocalTake(r, cmd)
  PROVE  Exact(r)' /\ Ascend(r)'
<1>1. link' = link /\ linkAccess' = linkAccess /\ joined' = joined /\ sent' = sent
  BY DEF LocalStore, LocalTake, masterVars, history
<1>2. locals'[r] # 0
  <2>1. CASE LocalStore(r)
    <3>1. localAccess[r] # NoAccess /\ locals' = locals
      BY <2>1 DEF LocalStore
    <3> QED
      BY <3>1 DEF Exact
  <2>2. ASSUME NEW cmd \in LocalCommands, LocalTake(r, cmd) PROVE locals'[r] # 0
    <3>1. LocalSize(cmd) \in Nat \ {0}
      BY ReplicationAssumption DEF LocalSize
    <3>2. locals'[r] = locals[r] + LocalSize(cmd) /\ locals[r] \in Nat
      BY <2>2, OffsetTypes DEF LocalTake, TypeOK, ReplicaTypes
    <3> QED
      BY <3>1, <3>2
  <2> QED
    BY <2>1, <2>2
<1> QED
  BY <1>1, <1>2 DEF Exact, Ascend

\* The master records the first offset of the stream.
LEMMA OffsetReceiveAck ==
  ASSUME TypeOK, NEW r \in Replicas, Exact(r), Ascend(r), ReceiveAck(r)
  PROVE  Exact(r)' /\ Ascend(r)'
<1>1. /\ link' = link /\ localAccess' = localAccess /\ linkAccess' = linkAccess
      /\ locals' = locals /\ replOffset' = replOffset
      /\ dead' = dead /\ joined' = joined /\ sent' = sent
  BY DEF ReceiveAck, replicaVars, history
<1>2. acked'[r] = Head(acks[r]) /\ acks'[r] = Tail(acks[r]) /\ acks[r] # <<>>
  BY DEF ReceiveAck, TypeOK, MasterTypes, StreamTypes
<1>3. Exact(r)'
  BY <1>1, ExactSame DEF Alive
<1>4. Ascend(r)'
  <2>1. acks[r] \in Seq(Nat) /\ replOffset[r] \in Nat
    BY OffsetTypes
  <2>2. Len(acks[r]) \in Nat \ {0} /\ DOMAIN acks[r] = 1 .. Len(acks[r])
    BY <1>2, <2>1, StreamLength
  <2>3. /\ acked'[r] = acks[r][1] /\ 1 \in DOMAIN acks[r]
        /\ DOMAIN acks'[r] = 1 .. Len(acks[r]) - 1
        /\ \A i \in DOMAIN acks'[r] : acks'[r][i] = acks[r][i + 1] /\ i + 1 \in DOMAIN acks[r]
    BY <1>2, <2>1, <2>2, HeadTailProperties
  <2>4. ASSUME locals[r] = 0, NEW i \in DOMAIN acks'[r]
        PROVE  acked'[r] <= acks'[r][i] /\ acks'[r][i] <= replOffset[r]
    <3>1. i \in Int /\ 1 < i + 1
      BY <2>2, <2>3
    <3> QED
      BY <2>3, <2>4, <3>1 DEF Ascend
  <2>5. ASSUME locals[r] = 0, NEW i \in DOMAIN acks'[r], NEW k \in DOMAIN acks'[r], i < k
        PROVE  acks'[r][i] <= acks'[r][k]
    <3>1. i + 1 < k + 1
      BY <2>2, <2>3, <2>5
    <3> QED
      BY <2>3, <2>5, <3>1 DEF Ascend
  <2>6. locals[r] = 0 => acked'[r] <= replOffset[r]
    BY <2>3 DEF Ascend
  <2> QED
    BY <1>1, <2>4, <2>5, <2>6 DEF Ascend
<1> QED
  BY <1>3, <1>4

\* The dead are outside the claim.
LEMMA OffsetDie ==
  ASSUME TypeOK, NEW r \in Replicas, Exact(r), Ascend(r), Die(r)
  PROVE  Exact(r)' /\ Ascend(r)'
<1>1. /\ localAccess' = localAccess /\ linkAccess' = linkAccess /\ acks' = acks
      /\ locals' = locals /\ replOffset' = replOffset /\ acked' = acked
      /\ joined' = joined /\ sent' = sent
  BY DEF Die, masterVars, history
<1>2. link'[r] = <<>> /\ ~Alive(r)'
  BY DEF Die, TypeOK, StreamTypes, Alive
<1> QED
  BY <1>1, <1>2, AscendSame DEF Exact

\* Every step keeps every replica's offsets exact and ascending.
LEMMA OffsetStep == OffsetInv /\ [Next]_vars => OffsetInv'
<1> SUFFICES ASSUME OffsetInv, [Next]_vars PROVE OffsetInv'
  OBVIOUS
<1>0. TypeOK /\ TypeOK'
  BY TypeStep DEF OffsetInv
<1> SUFFICES ASSUME NEW r \in Replicas PROVE Exact(r)' /\ Ascend(r)'
  BY <1>0 DEF OffsetInv
<1>1. Exact(r) /\ Ascend(r)
  BY DEF OffsetInv
<1> DEFINE sameOffsets == /\ linkAccess'[r] = linkAccess[r] /\ replOffset'[r] = replOffset[r]
                          /\ localAccess'[r] = localAccess[r] /\ locals'[r] = locals[r]
                          /\ acks'[r] = acks[r] /\ acked'[r] = acked[r]
           same == /\ sameOffsets /\ link'[r] = link[r] /\ sent'[r] = sent[r]
                   /\ joined'[r] # "listed" => joined[r] # "listed"
                   /\ Alive(r)' => Alive(r) \/ joined[r] # "listed"
<1>2. same => Exact(r)' /\ Ascend(r)'
  BY <1>1, ExactSame, AscendSame
<1>3. ASSUME NEW c \in Clients, NEW m \in Nat, Broadcast(m),
             UNCHANGED <<joined, acks, acked, replicaVars>>
      PROVE  Exact(r)' /\ Ascend(r)'
  <2>1. sameOffsets
    BY <1>3 DEF replicaVars
  <2>2. Ascend(r)'
    BY <1>1, <2>1, AscendSame
  <2>3. UNCHANGED <<joined, replicaVars>>
    BY <1>3
  <2> QED
    BY <1>0, <1>1, <1>3, <2>2, <2>3, ExactBroadcast
<1>4. ASSUME NEW c \in Clients, SetPropagate(c) PROVE Exact(r)' /\ Ascend(r)'
  <2>1. CASE Listed = {}
    <3>1. same
      BY <1>4, <2>1 DEF SetPropagate, replicaVars, Alive
    <3> QED
      BY <1>2, <3>1
  <2>2. CASE Listed # {}
    <3>1. Broadcast(value[c]) /\ UNCHANGED <<joined, acks, acked, replicaVars>>
      BY <1>4, <2>2 DEF SetPropagate
    <3>2. value[c] \in Nat
      BY <1>0, StreamNumbers
    <3> QED
      BY <1>3, <3>1, <3>2
  <2> QED
    BY <2>1, <2>2
<1>5. ASSUME NEW c \in Clients, WaitGetAck(c) PROVE Exact(r)' /\ Ascend(r)'
  <2>1. Broadcast(GetAck) /\ UNCHANGED <<joined, acks, acked, replicaVars>>
    BY <1>5 DEF WaitGetAck, masterVars
  <2>2. GetAck \in Nat
    BY DEF GetAck
  <2> QED
    BY <1>3, <2>1, <2>2
<1>6. ASSUME NEW q \in Replicas,
             \/ LinkTake(q) \/ LinkStore(q) \/ LocalStore(q) \/ ReceiveAck(q) \/ Die(q)
             \/ \E cmd \in LocalCommands : LocalTake(q, cmd)
      PROVE  Exact(r)' /\ Ascend(r)'
  <2>1. CASE q = r
    BY <1>0, <1>1, <1>6, <2>1, OffsetTake, OffsetStore, OffsetLocal, OffsetReceiveAck,
       OffsetDie
  <2>2. CASE q # r
    <3>1. /\ link \in [Replicas -> Seq(0 .. MaxWrites)] /\ acks \in [Replicas -> Seq(Nat)]
          /\ acked \in [Replicas -> Nat] /\ replOffset \in [Replicas -> Nat]
          /\ linkAccess \in [Replicas -> Access] /\ localAccess \in [Replicas -> Access]
          /\ locals \in [Replicas -> 0 .. MaxLocal]
      BY <1>0 DEF TypeOK, MasterTypes, StreamTypes, ReplicaTypes
    <3>2. CASE LinkTake(q)
      <4>1. acks'[r] = acks[r]
        BY <2>2, <3>1, <3>2 DEF LinkTake
      <4>2. same
        BY <2>2, <3>1, <3>2, <4>1 DEF LinkTake, masterVars, Alive
      <4> QED
        BY <1>2, <4>2
    <3>3. CASE LinkStore(q)
      <4>1. same
        BY <2>2, <3>1, <3>3 DEF LinkStore, masterVars, history, Alive
      <4> QED
        BY <1>2, <4>1
    <3>4. CASE LocalStore(q)
      <4>1. same
        BY <2>2, <3>1, <3>4 DEF LocalStore, masterVars, history, Alive
      <4> QED
        BY <1>2, <4>1
    <3>5. ASSUME NEW cmd \in LocalCommands, LocalTake(q, cmd) PROVE Exact(r)' /\ Ascend(r)'
      <4>1. same
        BY <2>2, <3>1, <3>5 DEF LocalTake, masterVars, history, Alive
      <4> QED
        BY <1>2, <4>1
    <3>6. CASE ReceiveAck(q)
      <4>1. same
        BY <2>2, <3>1, <3>6 DEF ReceiveAck, replicaVars, history, Alive
      <4> QED
        BY <1>2, <4>1
    <3>7. CASE Die(q)
      <4>1. same
        BY <2>2, <3>1, <3>7 DEF Die, masterVars, history, Alive
      <4> QED
        BY <1>2, <4>1
    <3> QED
      BY <1>6, <3>2, <3>3, <3>4, <3>5, <3>6, <3>7
  <2> QED
    BY <2>1, <2>2
<1>7. ASSUME NEW q \in Replicas, PsyncSendRdb(q) \/ PsyncRegister(q) PROVE same
  <2>1. joined \in [Replicas -> {"out", "rdb", "listed"}]
    BY <1>0 DEF TypeOK, MasterTypes
  <2> QED
    BY <1>7, <2>1 DEF PsyncSendRdb, PsyncRegister, replicaVars, history, Alive
<1>8. ASSUME NEW c \in Clients,
             SetStore(c) \/ WaitPoll(c) \/ WaitTimeout(c)
             \/ \E n \in WaitFor, t \in Timeouts : WaitStart(c, n, t)
      PROVE  same
  BY <1>8 DEF SetStore, WaitPoll, WaitTimeout, WaitStart, masterVars, replicaVars, history,
              Alive
<1>9. ASSUME UNCHANGED vars PROVE same
  BY <1>9 DEF vars, masterVars, replicaVars, history, Alive
<1> HIDE DEF same
<1> QED
  BY <1>2, <1>4, <1>5, <1>6, <1>7, <1>8, <1>9 DEF Next, Set, Wait, Master, Replica

\* Before the first step every offset is 0.
LEMMA OffsetInit == Init => OffsetInv
<1> SUFFICES ASSUME Init PROVE OffsetInv
  OBVIOUS
<1>1. TypeOK
  BY TypeInit
<1> SUFFICES ASSUME NEW r \in Replicas PROVE Exact(r) /\ Ascend(r)
  BY <1>1 DEF OffsetInv
<1>2. /\ link[r] = <<>> /\ acks[r] = <<>> /\ acked[r] = 0 /\ replOffset[r] = 0
      /\ sent[r] = 0 /\ linkAccess[r] = NoAccess /\ localAccess[r] = NoAccess
      /\ joined[r] = "out"
  BY DEF Init
<1>3. DOMAIN acks[r] = {}
  BY <1>2, EmptySeq
<1> QED
  BY <1>2, <1>3 DEF Exact, Ascend, Alive

\* Offsets are exact and ascend in every state, for every replica that has had
\* no command of its own clients.
LEMMA OffsetAlways == Spec => []OffsetInv
BY OffsetInit, OffsetStep, PTL DEF Spec

\* Without such commands there are no bytes of theirs.
LEMMA NoLocals ==
  ASSUME LocalCommands = {}
  PROVE  Spec => [](\A r \in Replicas : locals[r] = 0)
<1> DEFINE none == \A r \in Replicas : locals[r] = 0
<1>1. Init => none
  BY DEF Init
<1>2. none /\ [Next]_vars => none'
  BY DEF Next, Set, SetStore, SetPropagate, Wait, WaitStart, WaitGetAck, WaitPoll,
         WaitTimeout, Master, PsyncSendRdb, PsyncRegister, ReceiveAck, Replica, LinkTake,
         LinkStore, LocalTake, LocalStore, Die, replicaVars, vars
<1> QED
  BY <1>1, <1>2, PTL DEF Spec

\* A live replica's offset, with the command it is counting, is the number of
\* bytes of what it has taken from its link, GETACKs included: the unsynchronised
\* Load and Store lose nothing as long as only the link uses them
\* (handlers.go:89-95, 857-868).
THEOREM OffsetsCountTheLink ==
  ASSUME LocalCommands = {}
  PROVE  Spec => []OffsetExact
<1>1. OffsetInv /\ (\A r \in Replicas : locals[r] = 0) => OffsetExact
  BY DEF OffsetInv, Exact, Pending, OffsetExact
<1> QED
  BY <1>1, OffsetAlways, NoLocals, PTL

\* The offsets a replica sends never go back, and neither does the one the master
\* keeps (handlers.go:855-869, 882-892).
THEOREM AcksNeverGoBack ==
  ASSUME LocalCommands = {}
  PROVE  Spec => []AcksAscend
<1>1. OffsetInv /\ (\A r \in Replicas : locals[r] = 0) => AcksAscend
  <2> SUFFICES ASSUME OffsetInv, NEW r \in Replicas, locals[r] = 0
               PROVE  LET offsets == <<acked[r]>> \o acks[r] \o <<replOffset[r]>> IN
                      \A i, k \in DOMAIN offsets : i < k => offsets[i] <= offsets[k]
    BY DEF AcksAscend
  <2> DEFINE n == Len(acks[r])
             offsets == <<acked[r]>> \o acks[r] \o <<replOffset[r]>>
  <2>1. TypeOK /\ Ascend(r)
    BY DEF OffsetInv
  <2>2. acks[r] \in Seq(Nat) /\ acked[r] \in Nat /\ replOffset[r] \in Nat
    BY <2>1, OffsetTypes
  <2>3. n \in Nat /\ DOMAIN acks[r] = 1 .. n
    BY <2>2, StreamLength
  <2>4. /\ DOMAIN offsets = 1 .. n + 2 /\ offsets[1] = acked[r]
        /\ offsets[n + 2] = replOffset[r]
        /\ \A i \in 2 .. n + 1 : offsets[i] = acks[r][i - 1]
    BY <2>2, <2>3
  <2> HIDE DEF offsets
  <2> SUFFICES ASSUME NEW i \in DOMAIN offsets, NEW k \in DOMAIN offsets, i < k
               PROVE  offsets[i] <= offsets[k]
    BY DEF offsets
  <2>5. i \in 1 .. n + 1 /\ k \in 2 .. n + 2
    BY <2>3, <2>4
  <2>6. \A j \in 2 .. n + 1 : j - 1 \in DOMAIN acks[r]
    BY <2>3
  <2>7. CASE i = 1 /\ k = n + 2
    BY <2>1, <2>4, <2>7 DEF Ascend
  <2>8. CASE i = 1 /\ k # n + 2
    <3>1. k \in 2 .. n + 1
      BY <2>3, <2>5, <2>8
    <3> QED
      BY <2>1, <2>4, <2>6, <2>8, <3>1 DEF Ascend
  <2>9. CASE i # 1 /\ k = n + 2
    <3>1. i \in 2 .. n + 1
      BY <2>3, <2>5, <2>9
    <3> QED
      BY <2>1, <2>4, <2>6, <2>9, <3>1 DEF Ascend
  <2>10. CASE i # 1 /\ k # n + 2
    <3>1. i \in 2 .. n + 1 /\ k \in 2 .. n + 1
      BY <2>3, <2>5, <2>10
    <3>2. i - 1 < k - 1
      BY <3>1
    <3> QED
      BY <2>1, <2>4, <2>6, <3>1, <3>2 DEF Ascend
  <2> QED
    BY <2>7, <2>8, <2>9, <2>10
<1> QED
  BY <1>1, OffsetAlways, NoLocals, PTL

-----------------------------------------------------------------------------
(* Convergence under one writer.  The SET stored last is the one propagated *)
(* last, or is about to be.                                                *)

SetUnderWay == \E c \in Clients : pc[c] = "stored"

ValueInv ==
  /\ StoreInv
  /\ order # <<>> => Listed # {}
  /\ order # <<>> /\ ~SetUnderWay => Last(order) = memory
  /\ \A c \in Clients : pc[c] = "stored" => value[c] = memory

\* What is appended is last.
LEMMA LastAppended ==
  ASSUME NEW s \in Seq(Nat), NEW m \in Nat
  PROVE  Last(Append(s, m)) = m
<1>1. Len(s) \in Nat
  BY StreamLength
<1>2. Len(Append(s, m)) = Len(s) + 1 /\ Append(s, m)[Len(s) + 1] = m
  BY AppendProperties
<1> QED
  BY <1>2 DEF Last

\* With one client the pair of Store and PropagateCommand is never interleaved
\* with another one.
LEMMA ValueStep ==
  ASSUME "SET" \notin LocalCommands, \A c, d \in Clients : c = d
  PROVE  ValueInv /\ [Next]_vars => ValueInv'
<1> SUFFICES ASSUME ValueInv, [Next]_vars PROVE ValueInv'
  OBVIOUS
<1>0. TypeOK /\ StoreInv'
  BY StoreStep DEF ValueInv, StoreInv, OrderInv
<1>1. pc \in [Clients -> {"idle", "stored", "getack", "poll", "select"}]
      /\ value \in [Clients -> 0 .. MaxWrites]
  BY <1>0 DEF TypeOK, ClientTypes
<1> DEFINE same ==
             /\ memory' = memory /\ order' = order
             /\ Listed \subseteq Listed'
             /\ \A c \in Clients : /\ (pc'[c] = "stored") <=> (pc[c] = "stored")
                                   /\ value'[c] = value[c]
<1>2. same => ValueInv'
  BY <1>0 DEF ValueInv, SetUnderWay
<1>3. ASSUME NEW c \in Clients, SetStore(c) PROVE ValueInv'
  <2>1. /\ pc'[c] = "stored" /\ value'[c] = memory' /\ order' = order /\ joined' = joined
    BY <1>1, <1>3 DEF SetStore, history
  <2>2. Listed' = Listed
    BY <2>1 DEF Listed
  <2> QED
    BY <1>0, <2>1, <2>2 DEF ValueInv, SetUnderWay
<1>4. ASSUME NEW c \in Clients, SetPropagate(c) PROVE ValueInv'
  <2>1. /\ \A d \in Clients : pc'[d] # "stored"
        /\ memory' = memory /\ joined' = joined /\ value[c] = memory
    BY <1>1, <1>4 DEF SetPropagate, ValueInv
  <2>2. Listed' = Listed
    BY <2>1 DEF Listed
  <2>3. CASE Listed = {}
    <3>1. order' = <<>>
      BY <1>4, <2>3 DEF SetPropagate, ValueInv
    <3> QED
      BY <1>0, <2>1, <3>1 DEF ValueInv
  <2>4. CASE Listed # {}
    <3>1. order' = Append(order, value[c])
      BY <1>4, <2>4 DEF SetPropagate
    <3>2. order \in Seq(Nat) /\ value[c] \in Nat
      BY <1>0, StreamNumbers
    <3>3. Last(order') = memory'
      BY <2>1, <3>1, <3>2, LastAppended
    <3>4. Listed' # {}
      BY <2>2, <2>4
    <3> QED
      BY <1>0, <2>1, <3>3, <3>4 DEF ValueInv
  <2> QED
    BY <2>3, <2>4
<1>5. ASSUME NEW c \in Clients, Wait(c) PROVE same
  <2>1. Wait(c) => UNCHANGED <<memory, order, joined, value>>
    BY DEF Wait, WaitStart, WaitGetAck, WaitPoll, WaitTimeout, masterVars
  <2>2. Listed' = Listed
    BY <1>5, <2>1 DEF Listed
  <2>3. \A d \in Clients : (pc'[d] = "stored") <=> (pc[d] = "stored")
    <3>1. ASSUME NEW n \in WaitFor, NEW t \in Timeouts, WaitStart(c, n, t)
          PROVE  \A d \in Clients : (pc'[d] = "stored") <=> (pc[d] = "stored")
      BY <1>1, <3>1 DEF WaitStart
    <3>2. CASE WaitGetAck(c)
      BY <1>1, <3>2 DEF WaitGetAck
    <3>3. CASE WaitPoll(c)
      BY <1>1, <3>3 DEF WaitPoll, WaitReply
    <3>4. CASE WaitTimeout(c)
      BY <1>1, <3>4 DEF WaitTimeout, WaitReply
    <3> QED
      BY <1>5, <3>1, <3>2, <3>3, <3>4 DEF Wait
  <2> QED
    BY <1>5, <2>1, <2>2, <2>3
<1>6. ASSUME NEW q \in Replicas, PsyncSendRdb(q) \/ PsyncRegister(q) PROVE same
  <2>1. joined \in [Replicas -> {"out", "rdb", "listed"}]
    BY <1>0 DEF TypeOK, MasterTypes
  <2>2. Listed \subseteq Listed'
    BY <1>6, <2>1 DEF PsyncSendRdb, PsyncRegister, Listed
  <2> QED
    BY <1>6, <2>2 DEF PsyncSendRdb, PsyncRegister, clientVars, history
<1>7. ASSUME NEW q \in Replicas, ReceiveAck(q) \/ Replica(q) \/ Die(q) PROVE same
  <2>1. UNCHANGED <<memory, order, joined, pc, value>>
    BY <1>7 DEF ReceiveAck, Replica, LinkTake, LinkStore, LocalTake, LocalStore, Die,
                masterVars, clientVars, history
  <2> QED
    BY <2>1 DEF Listed
<1>8. ASSUME UNCHANGED vars PROVE same
  BY <1>8 DEF vars, masterVars, clientVars, history, Listed
<1> HIDE DEF same
<1> QED
  BY <1>2, <1>3, <1>4, <1>5, <1>6, <1>7, <1>8 DEF Next, Set, Master

\* When no SET is under way, every live replica that is being sent SETs has the
\* master's value, if one client writes.  (Of two clients each replica may keep
\* the other's: the run repl_diverge.)  (handlers.go:87-98)
THEOREM OneWriterConverges ==
  ASSUME "SET" \notin LocalCommands, \A c, d \in Clients : c = d
  PROVE  Spec => []ReplicasConverge
<1>1. Init => ValueInv
  BY OrderInit DEF Init, ValueInv, StoreInv
<1>2. ValueInv /\ [Next]_vars => ValueInv'
  BY ValueStep
<1>3. ValueInv => ReplicasConverge
  <2> SUFFICES ASSUME ValueInv, NEW r \in Listed \ dead, Quiet(r), got[r] # <<>>
               PROVE  store[r] = memory
    BY DEF ReplicasConverge
  <2>1. r \in Replicas /\ r \notin dead /\ link[r] = <<>> /\ ~SetUnderWay
    BY DEF Listed, Quiet, SetUnderWay
  <2>2. TypeOK /\ store[r] = Last(got[r]) /\ FollowsIn(order, got[r], link[r])
    BY <2>1 DEF ValueInv, StoreInv, OrderInv, Follow
  <2>3. got[r] \in Seq(Nat) /\ link[r] \in Seq(Nat) /\ order \in Seq(Nat)
    BY <2>1, <2>2, StreamNumbers
  <2>4. /\ Len(got[r]) \in Nat \ {0} /\ Len(order) \in Nat
        /\ DOMAIN got[r] = 1 .. Len(got[r])
    BY <2>3, StreamLength
  <2>5. SetsFrom(link[r], 1) = 0
    <3>1. 1 > Len(link[r])
      BY <2>1
    <3> QED
      BY <2>3, <3>1, SetsFromType
  <2>6. Len(got[r]) <= Len(order)
    BY <2>2, <2>4, <2>5 DEF FollowsIn
  <2>7. Len(got[r]) \in DOMAIN got[r]
    BY <2>4
  <2>8. got[r][Len(got[r])] = order[Len(order) - (Len(got[r]) + 0) + Len(got[r])]
    BY <2>2, <2>5, <2>7 DEF FollowsIn
  <2>9. Len(order) - (Len(got[r]) + 0) + Len(got[r]) = Len(order)
    BY <2>4
  <2>10. Last(got[r]) = Last(order)
    BY <2>8, <2>9 DEF Last
  <2>11. order # <<>>
    BY <2>4, <2>6
  <2> QED
    BY <2>1, <2>2, <2>10, <2>11 DEF ValueInv
<1> QED
  BY <1>1, <1>2, <1>3, PTL DEF Spec

-----------------------------------------------------------------------------
(* What a WAIT counts.  MasterOffset is the bytes of the SETs alone, so that *)
(* an offset that has reached it with one GETACK answered covers them all.  *)

Asks(c)    == pc[c] \in {"getack", "poll", "select"}
Counted(c) == HaveCommand(c) \cup {r \in Listed : answered[r] > 1}

WaitInv ==
  /\ masterOffset = SetSize * Len(order)
  /\ \A c \in Clients : Asks(c) => target[c] \in 1 .. Len(order)
  /\ \A c \in Clients : pc[c] = "select" => count[c] <= Cardinality(Counted(c))

\* What the steps of WAIT build on.
Ground ==
  /\ OrderInv /\ AckCoversSets
  /\ \A r \in Replicas : locals[r] = 0

\* A replica that has reached the master's offset has the command, unless it has
\* answered more than one GETACK.
LEMMA CaughtIsCounted ==
  ASSUME Ground, WaitInv, NEW c \in Clients, Asks(c)
  PROVE  Caught \subseteq Counted(c)
<1> SUFFICES ASSUME NEW r \in Caught, ~(answered[r] > 1)
             PROVE  r \in HaveCommand(c)
  BY DEF Counted, Caught
<1>1. r \in Listed /\ r \in Replicas /\ acked[r] >= masterOffset
  BY DEF Caught, Listed
<1>2. TypeOK /\ Window(r) /\ locals[r] = 0
  BY <1>1 DEF Ground, OrderInv, Follow
<1>3. order \in Seq(Nat) /\ got[r] \in Seq(Nat)
  BY <1>1, <1>2, StreamNumbers
<1>4. /\ Len(order) \in Nat /\ Len(got[r]) \in Nat /\ DOMAIN got[r] = 1 .. Len(got[r])
  BY <1>3, StreamLength
<1>5. target[c] \in 1 .. Len(order) /\ masterOffset = SetSize * Len(order)
  BY DEF WaitInv
<1>6. /\ acked[r] \in Nat /\ answered[r] \in {0, 1}
      /\ SetSize \in Nat \ {0} /\ GetAckSize \in Nat
  <2>1. answered[r] \in Nat /\ acked[r] \in Nat
    BY <1>1, <1>2 DEF TypeOK, StreamTypes, MasterTypes
  <2> QED
    BY <2>1, ReplicationAssumption
<1> DEFINE o == Len(order)
           g == Len(got[r])
<1>7. \A m \in Nat : m < o => SetSize * m + SetSize <= SetSize * o
  <2> SUFFICES ASSUME NEW m \in Nat, m < o PROVE SetSize * m + SetSize <= SetSize * o
    OBVIOUS
  <2>1. PICK k \in Nat : o = (m + 1) + k
    <3>1. o - (m + 1) \in Nat /\ o = (m + 1) + (o - (m + 1))
      BY <1>4
    <3> QED
      BY <3>1
  <2>2. \A a, x, y \in Nat : a * ((x + 1) + y) = a * x + a + a * y /\ a * y \in Nat
    OBVIOUS
  <2>3. SetSize * o = SetSize * m + SetSize + SetSize * k /\ SetSize * k \in Nat
    BY <1>6, <2>1, <2>2
  <2>4. SetSize * m \in Int
    BY <1>6, OneMore
  <2> QED
    BY <1>6, <2>3, <2>4
<1>8. SetSize * o \in Int /\ SetSize * g \in Int /\ 0 < SetSize * o
  <2>1. SetSize * o \in Int /\ SetSize * g \in Int
    BY <1>4, <1>6, OneMore
  <2>2. SetSize * 0 + SetSize <= SetSize * o
    BY <1>4, <1>5, <1>7
  <2>3. SetSize * 0 = 0
    BY <1>6
  <2> QED
    BY <1>6, <2>1, <2>2, <2>3
<1>9. acked[r] <= SetSize * g
  <2>1. acked[r] > 0
    BY <1>1, <1>5, <1>6, <1>8
  <2>2. acked[r] <= SetSize * g + GetAckSize * (answered[r] - 1) + 0
    BY <1>1, <1>2, <2>1 DEF Ground, AckCoversSets
  <2>3. GetAckSize * (answered[r] - 1) <= 0 /\ GetAckSize * (answered[r] - 1) \in Int
    <3>1. answered[r] - 1 = 0 \/ answered[r] - 1 = -1
      BY <1>6
    <3>2. GetAckSize * 0 = 0 /\ GetAckSize * (-1) = -GetAckSize
      BY <1>6
    <3> QED
      BY <1>6, <3>1, <3>2
  <2> QED
    BY <1>6, <1>8, <2>2, <2>3
<1>10. o <= g
  <2>1. ASSUME g < o PROVE FALSE
    <3>1. SetSize * g + SetSize <= SetSize * o
      BY <1>4, <1>7, <2>1
    <3>2. SetSize * o <= acked[r]
      BY <1>1, <1>5, <1>6, <1>8
    <3> QED
      BY <1>6, <1>8, <1>9, <3>1, <3>2
  <2> QED
    BY <1>4, <2>1
<1>11. PICK s \in Nat : /\ s + Len(got[r]) <= Len(order)
                        /\ \A i \in DOMAIN got[r] : got[r][i] = order[s + i]
  BY <1>2 DEF Window
<1>12. s = 0 /\ g = o
  BY <1>4, <1>10, <1>11
<1>13. target[c] \in DOMAIN got[r] /\ 0 + target[c] = target[c]
  BY <1>4, <1>5, <1>12
<1>14. got[r][target[c]] = order[target[c]]
  BY <1>11, <1>12, <1>13
<1>15. order[target[c]] \in Range(got[r])
  BY <1>13, <1>14 DEF Range
<1> QED
  BY <1>1, <1>15 DEF HaveCommand

\* The listed replicas are finitely many, so that what is counted can be.
LEMMA CountedFinite ==
  \A c \in Clients : IsFiniteSet(Counted(c)) /\ Cardinality(Counted(c)) \in Nat
<1> SUFFICES ASSUME NEW c \in Clients
             PROVE  IsFiniteSet(Counted(c)) /\ Cardinality(Counted(c)) \in Nat
  OBVIOUS
<1>1. Counted(c) \in SUBSET Replicas /\ IsFiniteSet(Replicas)
  BY ReplicationAssumption DEF Counted, HaveCommand, Listed
<1>2. IsFiniteSet(Counted(c))
  BY <1>1, FS_Subset
<1> QED
  BY <1>2, FS_CardinalityType

\* The same one step later.
LEMMA CountedFiniteNext ==
  (\A c \in Clients : IsFiniteSet(Counted(c)) /\ Cardinality(Counted(c)) \in Nat)'
BY CountedFinite, PTL

\* So Caught is no more than what is counted.
LEMMA CaughtBounded ==
  ASSUME Ground, WaitInv, NEW c \in Clients, Asks(c)
  PROVE  Cardinality(Caught) <= Cardinality(Counted(c))
<1>1. Caught \in SUBSET Counted(c)
  BY CaughtIsCounted
<1> QED
  BY <1>1, CountedFinite, FS_Subset

\* A replica that is counted once stays counted.
LEMMA CountedGrows ==
  ASSUME TypeOK, [Next]_vars, NEW c \in Clients, target'[c] = target[c],
         target[c] \in 1 .. Len(order)
  PROVE  Cardinality(Counted(c)) <= Cardinality(Counted(c))'
<1>1. /\ joined \in [Replicas -> {"out", "rdb", "listed"}]
      /\ answered \in [Replicas -> Nat] /\ order \in Seq(Nat)
      /\ \A r \in Replicas : got[r] \in Seq(Nat)
  BY StreamNumbers DEF TypeOK, MasterTypes, StreamTypes
<1>2. Len(order) \in Nat
  BY <1>1, StreamLength
<1>3. order'[target[c]] = order[target[c]]
  <2>1. \A m \in Nat : Append(order, m)[target[c]] = order[target[c]]
    BY <1>1, <1>2, AppendProperties
  <2>2. order' = order \/ \E m \in Nat : order' = Append(order, m)
    <3>1. ASSUME NEW d \in Clients, SetPropagate(d)
          PROVE  order' = order \/ \E m \in Nat : order' = Append(order, m)
      BY <3>1, StreamNumbers DEF SetPropagate
    <3>2. ASSUME NEW d \in Clients, SetStore(d) \/ Wait(d) PROVE order' = order
      BY <3>2 DEF SetStore, Wait, WaitStart, WaitGetAck, WaitPoll, WaitTimeout, history
    <3>3. ASSUME NEW q \in Replicas, Master(q) \/ Replica(q) \/ Die(q) PROVE order' = order
      BY <3>3 DEF Master, PsyncSendRdb, PsyncRegister, ReceiveAck, Replica, LinkTake,
                  LinkStore, LocalTake, LocalStore, Die, history
    <3>4. ASSUME UNCHANGED vars PROVE order' = order
      BY <3>4 DEF vars, history
    <3> QED
      BY <3>1, <3>2, <3>3, <3>4 DEF Next, Set
  <2> QED
    BY <2>1, <2>2
<1>4. ASSUME NEW r \in Replicas
      PROVE  /\ joined[r] = "listed" => joined'[r] = "listed"
             /\ answered[r] > 1 => answered'[r] > 1
             /\ Range(got[r]) \subseteq Range(got'[r])
  <2>1. ASSUME NEW q \in Replicas, LinkTake(q)
        PROVE  /\ joined'[r] = joined[r]
               /\ answered[r] > 1 => answered'[r] > 1
               /\ Range(got[r]) \subseteq Range(got'[r])
    <3>1. joined' = joined
      BY <2>1 DEF LinkTake, masterVars
    <3>2. answered'[r] = answered[r] \/ answered'[r] = answered[r] + 1
      BY <1>1, <2>1 DEF LinkTake
    <3>3. got'[r] = got[r] \/ got'[r] = Append(got[r], Head(link[r]))
      BY <1>1, <2>1 DEF LinkTake, TypeOK, StreamTypes
    <3>4. Range(got[r]) \subseteq Range(Append(got[r], Head(link[r])))
      <4>1. got[r] \in Seq(Nat) /\ Len(got[r]) \in Nat /\ DOMAIN got[r] = 1 .. Len(got[r])
        BY <1>1, StreamLength
      <4> DEFINE s == Append(got[r], Head(link[r]))
      <4>2. \A i \in DOMAIN got[r] : i \in DOMAIN s /\ s[i] = got[r][i]
        BY <4>1
      <4> HIDE DEF s
      <4>3. Range(got[r]) \subseteq Range(s)
        BY <4>2 DEF Range
      <4> QED
        BY <4>3 DEF s
    <3>5. answered[r] > 1 => answered'[r] > 1
      <4>1. answered[r] \in Nat
        BY <1>1
      <4> QED
        BY <3>2, <4>1
    <3>6. Range(got[r]) \subseteq Range(got'[r])
      BY <3>3, <3>4
    <3> QED
      BY <3>1, <3>5, <3>6
  <2>2. ASSUME NEW q \in Replicas, PsyncSendRdb(q) \/ PsyncRegister(q)
        PROVE  (joined[r] = "listed" => joined'[r] = "listed") /\ UNCHANGED <<answered, got>>
    BY <1>1, <2>2 DEF PsyncSendRdb, PsyncRegister, history
  <2>3. ASSUME NEW d \in Clients, Set(d) \/ Wait(d) PROVE UNCHANGED <<joined, answered, got>>
    BY <2>3 DEF Set, SetStore, SetPropagate, Wait, WaitStart, WaitGetAck, WaitPoll,
                WaitTimeout, masterVars, history
  <2>4. ASSUME NEW q \in Replicas,
               \/ ReceiveAck(q) \/ LinkStore(q) \/ LocalStore(q) \/ Die(q)
               \/ \E cmd \in LocalCommands : LocalTake(q, cmd)
        PROVE  UNCHANGED <<joined, answered, got>>
    BY <2>4 DEF ReceiveAck, LinkStore, LocalStore, Die, LocalTake, masterVars, history
  <2>5. ASSUME UNCHANGED vars PROVE UNCHANGED <<joined, answered, got>>
    BY <2>5 DEF vars, masterVars, history
  <2> QED
    BY <2>1, <2>2, <2>3, <2>4, <2>5 DEF Next, Master, Replica
<1>5. Counted(c) \in SUBSET (Counted(c)')
  BY <1>3, <1>4 DEF Counted, HaveCommand, Listed
<1> QED
  BY <1>5, CountedFiniteNext, FS_Subset

\* MasterOffset and the order move together, and only in PropagateCommand.
LEMMA MasterOffsetStep ==
  ASSUME TypeOK, WaitInv, [Next]_vars
  PROVE  masterOffset' = SetSize * Len(order') /\ Len(order) <= Len(order')
<1> DEFINE same == masterOffset' = masterOffset /\ order' = order
<1>0. order \in Seq(Nat) /\ masterOffset = SetSize * Len(order)
  BY StreamNumbers DEF WaitInv
<1>1. Len(order) \in Nat
  BY <1>0, StreamLength
<1>2. same => masterOffset' = SetSize * Len(order') /\ Len(order) <= Len(order')
  BY <1>0, <1>1
<1>3. ASSUME NEW c \in Clients, SetPropagate(c)
      PROVE  masterOffset' = SetSize * Len(order') /\ Len(order) <= Len(order')
  <2>1. CASE Listed = {}
    BY <1>2, <1>3, <2>1 DEF SetPropagate
  <2>2. CASE Listed # {}
    <3>1. masterOffset' = masterOffset + SetSize /\ order' = Append(order, value[c])
      BY <1>3, <2>2 DEF SetPropagate
    <3>2. value[c] \in Nat
      BY StreamNumbers
    <3>3. Len(order') = Len(order) + 1
      BY <1>0, <3>1, <3>2, AppendProperties
    <3>4. SetSize * (Len(order) + 1) = SetSize * Len(order) + SetSize
      BY <1>1, OneMore, ReplicationAssumption
    <3> QED
      BY <1>0, <1>1, <3>1, <3>3, <3>4
  <2> QED
    BY <2>1, <2>2
<1>4. ASSUME NEW c \in Clients, SetStore(c) \/ Wait(c) PROVE same
  BY <1>4 DEF SetStore, Wait, WaitStart, WaitGetAck, WaitPoll, WaitTimeout, masterVars, history
<1>5. ASSUME NEW q \in Replicas, Master(q) \/ Replica(q) \/ Die(q) PROVE same
  BY <1>5 DEF Master, PsyncSendRdb, PsyncRegister, ReceiveAck, Replica, LinkTake, LinkStore,
              LocalTake, LocalStore, Die, masterVars, history
<1>6. ASSUME UNCHANGED vars PROVE same
  BY <1>6 DEF vars, masterVars, history
<1> HIDE DEF same
<1> QED
  BY <1>2, <1>3, <1>4, <1>5, <1>6 DEF Next, Set

\* The claim about one client, where its WAIT does not move.
LEMMA WaitKept ==
  ASSUME TypeOK, WaitInv, [Next]_vars, NEW c \in Clients,
         Asks(c)' => Asks(c) /\ target'[c] = target[c],
         pc'[c] = "select" => pc[c] = "select" /\ count'[c] = count[c]
  PROVE  /\ Asks(c)' => target'[c] \in 1 .. Len(order')
         /\ pc'[c] = "select" => count'[c] <= Cardinality(Counted(c))'
<1>1. Len(order) \in Nat /\ Len(order') >= Len(order) /\ Len(order') \in Nat
  <2>1. order \in Seq(Nat) /\ order' \in Seq(1 .. MaxWrites)
    BY StreamNumbers, TypeStep DEF TypeOK, StreamTypes
  <2>2. Len(order) \in Nat /\ Len(order') \in Nat
    BY <2>1, LenProperties
  <2> QED
    BY <2>2, MasterOffsetStep
<1>2. ASSUME Asks(c)' PROVE target'[c] \in 1 .. Len(order')
  <2>1. target[c] \in 1 .. Len(order) /\ target'[c] = target[c]
    BY <1>2 DEF WaitInv
  <2> QED
    BY <1>1, <2>1
<1>3. ASSUME pc'[c] = "select" PROVE count'[c] <= Cardinality(Counted(c))'
  <2>1. pc[c] = "select" /\ count'[c] = count[c] /\ target'[c] = target[c]
    BY <1>3 DEF Asks
  <2>2. target[c] \in 1 .. Len(order) /\ count[c] <= Cardinality(Counted(c))
    BY <2>1 DEF WaitInv, Asks
  <2>3. Cardinality(Counted(c)) <= Cardinality(Counted(c))'
    BY <2>1, <2>2, CountedGrows
  <2>4. /\ count[c] \in Nat /\ Cardinality(Counted(c)) \in Nat
        /\ Cardinality(Counted(c))' \in Nat
    BY CountedFinite, CountedFiniteNext DEF TypeOK, ClientTypes
  <2> QED
    BY <2>1, <2>2, <2>3, <2>4
<1> QED
  BY <1>2, <1>3

\* Every step keeps what a WAIT has counted true.
LEMMA WaitStep == Ground /\ WaitInv /\ [Next]_vars => WaitInv'
<1> SUFFICES ASSUME Ground, WaitInv, [Next]_vars PROVE WaitInv'
  OBVIOUS
<1>0. TypeOK
  BY DEF Ground, OrderInv
<1>a. masterOffset' = SetSize * Len(order')
  BY <1>0, MasterOffsetStep
<1> SUFFICES ASSUME NEW c \in Clients
             PROVE  /\ Asks(c)' => target'[c] \in 1 .. Len(order')
                    /\ pc'[c] = "select" => count'[c] <= Cardinality(Counted(c))'
  BY <1>a DEF WaitInv
<1> DEFINE Claim == /\ Asks(c)' => target'[c] \in 1 .. Len(order')
                    /\ pc'[c] = "select" => count'[c] <= Cardinality(Counted(c))'
           kept == /\ Asks(c)' => Asks(c) /\ target'[c] = target[c]
                   /\ pc'[c] = "select" => pc[c] = "select" /\ count'[c] = count[c]
<1>1. kept => Claim
  BY <1>0, WaitKept
<1>2. /\ pc \in [Clients -> {"idle", "stored", "getack", "poll", "select"}]
      /\ target \in [Clients -> Nat] /\ count \in [Clients -> Nat]
  BY <1>0 DEF TypeOK, ClientTypes
<1>3. ASSUME NEW d \in Clients, Set(d) PROVE kept
  BY <1>2, <1>3 DEF Set, SetStore, SetPropagate, history, Asks
<1>4. ASSUME NEW d \in Clients, NEW n \in WaitFor, NEW t \in Timeouts, WaitStart(d, n, t)
      PROVE  Claim
  <2>1. CASE c = d /\ ~(Listed = {} \/ masterOffset = 0)
    <3>1. pc'[c] = "getack" /\ target'[c] = Len(order) /\ order' = order
      BY <1>2, <1>4, <2>1 DEF WaitStart
    <3>2. Len(order) \in Nat
      BY <1>0, StreamNumbers, StreamLength
    <3>3. Len(order) # 0
      <4>1. masterOffset = SetSize * Len(order)
        BY DEF WaitInv
      <4>2. SetSize * 0 = 0
        BY ReplicationAssumption
      <4> QED
        BY <2>1, <4>1, <4>2
    <3> QED
      BY <3>1, <3>2, <3>3 DEF Asks
  <2>2. CASE c = d /\ (Listed = {} \/ masterOffset = 0)
    <3>1. pc' = pc /\ target' = target /\ pc[c] = "idle"
      BY <1>4, <2>2 DEF WaitStart
    <3> QED
      BY <1>1, <3>1 DEF Asks
  <2>3. CASE c # d
    <3>1. pc'[c] = pc[c] /\ target'[c] = target[c] /\ count'[c] = count[c]
      <4>1. CASE Listed = {} \/ masterOffset = 0
        BY <1>2, <1>4, <2>3, <4>1 DEF WaitStart
      <4>2. CASE ~(Listed = {} \/ masterOffset = 0)
        BY <1>2, <1>4, <2>3, <4>2 DEF WaitStart
      <4> QED
        BY <4>1, <4>2
    <3> QED
      BY <1>1, <3>1 DEF Asks
  <2> QED
    BY <2>1, <2>2, <2>3
<1>5. ASSUME NEW d \in Clients, WaitGetAck(d) PROVE kept
  BY <1>2, <1>5 DEF WaitGetAck, Asks
<1>6. ASSUME NEW d \in Clients, WaitPoll(d) PROVE Claim
  <2>1. CASE c = d /\ ~(Cardinality(Caught) >= want[d])
    <3>1. /\ pc'[c] = "select" /\ target'[c] = target[c] /\ order' = order
          /\ count'[c] = Cardinality(Caught) /\ Asks(c)
      BY <1>2, <1>6, <2>1 DEF WaitPoll, Asks
    <3>2. Cardinality(Caught) <= Cardinality(Counted(c))
      BY <3>1, CaughtBounded
    <3>3. target[c] \in 1 .. Len(order)
      BY <3>1 DEF WaitInv
    <3>4. Cardinality(Counted(c)) <= Cardinality(Counted(c))'
      BY <1>0, <3>1, <3>3, CountedGrows
    <3>5. /\ Cardinality(Caught) \in Nat /\ Cardinality(Counted(c)) \in Nat
          /\ Cardinality(Counted(c))' \in Nat
      BY CountsAreNumbers, CountedFinite, CountedFiniteNext
    <3>6. count'[c] <= Cardinality(Counted(c))'
      BY <3>1, <3>2, <3>4, <3>5
    <3> QED
      BY <3>1, <3>3, <3>6
  <2>2. CASE c = d /\ Cardinality(Caught) >= want[d]
    <3>1. pc'[c] = "idle"
      BY <1>2, <1>6, <2>2 DEF WaitPoll, WaitReply
    <3> QED
      BY <3>1 DEF Asks
  <2>3. CASE c # d
    <3>1. pc'[c] = pc[c] /\ target'[c] = target[c] /\ count'[c] = count[c]
      <4>1. count'[c] = count[c]
        BY <1>2, <1>6, <2>3 DEF WaitPoll
      <4>2. CASE Cardinality(Caught) >= want[d]
        BY <1>2, <1>6, <2>3, <4>1, <4>2 DEF WaitPoll, WaitReply
      <4>3. CASE ~(Cardinality(Caught) >= want[d])
        BY <1>2, <1>6, <2>3, <4>1, <4>3 DEF WaitPoll
      <4> QED
        BY <4>2, <4>3
    <3> QED
      BY <1>1, <3>1 DEF Asks
  <2> QED
    BY <2>1, <2>2, <2>3
<1>7. ASSUME NEW d \in Clients, WaitTimeout(d) PROVE kept
  BY <1>2, <1>7 DEF WaitTimeout, WaitReply, Asks
<1>8. ASSUME NEW q \in Replicas, Master(q) \/ Replica(q) \/ Die(q) PROVE kept
  <2>1. UNCHANGED <<pc, target, count>>
    BY <1>8 DEF Master, PsyncSendRdb, PsyncRegister, ReceiveAck, Replica, LinkTake,
                LinkStore, LocalTake, LocalStore, Die, clientVars, history
  <2> QED
    BY <2>1 DEF Asks
<1>9. ASSUME UNCHANGED vars PROVE kept
  BY <1>9 DEF vars, clientVars, history, Asks
<1> HIDE DEF Claim, kept
<1>10. Claim
  BY <1>1, <1>3, <1>4, <1>5, <1>6, <1>7, <1>8, <1>9 DEF Next, Wait
<1> QED
  BY <1>10 DEF Claim

\* WAIT answers with the replicas that have the last command propagated before it,
\* and at most those others that have answered an earlier GETACK, whose bytes are in
\* their offsets and not in MasterOffset (handlers.go:868, 1026-1037).
THEOREM WaitCountBounded ==
  ASSUME LocalCommands = {}
  PROVE  Spec => WaitOvercountsOnlyReasked
<1> DEFINE none == \A r \in Replicas : locals[r] = 0
           fair == [][\A c \in Clients : WaitReturns(c) =>
                        count'[c] <= Cardinality(Counted(c))]_vars
<1>1. Init => WaitInv
  <2> SUFFICES ASSUME Init PROVE WaitInv
    OBVIOUS
  <2>1. masterOffset = 0 /\ Len(order) = 0 /\ \A c \in Clients : pc[c] = "idle"
    BY DEF Init
  <2>2. SetSize * 0 = 0
    BY ReplicationAssumption
  <2> QED
    BY <2>1, <2>2 DEF WaitInv, Asks
<1>2. OrderInv /\ AckCoversSets /\ none /\ WaitInv /\ [Next]_vars => WaitInv'
  BY WaitStep DEF Ground
<1>3. OrderInv /\ AckCoversSets /\ none /\ WaitInv /\ [Next]_vars =>
        [\A c \in Clients : WaitReturns(c) => count'[c] <= Cardinality(Counted(c))]_vars
  <2> SUFFICES ASSUME Ground, WaitInv, Next, NEW c \in Clients, WaitReturns(c)
               PROVE  count'[c] <= Cardinality(Counted(c))
    BY DEF Ground
  <2>1. TypeOK /\ pc[c] \in {"poll", "select"} /\ pc'[c] = "idle"
    BY DEF Ground, OrderInv, WaitReturns
  <2>2. /\ pc \in [Clients -> {"idle", "stored", "getack", "poll", "select"}]
        /\ count \in [Clients -> Nat]
    BY <2>1 DEF TypeOK, ClientTypes
  <2>3. ASSUME NEW d \in Clients, WaitPoll(d) PROVE count'[c] <= Cardinality(Counted(c))
    <3>1. d = c
      <4>1. CASE Cardinality(Caught) >= want[d]
        BY <2>1, <2>2, <2>3, <4>1 DEF WaitPoll, WaitReply
      <4>2. CASE ~(Cardinality(Caught) >= want[d])
        BY <2>1, <2>2, <2>3, <4>2 DEF WaitPoll
      <4> QED
        BY <4>1, <4>2
    <3>2. count'[c] = Cardinality(Caught) /\ Asks(c)
      BY <2>1, <2>2, <2>3, <3>1 DEF WaitPoll, Asks
    <3> QED
      BY <3>2, CaughtBounded
  <2>4. ASSUME NEW d \in Clients, WaitTimeout(d) PROVE count'[c] <= Cardinality(Counted(c))
    <3>1. d = c
      BY <2>1, <2>2, <2>4 DEF WaitTimeout, WaitReply
    <3>2. pc[c] = "select" /\ count'[c] = count[c]
      BY <2>4, <3>1 DEF WaitTimeout
    <3> QED
      BY <3>2 DEF WaitInv
  <2>5. ASSUME NEW d \in Clients, Set(d) PROVE FALSE
    BY <2>1, <2>2, <2>5 DEF Set, SetStore, SetPropagate
  <2>6. ASSUME NEW d \in Clients, NEW n \in WaitFor, NEW t \in Timeouts, WaitStart(d, n, t)
        PROVE  FALSE
    BY <2>1, <2>2, <2>6 DEF WaitStart
  <2>7. ASSUME NEW d \in Clients, WaitGetAck(d) PROVE FALSE
    BY <2>1, <2>2, <2>7 DEF WaitGetAck
  <2>8. ASSUME NEW q \in Replicas, Master(q) \/ Replica(q) \/ Die(q) PROVE FALSE
    <3>1. pc' = pc
      BY <2>8 DEF Master, PsyncSendRdb, PsyncRegister, ReceiveAck, Replica, LinkTake,
                  LinkStore, LocalTake, LocalStore, Die, clientVars
    <3> QED
      BY <2>1, <3>1
  <2> QED
    BY <2>3, <2>4, <2>5, <2>6, <2>7, <2>8 DEF Next, Wait
<1>4. Spec => fair
  BY <1>1, <1>2, <1>3, OrderAlways, AckedOffsetsCoverSets, NoLocals, PTL DEF Spec
<1>5. fair <=> WaitOvercountsOnlyReasked
  BY DEF WaitOvercountsOnlyReasked, Counted
<1> QED
  BY <1>4, <1>5
=============================================================================
