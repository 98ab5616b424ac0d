---------------------------- MODULE ListsProofs -----------------------------
(***************************************************************************)
(* Proofs about Lists: type correctness; that no interleaving of pushes,   *)
(* pops, timers and hang-ups can make RPUSH block on a waiter's channel or *)
(* drop a waiter; that none duplicates an element or loses one silently;   *)
(* and, while nothing is pushed on the left, that elements are served in   *)
(* push order, nobody waits beside an element, and the handlers implement  *)
(* FifoList - for any number of connections, any batch size and any        *)
(* commands.                                                               *)
(***************************************************************************)
EXTENDS Lists, SequenceTheorems, TLAPS

-----------------------------------------------------------------------------
(* The sequence operators the handlers are built from. *)

\* Splicing out the i-th waiter (handlers.go:655) keeps the others in order.
LEMMA RemoveAtProperties ==
  ASSUME NEW S, NEW s \in Seq(S), NEW i \in 1 .. Len(s)
  PROVE  /\ RemoveAt(s, i) \in Seq(S)
         /\ Len(RemoveAt(s, i)) = Len(s) - 1
         /\ \A k \in 1 .. Len(s) - 1 :
              RemoveAt(s, i)[k] = IF k < i THEN s[k] ELSE s[k + 1]
<1> DEFINE a == SubSeq(s, 1, i - 1)
           b == SubSeq(s, i + 1, Len(s))
<1>1. Len(s) \in Nat /\ \A k \in 1 .. Len(s) : s[k] \in S
  BY LenProperties
<1>2. a \in Seq(S) /\ Len(a) = i - 1 /\ \A k \in 1 .. i - 1 : a[k] = s[k]
  BY <1>1, SubSeqProperties
<1>3. b \in Seq(S) /\ Len(b) = Len(s) - i
      /\ \A k \in 1 .. Len(s) - i : b[k] = s[k + i]
  BY <1>1, SubSeqProperties
<1>4. /\ a \o b \in Seq(S)
      /\ Len(a \o b) = Len(a) + Len(b)
      /\ \A k \in 1 .. Len(a) + Len(b) :
           (a \o b)[k] = IF k <= Len(a) THEN a[k] ELSE b[k - Len(a)]
  BY <1>2, <1>3, ConcatProperties
<1>5. RemoveAt(s, i) = a \o b
  BY DEF RemoveAt
<1> HIDE DEF a, b
<1>6. ASSUME NEW k \in 1 .. Len(s) - 1
      PROVE  RemoveAt(s, i)[k] = IF k < i THEN s[k] ELSE s[k + 1]
  <2>1. CASE k < i
    BY <1>1, <1>2, <1>3, <1>4, <1>5, <2>1
  <2>2. CASE ~(k < i)
    <3>1. (a \o b)[k] = b[k - (i - 1)]
      BY <1>1, <1>2, <1>3, <1>4, <2>2
    <3>2. k - (i - 1) \in 1 .. Len(s) - i
      BY <1>1, <2>2
    <3>3. b[k - (i - 1)] = s[(k - (i - 1)) + i]
      BY <1>3, <3>2
    <3> QED
      BY <1>1, <1>5, <2>2, <3>1, <3>3
  <2> QED
    BY <2>1, <2>2
<1> QED
  BY <1>1, <1>2, <1>3, <1>4, <1>5, <1>6

\* The elements of a push are a sequence of elements, in either order.
LEMMA BatchType ==
  ASSUME pushed \in 0 .. MaxPushed, NEW n \in Nat, pushed + n <= MaxPushed
  PROVE  Batch(n) \in Seq(Elems) /\ Reverse(Batch(n)) \in Seq(Elems)
<1>1. Batch(n) \in [1 .. n -> Elems]
  BY ListsAssumption DEF Batch, Elems
<1>2. Batch(n) \in Seq(Elems) /\ Len(Batch(n)) = n
  BY <1>1
<1>3. Reverse(Batch(n)) \in [1 .. n -> Elems]
  BY <1>1, <1>2 DEF Reverse
<1> QED
  BY <1>2, <1>3

-----------------------------------------------------------------------------
\* Every variable keeps its type, whatever the handlers do.
LEMMA TypeStep == TypeOK /\ [Next]_vars => TypeOK'
<1> SUFFICES ASSUME TypeOK, [Next]_vars PROVE TypeOK'
  OBVIOUS
<1> USE ListsAssumption
<1>1. ASSUME NEW c \in Conns, NEW n \in 0 .. MaxBatch, RPush(c, n) PROVE TypeOK'
  <2>1. Batch(n) \in Seq(Elems)
    BY <1>1, BatchType DEF TypeOK, RPush
  <2> QED
    BY <1>1, <2>1 DEF TypeOK, RPush
<1>2. ASSUME NEW c \in Conns, NEW n \in 0 .. MaxBatch, LPush(c, n) PROVE TypeOK'
  <2>1. Reverse(Batch(n)) \in Seq(Elems)
    BY <1>2, BatchType DEF TypeOK, LPush
  <2>2. Reverse(Batch(n)) \o elements \in Seq(Elems)
    BY <2>1, ConcatProperties DEF TypeOK
  <2> QED
    BY <1>2, <2>2 DEF TypeOK, LPush
<1>3. ASSUME NEW c \in Conns, Hand(c) PROVE TypeOK'
  <2>1. /\ Head(newElems) \in Elems /\ Tail(newElems) \in Seq(Elems)
        /\ Head(clients) \in Conns /\ Tail(clients) \in Seq(Conns)
    BY <1>3, HeadTailProperties DEF TypeOK, Hand
  <2> QED
    BY <1>3, <2>1 DEF TypeOK, Hand
<1>4. ASSUME NEW c \in Conns, RPushDone(c) PROVE TypeOK'
  <2>1. elements \o newElems \in Seq(Elems)
    BY ConcatProperties DEF TypeOK
  <2> QED
    BY <1>4, <2>1 DEF TypeOK, RPushDone
<1>5. ASSUME NEW c \in Conns, NEW n \in Counts, LPop(c, n) PROVE TypeOK'
  <2>1. CASE n \in 0 .. Len(elements)
    <3>1. \A k \in 1 .. Len(elements) : elements[k] \in Elems
      BY DEF TypeOK
    <3>2. SubSeq(elements, n + 1, Len(elements)) \in Seq(Elems)
      BY <2>1, <3>1, SubSeqProperties DEF TypeOK
    <3>3. SubSeq(elements, 1, n) \in Seq(Elems)
      BY <2>1, <3>1, SubSeqProperties DEF TypeOK
    <3>4. Range(SubSeq(elements, 1, n)) \subseteq Elems
      BY <3>3 DEF Range
    <3> QED
      BY <1>5, <2>1, <3>2, <3>4 DEF TypeOK, LPop
  <2>2. CASE n \notin 0 .. Len(elements)
    BY <1>5, <2>2 DEF TypeOK, LPop, Panic, shared
  <2> QED
    BY <2>1, <2>2
<1>6. ASSUME NEW c \in Conns, NEW i \in Indices, NEW k \in Indices, LRange(c, i, k)
      PROVE  TypeOK'
  BY <1>6 DEF TypeOK, LRange, Panic, shared
<1>7. ASSUME NEW c \in Conns, NEW cmd, BLPopNow(c, cmd) PROVE TypeOK'
  <2>1. Head(elements) \in Elems /\ Tail(elements) \in Seq(Elems)
    BY <1>7, HeadTailProperties DEF TypeOK, BLPopNow
  <2> QED
    BY <1>7, <2>1 DEF TypeOK, BLPopNow
<1>8. ASSUME NEW c \in Conns, NEW cmd, BLPopWait(c, cmd) PROVE TypeOK'
  <2>1. timed' \in [Conns -> BOOLEAN]
    BY <1>8, (cmd = "BLPOP timeout") \in BOOLEAN DEF TypeOK, BLPopWait
  <2>2. clients' \in Seq(Conns)
    BY <1>8, AppendProperties DEF TypeOK, BLPopWait
  <2> QED
    BY <1>8, <2>1, <2>2 DEF TypeOK, BLPopWait
<1>9. ASSUME NEW c \in Conns, Receive(c) PROVE TypeOK'
  BY <1>9 DEF TypeOK, Receive, shared
<1>10. ASSUME NEW c \in Conns, Expire(c) PROVE TypeOK'
  BY <1>10 DEF TypeOK, Expire, shared
<1>11. ASSUME NEW c \in Conns, GiveUp(c) PROVE TypeOK'
  <2>1. clients' \in Seq(Conns)
    BY <1>11, RemoveAtProperties DEF TypeOK, GiveUp, Deregister
  <2> QED
    BY <1>11, <2>1 DEF TypeOK, GiveUp
<1>12. ASSUME NEW c \in Conns, HangUp(c) PROVE TypeOK'
  BY <1>12 DEF TypeOK, HangUp, shared
<1>13. CASE UNCHANGED vars
  BY <1>13 DEF TypeOK, vars
<1> QED
  BY <1>1, <1>2, <1>3, <1>4, <1>5, <1>6, <1>7, <1>8, <1>9, <1>10, <1>11, <1>12,
     <1>13 DEF Next, Step, Push, Pop, Read, BLPop

-----------------------------------------------------------------------------
(* The inductive invariant.  None of its parts is inductive alone: that a  *)
(* registered buffer is empty needs that a waiter is registered once and   *)
(* that a connection which is about to register has an empty buffer; that  *)
(* no waiter is forgotten needs the mutex to keep BLPOP's second critical  *)
(* section out of RPUSH's loop.                                            *)

WaitersOK == MutexMatchesHandler /\ RegisteredWaitersReady /\ NoForgottenWaiter

IInv == TypeOK /\ WaitersOK

\* A step that touches no waiter, channel, mutex or handler keeps the waiters
\* in order.
LEMMA WaitersUntouched ==
  ASSUME WaitersOK, UNCHANGED <<clients, chan, mutex, newElems, pc>>
  PROVE  WaitersOK'
BY DEF WaitersOK, MutexMatchesHandler, RegisteredWaitersReady, NoForgottenWaiter,
       Registered, InBLPop

\* RPUSH takes the mutex.
LEMMA WaitersRPush ==
  ASSUME IInv, NEW c \in Conns, NEW n \in 0 .. MaxBatch, RPush(c, n)
  PROVE  WaitersOK'
<1>1. MutexMatchesHandler'
  BY ListsAssumption
  DEF IInv, TypeOK, WaitersOK, MutexMatchesHandler, RPush, CanSend, Unlocked
<1>2. RegisteredWaitersReady'
  BY DEF IInv, TypeOK, WaitersOK, RegisteredWaitersReady, RPush, CanSend, InBLPop
<1>3. NoForgottenWaiter'
  BY DEF IInv, TypeOK, WaitersOK, NoForgottenWaiter, RPush, CanSend, Registered
<1> QED
  BY <1>1, <1>2, <1>3 DEF WaitersOK

\* One hand-over: the head of the waiters leaves, its buffer is filled.
LEMMA WaitersHand ==
  ASSUME IInv, NEW c \in Conns, Hand(c)
  PROVE  WaitersOK'
<1> DEFINE w == Head(clients)
<1>1. /\ clients \in Seq(Conns) /\ clients # <<>>
      /\ newElems \in Seq(Elems) /\ newElems # <<>>
  BY DEF IInv, TypeOK, Hand
<1>2. /\ w \in Conns /\ w = clients[1] /\ 1 \in DOMAIN clients
      /\ Tail(clients) \in Seq(Conns)
      /\ Len(Tail(clients)) = Len(clients) - 1
      /\ \A k \in 1 .. Len(Tail(clients)) : Tail(clients)[k] = clients[k + 1]
  BY <1>1, HeadTailProperties
<1>3. /\ clients' = Tail(clients) /\ pc' = pc /\ mutex' = mutex
      /\ newElems' = Tail(newElems)
      /\ chan' = [chan EXCEPT ![w] = Head(newElems)]
  BY DEF Hand
<1>4. MutexMatchesHandler'
  <2>1. mutex = c /\ mutex # Free
    BY ListsAssumption DEF IInv, WaitersOK, MutexMatchesHandler, Hand
  <2> QED
    BY <1>3, <2>1 DEF IInv, WaitersOK, MutexMatchesHandler
<1>5. /\ Head(newElems) \in Elems
      /\ Head(newElems) # NoElem
  BY <1>1, HeadTailProperties, ListsAssumption DEF Elems, NoElem
<1>6. \A k \in DOMAIN clients' : k + 1 \in DOMAIN clients /\ clients'[k] = clients[k + 1]
  BY <1>1, <1>2, <1>3
<1>7. RegisteredWaitersReady'
  <2>1. \A i, k \in DOMAIN clients : clients[i] = clients[k] => i = k
    BY DEF IInv, WaitersOK, RegisteredWaitersReady
  <2>2. \A k \in DOMAIN clients' : k + 1 # 1
    BY <1>1, <1>2, <1>3
  <2>3. \A k \in DOMAIN clients' : clients'[k] # w
    BY <1>2, <1>6, <2>1, <2>2
  <2>4. ASSUME NEW i \in DOMAIN clients', NEW k \in DOMAIN clients',
               clients'[i] = clients'[k]
        PROVE  i = k
    <3>1. i + 1 = k + 1
      BY <1>6, <2>1, <2>4
    <3> QED
      BY <1>1, <1>2, <1>3, <3>1
  <2>5. \A d \in Conns : d # w => chan'[d] = chan[d]
    BY <1>2, <1>3 DEF IInv, TypeOK
  <2>6. ASSUME NEW k \in DOMAIN clients'
        PROVE  InBLPop(clients[k])' /\ chan'[clients'[k]] = NoElem
    <3>1. clients[k + 1] \in Conns
      BY <1>1, <1>6
    <3>2. InBLPop(clients[k + 1]) /\ chan[clients[k + 1]] = NoElem
      BY <1>6 DEF IInv, WaitersOK, RegisteredWaitersReady
    <3> QED
      BY <1>3, <1>6, <2>3, <2>5, <3>1, <3>2 DEF InBLPop
  <2>7. InBLPop(w)
    BY <1>2 DEF IInv, WaitersOK, RegisteredWaitersReady
  <2>8. ASSUME NEW d \in Conns, chan'[d] # NoElem
        PROVE  InBLPop(d)'
    <3>1. InBLPop(d)
      BY <2>5, <2>7, <2>8 DEF IInv, WaitersOK, RegisteredWaitersReady
    <3> QED
      BY <1>3, <3>1 DEF InBLPop
  <2> QED
    BY <2>4, <2>6, <2>8 DEF RegisteredWaitersReady
<1>8. NoForgottenWaiter'
  <2> SUFFICES ASSUME NEW d \in Conns, pc'[d] = "blocked", chan'[d] = NoElem
               PROVE  Registered(d)'
    BY DEF NoForgottenWaiter
  <2>1. d # w
    BY <1>2, <1>3, <1>5 DEF IInv, TypeOK
  <2>2. chan[d] = NoElem /\ pc[d] = "blocked"
    BY <1>2, <1>3, <2>1 DEF IInv, TypeOK
  <2>3. PICK i \in DOMAIN clients : clients[i] = d
    BY <2>2 DEF IInv, WaitersOK, NoForgottenWaiter, Registered
  <2>4. i - 1 \in DOMAIN clients' /\ clients'[i - 1] = d
    BY <1>1, <1>2, <1>3, <2>1, <2>3
  <2> QED
    BY <2>4 DEF Registered
<1> QED
  BY <1>4, <1>7, <1>8 DEF WaitersOK

\* RPUSH releases the mutex.
LEMMA WaitersRPushDone ==
  ASSUME IInv, NEW c \in Conns, RPushDone(c)
  PROVE  WaitersOK'
<1>1. mutex = c
  BY DEF IInv, WaitersOK, MutexMatchesHandler, RPushDone
<1>2. /\ pc[c] = "pushing" /\ pc' = [pc EXCEPT ![c] = "idle"]
      /\ mutex' = Free /\ newElems' = <<>> /\ chan' = chan /\ clients' = clients
  BY DEF RPushDone
<1>3. \A d \in Conns : pc'[d] = IF d = c THEN "idle" ELSE pc[d]
  BY <1>2 DEF IInv, TypeOK
<1>4. MutexMatchesHandler'
  BY <1>1, <1>2, <1>3, ListsAssumption DEF IInv, WaitersOK, MutexMatchesHandler
<1>5. clients \in Seq(Conns)
  BY DEF IInv, TypeOK
<1>6. \A k \in DOMAIN clients : clients[k] \in Conns
  BY <1>5
<1>7. RegisteredWaitersReady'
  BY <1>2, <1>3, <1>6 DEF IInv, WaitersOK, RegisteredWaitersReady, InBLPop
<1>8. NoForgottenWaiter'
  BY <1>2, <1>3 DEF IInv, WaitersOK, NoForgottenWaiter, Registered
<1> QED
  BY <1>4, <1>7, <1>8 DEF WaitersOK

\* BLPOP registers a channel: its connection had none before.
LEMMA WaitersBLPopWait ==
  ASSUME IInv, NEW c \in Conns, NEW cmd, BLPopWait(c, cmd)
  PROVE  WaitersOK'
<1>1. /\ clients \in Seq(Conns)
      /\ clients' = Append(clients, c) /\ pc' = [pc EXCEPT ![c] = "blocked"]
      /\ chan' = chan /\ mutex' = mutex /\ newElems' = newElems
      /\ pc[c] = "idle"
  BY DEF IInv, TypeOK, BLPopWait, CanSend
<1>2. \A d \in Conns : pc'[d] = IF d = c THEN "blocked" ELSE pc[d]
  BY <1>1 DEF IInv, TypeOK
<1>3. /\ Len(clients) \in Nat
      /\ DOMAIN clients = 1 .. Len(clients)
      /\ DOMAIN clients' = 1 .. Len(clients) + 1
      /\ clients'[Len(clients) + 1] = c
      /\ \A k \in DOMAIN clients : clients[k] \in Conns /\ clients'[k] = clients[k]
  BY <1>1, AppendProperties
<1>4. MutexMatchesHandler'
  BY <1>1, <1>2 DEF IInv, WaitersOK, MutexMatchesHandler
<1>5. \A k \in DOMAIN clients : clients[k] # c
  BY <1>1 DEF IInv, WaitersOK, RegisteredWaitersReady, InBLPop
<1>6. chan[c] = NoElem
  BY <1>1 DEF IInv, WaitersOK, RegisteredWaitersReady, InBLPop
<1>7. RegisteredWaitersReady'
  <2>1. ASSUME NEW i \in DOMAIN clients', NEW k \in DOMAIN clients',
               clients'[i] = clients'[k]
        PROVE  i = k
    BY <1>3, <1>5, <2>1 DEF IInv, WaitersOK, RegisteredWaitersReady
  <2>2. ASSUME NEW k \in DOMAIN clients'
        PROVE  InBLPop(clients[k])' /\ chan'[clients'[k]] = NoElem
    <3>1. CASE k = Len(clients) + 1
      BY <1>1, <1>2, <1>3, <1>6, <3>1 DEF InBLPop
    <3>2. CASE k \in DOMAIN clients
      BY <1>1, <1>2, <1>3, <1>5, <3>2
      DEF IInv, WaitersOK, RegisteredWaitersReady, InBLPop
    <3> QED
      BY <1>3, <3>1, <3>2
  <2>3. ASSUME NEW d \in Conns, chan'[d] # NoElem
        PROVE  InBLPop(d)'
    BY <1>1, <1>2, <2>3 DEF IInv, WaitersOK, RegisteredWaitersReady, InBLPop
  <2> QED
    BY <2>1, <2>2, <2>3 DEF RegisteredWaitersReady
<1>8. NoForgottenWaiter'
  <2> SUFFICES ASSUME NEW d \in Conns, pc'[d] = "blocked"
               PROVE  Registered(d)' \/ chan'[d] # NoElem
    BY DEF NoForgottenWaiter
  <2>1. CASE d = c
    BY <1>3, <2>1 DEF Registered
  <2>2. CASE d # c
    <3>1. Registered(d) \/ chan[d] # NoElem
      BY <1>2, <2>2 DEF IInv, WaitersOK, NoForgottenWaiter
    <3> QED
      BY <1>1, <1>3, <3>1 DEF Registered
  <2> QED
    BY <2>1, <2>2
<1> QED
  BY <1>4, <1>7, <1>8 DEF WaitersOK

\* A waiter takes its element: a full buffer is not registered.
LEMMA WaitersReceive ==
  ASSUME IInv, NEW c \in Conns, Receive(c)
  PROVE  WaitersOK'
<1>1. /\ clients' = clients /\ mutex' = mutex /\ newElems' = newElems
      /\ pc[c] = "blocked" /\ pc' = [pc EXCEPT ![c] = "idle"]
      /\ chan[c] # NoElem /\ chan' = [chan EXCEPT ![c] = NoElem]
  BY DEF Receive, shared
<1>2. \A d \in Conns : /\ pc'[d] = IF d = c THEN "idle" ELSE pc[d]
                       /\ chan'[d] = IF d = c THEN NoElem ELSE chan[d]
  BY <1>1 DEF IInv, TypeOK
<1>3. \A k \in DOMAIN clients : clients[k] \in Conns /\ clients[k] # c
  BY <1>1 DEF IInv, TypeOK, WaitersOK, RegisteredWaitersReady
<1>4. MutexMatchesHandler'
  BY <1>1, <1>2 DEF IInv, WaitersOK, MutexMatchesHandler
<1>5. RegisteredWaitersReady'
  BY <1>1, <1>2, <1>3 DEF IInv, WaitersOK, RegisteredWaitersReady, InBLPop
<1>6. NoForgottenWaiter'
  BY <1>1, <1>2 DEF IInv, WaitersOK, NoForgottenWaiter, Registered
<1> QED
  BY <1>4, <1>5, <1>6 DEF WaitersOK

\* The timer wins: the waiter stays registered until it gets the mutex.
LEMMA WaitersExpire ==
  ASSUME IInv, NEW c \in Conns, Expire(c)
  PROVE  WaitersOK'
<1>1. /\ clients' = clients /\ mutex' = mutex /\ newElems' = newElems
      /\ chan' = chan
      /\ pc[c] = "blocked" /\ pc' = [pc EXCEPT ![c] = "expired"]
  BY DEF Expire, shared
<1>2. \A d \in Conns : pc'[d] = IF d = c THEN "expired" ELSE pc[d]
  BY <1>1 DEF IInv, TypeOK
<1>3. \A k \in DOMAIN clients : clients[k] \in Conns
  BY DEF IInv, TypeOK
<1>4. MutexMatchesHandler'
  BY <1>1, <1>2 DEF IInv, WaitersOK, MutexMatchesHandler
<1>5. RegisteredWaitersReady'
  BY <1>1, <1>2, <1>3 DEF IInv, WaitersOK, RegisteredWaitersReady, InBLPop
<1>6. NoForgottenWaiter'
  BY <1>1, <1>2 DEF IInv, WaitersOK, NoForgottenWaiter, Registered
<1> QED
  BY <1>4, <1>5, <1>6 DEF WaitersOK

\* The timed-out waiter leaves list.clients, the others keep their order.
LEMMA WaitersGiveUp ==
  ASSUME IInv, NEW c \in Conns, GiveUp(c)
  PROVE  WaitersOK'
<1>1. /\ mutex' = mutex /\ newElems' = newElems
      /\ pc[c] = "expired" /\ pc' = [pc EXCEPT ![c] = "idle"]
      /\ chan' = [chan EXCEPT ![c] = NoElem]
      /\ clients \in Seq(Conns)
  BY DEF GiveUp, IInv, TypeOK
<1>2. \A d \in Conns : /\ pc'[d] = IF d = c THEN "idle" ELSE pc[d]
                       /\ chan'[d] = IF d = c THEN NoElem ELSE chan[d]
  BY <1>1 DEF IInv, TypeOK
<1>3. \A i, k \in DOMAIN clients : clients[i] = clients[k] => i = k
  BY DEF IInv, WaitersOK, RegisteredWaitersReady
\* Both ways of leaving: a waiter d # c keeps exactly one entry.
<1>4. /\ \A k \in DOMAIN clients' : clients'[k] \in Conns /\ clients'[k] # c
      /\ \A k \in DOMAIN clients' : \E m \in DOMAIN clients : clients[m] = clients'[k]
      /\ \A k, m \in DOMAIN clients' : clients'[k] = clients'[m] => k = m
      /\ \A d \in Conns : d # c /\ Registered(d) => Registered(d)'
  <2>1. CASE \E i \in DOMAIN clients : clients[i] = c /\ clients' = RemoveAt(clients, i)
    <3>1. PICK i \in DOMAIN clients : clients[i] = c /\ clients' = RemoveAt(clients, i)
      BY <2>1
    <3>2. /\ Len(clients) \in Nat
          /\ DOMAIN clients = 1 .. Len(clients)
          /\ DOMAIN clients' = 1 .. Len(clients) - 1
          /\ \A k \in DOMAIN clients' :
               clients'[k] = IF k < i THEN clients[k] ELSE clients[k + 1]
      <4>1. Len(clients) \in Nat /\ DOMAIN clients = 1 .. Len(clients)
        BY <1>1, LenProperties
      <4>2. i \in 1 .. Len(clients)
        BY <4>1
      <4>3. DOMAIN clients' = 1 .. Len(clients')
        BY <1>1, <3>1, <4>2, RemoveAtProperties, LenProperties
      <4> QED
        BY <1>1, <3>1, <4>1, <4>2, <4>3, RemoveAtProperties
    <3> DEFINE old(k) == IF k < i THEN k ELSE k + 1
    <3>3. \A k \in DOMAIN clients' :
            old(k) \in DOMAIN clients /\ old(k) # i /\ clients'[k] = clients[old(k)]
      BY <3>1, <3>2
    <3>4. \A k, m \in DOMAIN clients' : old(k) = old(m) => k = m
      BY <3>1, <3>2
    <3> HIDE DEF old
    <3>5. \A k \in DOMAIN clients' : clients'[k] \in Conns /\ clients'[k] # c
      BY <1>1, <1>3, <3>1, <3>3
    <3>6. \A k, m \in DOMAIN clients' : clients'[k] = clients'[m] => k = m
      BY <1>3, <3>3, <3>4
    <3>7. ASSUME NEW d \in Conns, d # c, Registered(d) PROVE Registered(d)'
      <4>1. PICK m \in DOMAIN clients : clients[m] = d
        BY <3>7 DEF Registered
      <4>2. m # i
        BY <3>1, <3>7, <4>1
      <4>3. CASE m < i
        <5>1. m \in DOMAIN clients' /\ clients'[m] = d
          BY <3>1, <3>2, <4>1, <4>3
        <5> QED
          BY <5>1 DEF Registered
      <4>4. CASE m > i
        <5>1. m - 1 \in DOMAIN clients' /\ clients'[m - 1] = clients[(m - 1) + 1]
          BY <3>1, <3>2, <4>1, <4>4
        <5>2. (m - 1) + 1 = m
          BY <3>2, <4>1
        <5> QED
          BY <4>1, <5>1, <5>2 DEF Registered
      <4> QED
        BY <3>1, <3>2, <4>1, <4>2, <4>3, <4>4
    <3> QED
      BY <3>3, <3>5, <3>6, <3>7
  <2>2. CASE (\A i \in DOMAIN clients : clients[i] # c) /\ UNCHANGED clients
    BY <1>1, <1>3, <2>2 DEF Registered
  <2> QED
    BY <2>1, <2>2 DEF GiveUp, Deregister
<1>5. MutexMatchesHandler'
  BY <1>1, <1>2 DEF IInv, WaitersOK, MutexMatchesHandler
<1>6. RegisteredWaitersReady'
  <2>1. ASSUME NEW k \in DOMAIN clients'
        PROVE  InBLPop(clients[k])' /\ chan'[clients'[k]] = NoElem
    <3>1. PICK m \in DOMAIN clients : clients[m] = clients'[k]
      BY <1>4
    <3>2. InBLPop(clients[m]) /\ chan[clients[m]] = NoElem
      BY DEF IInv, WaitersOK, RegisteredWaitersReady
    <3>3. clients'[k] \in Conns /\ clients'[k] # c
      BY <1>4
    <3> QED
      BY <1>2, <3>1, <3>2, <3>3 DEF InBLPop
  <2>2. ASSUME NEW d \in Conns, chan'[d] # NoElem
        PROVE  InBLPop(d)'
    BY <1>2, <2>2 DEF IInv, WaitersOK, RegisteredWaitersReady, InBLPop
  <2> QED
    BY <1>4, <2>1, <2>2 DEF RegisteredWaitersReady
<1>7. NoForgottenWaiter'
  <2> SUFFICES ASSUME NEW d \in Conns, pc'[d] = "blocked", chan'[d] = NoElem
               PROVE  Registered(d)'
    BY DEF NoForgottenWaiter
  <2>1. d # c /\ pc[d] = "blocked" /\ chan[d] = NoElem
    BY <1>2
  <2>2. Registered(d)
    BY <2>1 DEF IInv, WaitersOK, NoForgottenWaiter
  <2> QED
    BY <1>4, <2>1, <2>2
<1> QED
  BY <1>5, <1>6, <1>7 DEF WaitersOK

-----------------------------------------------------------------------------
\* Every step of every handler keeps the waiters in order.
LEMMA WaitersStep == IInv /\ [Next]_vars => WaitersOK'
<1> SUFFICES ASSUME IInv, [Next]_vars PROVE WaitersOK'
  OBVIOUS
<1>0. WaitersOK
  BY DEF IInv
<1>1. ASSUME NEW c \in Conns, NEW n \in 0 .. MaxBatch, RPush(c, n) \/ LPush(c, n)
      PROVE  WaitersOK'
  BY <1>0, <1>1, WaitersRPush, WaitersUntouched DEF LPush
<1>2. ASSUME NEW c \in Conns, NEW n \in Counts, LPop(c, n) PROVE WaitersOK'
  BY <1>0, <1>2, WaitersUntouched DEF LPop, Panic, shared
<1>3. ASSUME NEW c \in Conns, NEW i \in Indices, NEW k \in Indices, LRange(c, i, k)
      PROVE  WaitersOK'
  BY <1>0, <1>3, WaitersUntouched DEF LRange, Panic, shared
<1>4. ASSUME NEW c \in Conns, NEW cmd, BLPopNow(c, cmd) \/ BLPopWait(c, cmd)
      PROVE  WaitersOK'
  BY <1>0, <1>4, WaitersUntouched, WaitersBLPopWait DEF BLPopNow
<1>5. ASSUME NEW c \in Conns, Hand(c) PROVE WaitersOK'
  BY <1>5, WaitersHand
<1>6. ASSUME NEW c \in Conns, RPushDone(c) PROVE WaitersOK'
  BY <1>6, WaitersRPushDone
<1>7. ASSUME NEW c \in Conns, Receive(c) PROVE WaitersOK'
  BY <1>7, WaitersReceive
<1>8. ASSUME NEW c \in Conns, Expire(c) PROVE WaitersOK'
  BY <1>8, WaitersExpire
<1>9. ASSUME NEW c \in Conns, GiveUp(c) PROVE WaitersOK'
  BY <1>9, WaitersGiveUp
<1>10. ASSUME NEW c \in Conns, HangUp(c) PROVE WaitersOK'
  BY <1>0, <1>10, WaitersUntouched DEF HangUp, shared
<1>11. CASE UNCHANGED vars
  BY <1>0, <1>11, WaitersUntouched DEF vars
<1> QED
  BY <1>1, <1>2, <1>3, <1>4, <1>5, <1>6, <1>7, <1>8, <1>9, <1>10, <1>11
  DEF Next, Step, Push, Pop, Read, BLPop

\* The empty server satisfies the invariant.
LEMMA InitIInv == Init => IInv
<1> SUFFICES ASSUME Init PROVE IInv
  OBVIOUS
<1>1. TypeOK
  <2>1. elements \in Seq(Elems) /\ clients \in Seq(Conns) /\ newElems \in Seq(Elems)
    BY EmptySeq DEF Init
  <2>2. /\ up \in BOOLEAN /\ exists \in BOOLEAN /\ timed \in [Conns -> BOOLEAN]
        /\ gone \subseteq Conns /\ delivered \subseteq Elems
    BY DEF Init
  <2>3. /\ chan \in [Conns -> Elems \cup {NoElem}]
        /\ mutex \in Conns \cup {Free}
        /\ pc \in [Conns -> {"idle", "pushing", "blocked", "expired"}]
        /\ pushed \in 0 .. MaxPushed
    BY ListsAssumption DEF Init, NoElem
  <2> QED
    BY <2>1, <2>2, <2>3 DEF TypeOK
<1>2. MutexMatchesHandler
  BY ListsAssumption DEF Init, MutexMatchesHandler
<1>3. RegisteredWaitersReady
  <2>1. DOMAIN clients = {}
    <3>1. clients \in Seq(Conns) /\ Len(clients) = 0
      BY EmptySeq DEF Init
    <3> QED
      BY <3>1, LenProperties
  <2>2. \A c \in Conns : chan[c] = NoElem
    BY DEF Init
  <2> QED
    BY <2>1, <2>2 DEF RegisteredWaitersReady
<1>4. NoForgottenWaiter
  BY DEF Init, NoForgottenWaiter
<1> QED
  BY <1>1, <1>2, <1>3, <1>4 DEF IInv, WaitersOK

\* Every state of every run has its types.
THEOREM TypeCorrect == Spec => []TypeOK
<1>1. Init => TypeOK
  BY InitIInv DEF IInv
<1> QED
  BY <1>1, TypeStep, PTL DEF Spec

\* The inductive invariant holds for ever.
THEOREM Invariance == Spec => []IInv
<1>1. IInv /\ [Next]_vars => IInv'
  BY TypeStep, WaitersStep DEF IInv
<1> QED
  BY InitIInv, <1>1, PTL DEF Spec

\* RPUSH's send on a waiter's channel (handlers.go:358) never blocks: the
\* waiter at the head of list.clients is still in BLPOP and its buffer is empty.
THEOREM WaitersReady == Spec => []RegisteredWaitersReady
<1>1. IInv => RegisteredWaitersReady
  BY DEF IInv, WaitersOK
<1> QED
  BY <1>1, Invariance, PTL

\* No blocked BLPOP is dropped from list.clients without an element
\* (handlers.go:354-362, 653-658).
THEOREM NobodyForgotten == Spec => []NoForgottenWaiter
<1>1. IInv => NoForgottenWaiter
  BY DEF IInv, WaitersOK
<1> QED
  BY <1>1, Invariance, PTL

-----------------------------------------------------------------------------
(* The sequences the handlers compute, element by element. *)

\* A type-correct list, spelled out.
LEMMA ListTypes ==
  ASSUME TypeOK
  PROVE  /\ elements \in Seq(Elems) /\ newElems \in Seq(Elems)
         /\ Len(elements) \in Nat /\ Len(newElems) \in Nat
         /\ DOMAIN elements = 1 .. Len(elements)
         /\ DOMAIN newElems = 1 .. Len(newElems)
         /\ \A i \in DOMAIN elements : elements[i] \in Elems
         /\ \A i \in DOMAIN newElems : newElems[i] \in Elems
         /\ \A c \in Conns : chan[c] \in Elems \cup {NoElem}
         /\ delivered \subseteq Elems
BY LenProperties DEF TypeOK

\* Elements and the contents of channels are numbers.
LEMMA ListNumbers ==
  ASSUME TypeOK
  PROVE  /\ \A i \in DOMAIN elements : elements[i] \in Nat
         /\ \A i \in DOMAIN newElems : newElems[i] \in Nat
         /\ \A c \in Conns : chan[c] \in Nat
         /\ \A e \in delivered : e \in Nat
         /\ pushed \in Nat
<1>1. Elems \cup {NoElem} \subseteq Nat /\ 0 .. MaxPushed \subseteq Nat
  BY ListsAssumption DEF Elems, NoElem
<1> QED
  BY <1>1, ListTypes DEF TypeOK

\* The elements of a push are the next numbers, in the order of the command.
LEMMA BatchElements ==
  ASSUME pushed \in 0 .. MaxPushed, NEW n \in Nat, pushed + n <= MaxPushed
  PROVE  /\ Len(Batch(n)) = n
         /\ DOMAIN Batch(n) = 1 .. n
         /\ \A k \in 1 .. n : Batch(n)[k] = pushed + k
         /\ Len(Reverse(Batch(n))) = n
         /\ \A k \in 1 .. n : Reverse(Batch(n))[k] = pushed + n - k + 1
<1>1. Batch(n) \in [1 .. n -> Elems] /\ \A k \in 1 .. n : Batch(n)[k] = pushed + k
  BY ListsAssumption DEF Batch, Elems
<1>2. Len(Batch(n)) = n /\ DOMAIN Batch(n) = 1 .. n
  BY <1>1
<1>3. Reverse(Batch(n)) = [k \in 1 .. n |-> Batch(n)[(n - k) + 1]]
  BY <1>2 DEF Reverse
<1>4. Len(Reverse(Batch(n))) = n
  BY <1>3
<1>5. ASSUME NEW k \in 1 .. n PROVE Reverse(Batch(n))[k] = pushed + n - k + 1
  <2>1. (n - k) + 1 \in 1 .. n
    OBVIOUS
  <2> QED
    BY <1>1, <1>3, <2>1, ListsAssumption
<1> QED
  BY <1>1, <1>2, <1>4, <1>5

\* What LPOP and BLPOP leave, and what they take.
LEMMA DropFirst ==
  ASSUME NEW S, NEW s \in Seq(S), NEW n \in 0 .. Len(s)
  PROVE  LET rest == SubSeq(s, n + 1, Len(s))
             took == SubSeq(s, 1, n)
         IN  /\ rest \in Seq(S)
             /\ Len(rest) = Len(s) - n
             /\ DOMAIN rest = 1 .. Len(s) - n
             /\ \A k \in 1 .. Len(s) - n : rest[k] = s[k + n]
             /\ Range(took) = {s[k] : k \in 1 .. n}
<1>1. Len(s) \in Nat /\ \A k \in 1 .. Len(s) : s[k] \in S
  BY LenProperties
<1>2. /\ SubSeq(s, n + 1, Len(s)) \in Seq(S)
      /\ Len(SubSeq(s, n + 1, Len(s))) = Len(s) - n
      /\ \A k \in 1 .. Len(s) - n : SubSeq(s, n + 1, Len(s))[k] = s[k + n]
  BY <1>1, SubSeqProperties
<1>3. /\ SubSeq(s, 1, n) \in Seq(S)
      /\ Len(SubSeq(s, 1, n)) = n
      /\ \A k \in 1 .. n : SubSeq(s, 1, n)[k] = s[k]
  BY <1>1, SubSeqProperties
<1>4. DOMAIN SubSeq(s, 1, n) = 1 .. n
  BY <1>1, <1>3, LenProperties
<1>5. Range(SubSeq(s, 1, n)) = {s[k] : k \in 1 .. n}
  BY <1>3, <1>4 DEF Range
<1> QED
  BY <1>1, <1>2, <1>5, LenProperties

-----------------------------------------------------------------------------
(* No element is twice in the server.  NoDuplicate speaks of the list as a *)
(* whole; Apart says the same place by place, and adds what makes it       *)
(* inductive: only elements that have been pushed are anywhere, so the     *)
(* numbers of the next push are new.                                       *)

ListApart ==
  /\ \A i, k \in DOMAIN elements : elements[i] = elements[k] => i = k
  /\ \A i, k \in DOMAIN newElems : newElems[i] = newElems[k] => i = k
  /\ \A i \in DOMAIN elements, k \in DOMAIN newElems : elements[i] # newElems[k]

HandedApart ==
  /\ \A c, d \in Conns : chan[c] = chan[d] /\ chan[c] # NoElem => c = d
  /\ \A c \in Conns, i \in DOMAIN elements : chan[c] # elements[i]
  /\ \A c \in Conns, i \in DOMAIN newElems : chan[c] # newElems[i]

DeliveredApart ==
  /\ \A i \in DOMAIN elements : elements[i] \notin delivered
  /\ \A i \in DOMAIN newElems : newElems[i] \notin delivered
  /\ \A c \in Conns : chan[c] \notin delivered

AllPushed ==
  /\ \A i \in DOMAIN elements : elements[i] <= pushed
  /\ \A i \in DOMAIN newElems : newElems[i] <= pushed
  /\ \A c \in Conns : chan[c] <= pushed
  /\ \A e \in delivered : e <= pushed

Apart == ListApart /\ HandedApart /\ DeliveredApart /\ AllPushed

\* A step that moves no element keeps them apart.
LEMMA ApartUntouched ==
  ASSUME Apart, UNCHANGED <<elements, newElems, chan, delivered, pushed>>
  PROVE  Apart'
BY DEF Apart, ListApart, HandedApart, DeliveredApart, AllPushed

\* RPUSH brings new elements.
LEMMA ApartRPush ==
  ASSUME IInv, Apart, NEW c \in Conns, NEW n \in 0 .. MaxBatch, RPush(c, n)
  PROVE  Apart'
<1>1. /\ newElems' = Batch(n) /\ pushed' = pushed + n /\ pushed \in Nat /\ n \in Nat
      /\ elements' = elements /\ chan' = chan /\ delivered' = delivered
  BY ListsAssumption DEF RPush, IInv, TypeOK
<1>2. /\ DOMAIN newElems' = 1 .. n
      /\ \A k \in 1 .. n : newElems'[k] = pushed + k
  BY <1>1, BatchElements DEF RPush, IInv, TypeOK
<1>3. /\ \A i \in DOMAIN elements : elements[i] \in Nat
      /\ \A d \in Conns : chan[d] \in Nat
      /\ \A e \in delivered : e \in Nat
  BY ListNumbers DEF IInv
<1>4. ListApart'
  BY <1>1, <1>2, <1>3 DEF Apart, ListApart, AllPushed
<1>5. HandedApart'
  BY <1>1, <1>2, <1>3 DEF Apart, HandedApart, AllPushed
<1>6. DeliveredApart'
  BY <1>1, <1>2, <1>3 DEF Apart, DeliveredApart, AllPushed
<1>7. AllPushed'
  BY <1>1, <1>2, <1>3 DEF Apart, AllPushed
<1> QED
  BY <1>4, <1>5, <1>6, <1>7 DEF Apart

\* LPUSH too; RPUSH holds none meanwhile, because LPUSH has the mutex.
LEMMA ApartLPush ==
  ASSUME IInv, Apart, NEW c \in Conns, NEW n \in 0 .. MaxBatch, LPush(c, n)
  PROVE  Apart'
<1>1. /\ pushed' = pushed + n /\ pushed \in Nat /\ n \in Nat
      /\ newElems' = newElems /\ chan' = chan /\ delivered' = delivered
  BY ListsAssumption DEF LPush, IInv, TypeOK
<1>2. /\ elements \in Seq(Elems) /\ Len(elements) \in Nat
      /\ DOMAIN elements = 1 .. Len(elements)
      /\ \A i \in DOMAIN elements : elements[i] \in Nat
      /\ \A d \in Conns : chan[d] \in Nat
      /\ \A e \in delivered : e \in Nat
  BY ListTypes, ListNumbers DEF IInv
<1>3. DOMAIN newElems = {}
  <2>1. newElems = <<>>
    BY DEF LPush, Unlocked, IInv, WaitersOK, MutexMatchesHandler
  <2> QED
    BY <2>1, EmptySeq, LenProperties
<1>4. /\ DOMAIN elements' = 1 .. n + Len(elements)
      /\ \A k \in DOMAIN elements' :
           elements'[k] = IF k <= n THEN pushed + n - k + 1 ELSE elements[k - n]
  <2>1. /\ Reverse(Batch(n)) \in Seq(Elems) /\ Len(Reverse(Batch(n))) = n
        /\ \A k \in 1 .. n : Reverse(Batch(n))[k] = pushed + n - k + 1
    BY <1>1, BatchType, BatchElements DEF LPush, IInv, TypeOK
  <2> DEFINE b == Reverse(Batch(n))
  <2>0. b \in Seq(Elems) /\ Len(b) = n
    BY <2>1
  <2> HIDE DEF b
  <2>2. /\ b \o elements \in Seq(Elems)
        /\ Len(b \o elements) = n + Len(elements)
        /\ \A k \in 1 .. n + Len(elements) :
             (b \o elements)[k] = IF k <= n THEN b[k] ELSE elements[k - n]
    BY <1>2, <2>0, ConcatProperties
  <2>3. elements' = b \o elements
    BY DEF LPush, b
  <2>4. DOMAIN elements' = 1 .. n + Len(elements)
    BY <2>2, <2>3, LenProperties
  <2> QED
    BY <1>1, <2>1, <2>2, <2>3, <2>4 DEF b
<1>5. ListApart'
  <2> SUFFICES ASSUME NEW i \in DOMAIN elements', NEW k \in DOMAIN elements',
                      elements'[i] = elements'[k]
               PROVE  i = k
    BY <1>1, <1>3 DEF ListApart
  <2>1. n \in Nat /\ pushed \in Nat /\ i \in Nat /\ k \in Nat
    BY <1>1, <1>2, <1>4
  <2>2. ASSUME NEW m \in DOMAIN elements', m > n
        PROVE  /\ m - n \in DOMAIN elements
               /\ elements'[m] = elements[m - n]
               /\ elements'[m] \in Nat /\ elements'[m] <= pushed
    <3>1. m - n \in DOMAIN elements /\ elements'[m] = elements[m - n]
      BY <1>1, <1>2, <1>4, <2>2
    <3> QED
      BY <1>2, <3>1 DEF Apart, AllPushed
  <2>3. ASSUME NEW m \in DOMAIN elements', ~(m > n)
        PROVE  elements'[m] = pushed + n - m + 1 /\ elements'[m] > pushed
    BY <1>1, <1>2, <1>4, <2>1, <2>3
  <2>4. CASE i > n /\ k > n
    <3>1. i - n = k - n
      BY <2>2, <2>4 DEF Apart, ListApart
    <3> QED
      BY <2>1, <3>1
  <2>5. CASE ~(i > n) /\ ~(k > n)
    BY <2>1, <2>3, <2>5
  <2>6. CASE (i > n /\ ~(k > n)) \/ (~(i > n) /\ k > n)
    BY <2>1, <2>2, <2>3, <2>6
  <2> QED
    BY <2>4, <2>5, <2>6
<1>6. ASSUME NEW k \in DOMAIN elements'
      PROVE  \/ /\ elements'[k] \in Nat /\ elements'[k] > pushed
                /\ elements'[k] <= pushed + n
             \/ \E i \in DOMAIN elements : elements'[k] = elements[i]
  <2>1. CASE k > n
    <3>1. k - n \in DOMAIN elements /\ elements'[k] = elements[k - n]
      BY <1>1, <1>2, <1>4, <2>1
    <3> QED
      BY <3>1
  <2>2. CASE ~(k > n)
    BY <1>1, <1>2, <1>4, <2>2
  <2> QED
    BY <2>1, <2>2
<1>7. HandedApart'
  BY <1>1, <1>2, <1>3, <1>6 DEF Apart, HandedApart, AllPushed
<1>8. DeliveredApart'
  BY <1>1, <1>2, <1>3, <1>6 DEF Apart, DeliveredApart, AllPushed
<1>9. AllPushed'
  BY <1>1, <1>2, <1>3, <1>6 DEF Apart, AllPushed
<1> QED
  BY <1>5, <1>7, <1>8, <1>9 DEF Apart

\* LPOP and BLPOP give away the first n elements.
LEMMA ApartTake ==
  ASSUME IInv, Apart, NEW n \in 0 .. Len(elements),
         elements' = SubSeq(elements, n + 1, Len(elements)),
         delivered' = delivered \cup Range(SubSeq(elements, 1, n)),
         UNCHANGED <<newElems, chan, pushed>>
  PROVE  Apart'
<1>1. /\ elements \in Seq(Elems) /\ Len(elements) \in Nat /\ n \in Nat
      /\ DOMAIN elements = 1 .. Len(elements)
  BY ListTypes DEF IInv
<1>2. /\ DOMAIN elements' = 1 .. Len(elements) - n
      /\ \A k \in DOMAIN elements' : elements'[k] = elements[k + n]
      /\ delivered' = delivered \cup {elements[k] : k \in 1 .. n}
  <2>1. \A S : \A s \in Seq(S) : \A m \in 0 .. Len(s) :
          /\ DOMAIN SubSeq(s, m + 1, Len(s)) = 1 .. Len(s) - m
          /\ \A k \in 1 .. Len(s) - m : SubSeq(s, m + 1, Len(s))[k] = s[k + m]
          /\ Range(SubSeq(s, 1, m)) = {s[k] : k \in 1 .. m}
    BY DropFirst
  <2>2. /\ DOMAIN SubSeq(elements, n + 1, Len(elements)) = 1 .. Len(elements) - n
        /\ \A k \in 1 .. Len(elements) - n :
             SubSeq(elements, n + 1, Len(elements))[k] = elements[k + n]
    BY <1>1, <2>1
  <2>3. Range(SubSeq(elements, 1, n)) = {elements[k] : k \in 1 .. n}
    BY <1>1, <2>1
  <2>4. \A k \in DOMAIN elements' : elements'[k] = elements[k + n]
    BY <2>2
  <2> QED
    BY <2>2, <2>3, <2>4
<1>3. newElems' = newElems /\ chan' = chan /\ pushed' = pushed
  OBVIOUS
<1>4. \A k \in DOMAIN elements' : k + n \in DOMAIN elements /\ k + n > n
  BY <1>1, <1>2
<1>5. \A k \in 1 .. n : k \in DOMAIN elements
  BY <1>1
<1>6. ListApart'
  <2>1. ASSUME NEW i \in DOMAIN elements', NEW k \in DOMAIN elements',
               elements'[i] = elements'[k]
        PROVE  i = k
    <3>1. i + n = k + n
      BY <1>2, <1>4, <2>1 DEF Apart, ListApart
    <3> QED
      BY <1>1, <1>2, <3>1
  <2> QED
    BY <1>2, <1>3, <1>4, <2>1 DEF Apart, ListApart
<1>7. HandedApart'
  BY <1>2, <1>3, <1>4 DEF Apart, HandedApart
<1>8. DeliveredApart'
  <2>1. ASSUME NEW i \in DOMAIN elements' PROVE elements'[i] \notin delivered'
    <3>1. elements'[i] \notin delivered
      BY <1>2, <1>4 DEF Apart, DeliveredApart
    <3>2. ASSUME NEW k \in 1 .. n PROVE elements'[i] # elements[k]
      <4>1. i + n # k /\ i + n \in DOMAIN elements /\ k \in DOMAIN elements
        BY <1>1, <1>2, <1>4, <1>5
      <4> QED
        BY <1>2, <4>1 DEF Apart, ListApart
    <3> QED
      BY <1>2, <3>1, <3>2
  <2>2. ASSUME NEW i \in DOMAIN newElems PROVE newElems[i] \notin delivered'
    BY <1>2, <1>5 DEF Apart, DeliveredApart, ListApart
  <2>3. ASSUME NEW c \in Conns PROVE chan[c] \notin delivered'
    BY <1>2, <1>5 DEF Apart, DeliveredApart, HandedApart
  <2> QED
    BY <1>3, <2>1, <2>2, <2>3 DEF DeliveredApart
<1>9. AllPushed'
  BY <1>2, <1>3, <1>4, <1>5 DEF Apart, AllPushed
<1> QED
  BY <1>6, <1>7, <1>8, <1>9 DEF Apart

\* A hand-over moves the first new element into an empty channel.
LEMMA ApartHand ==
  ASSUME IInv, Apart, NEW c \in Conns, Hand(c)
  PROVE  Apart'
<1> DEFINE w == Head(clients)
           e == Head(newElems)
<1>1. /\ elements' = elements /\ delivered' = delivered /\ pushed' = pushed
      /\ newElems' = Tail(newElems)
      /\ chan' = [chan EXCEPT ![w] = e]
  BY DEF Hand
<1>2. w \in Conns
  BY HeadTailProperties DEF Hand, IInv, TypeOK
<1>3. /\ 1 \in DOMAIN newElems /\ e = newElems[1] /\ e # NoElem
      /\ DOMAIN newElems' = 1 .. Len(newElems) - 1
      /\ Len(newElems) \in Nat
      /\ \A k \in DOMAIN newElems' :
           /\ newElems'[k] = newElems[k + 1]
           /\ k + 1 \in DOMAIN newElems /\ k + 1 # 1
  <2>1. newElems \in Seq(Elems) /\ newElems # <<>>
    BY DEF Hand, IInv, TypeOK
  <2>2. /\ Tail(newElems) \in Seq(Elems)
        /\ Len(Tail(newElems)) = Len(newElems) - 1
        /\ \A k \in 1 .. Len(Tail(newElems)) : Tail(newElems)[k] = newElems[k + 1]
        /\ Len(newElems) \in Nat \ {0}
        /\ e = newElems[1] /\ e \in Elems
    BY <2>1, HeadTailProperties, EmptySeq
  <2>3. DOMAIN newElems' = 1 .. Len(newElems) - 1
    BY <1>1, <2>2, LenProperties
  <2>4. e # NoElem
    BY <2>2, ListsAssumption DEF Elems, NoElem
  <2>5. DOMAIN newElems = 1 .. Len(newElems)
    BY <2>1, LenProperties
  <2> QED
    BY <1>1, <2>2, <2>3, <2>4, <2>5
<1> HIDE DEF w, e
<1>4. \A d \in Conns : chan'[d] = IF d = w THEN e ELSE chan[d]
  BY <1>1 DEF IInv, TypeOK
<1>5. ListApart'
  <2>1. ASSUME NEW i \in DOMAIN newElems', NEW k \in DOMAIN newElems',
               newElems'[i] = newElems'[k]
        PROVE  i = k
    <3>1. i + 1 = k + 1
      BY <1>3, <2>1 DEF Apart, ListApart
    <3> QED
      BY <1>3, <3>1
  <2> QED
    BY <1>1, <1>3, <2>1 DEF Apart, ListApart
<1>6. HandedApart'
  <2>1. \A d \in Conns, i \in DOMAIN elements : chan'[d] # elements[i]
    BY <1>3, <1>4 DEF Apart, HandedApart, ListApart
  <2>2. \A d \in Conns, i \in DOMAIN newElems' : chan'[d] # newElems'[i]
    BY <1>3, <1>4 DEF Apart, HandedApart, ListApart
  <2>3. \A d1, d2 \in Conns : chan'[d1] = chan'[d2] /\ chan'[d1] # NoElem => d1 = d2
    BY <1>3, <1>4 DEF Apart, HandedApart
  <2> QED
    BY <1>1, <2>1, <2>2, <2>3 DEF HandedApart
<1>7. DeliveredApart'
  BY <1>1, <1>3, <1>4 DEF Apart, DeliveredApart
<1>8. AllPushed'
  BY <1>1, <1>3, <1>4 DEF Apart, AllPushed
<1> QED
  BY <1>5, <1>6, <1>7, <1>8 DEF Apart

\* RPUSH appends what is left.
LEMMA ApartRPushDone ==
  ASSUME IInv, Apart, NEW c \in Conns, RPushDone(c)
  PROVE  Apart'
<1>1. /\ newElems' = <<>>
      /\ chan' = chan /\ delivered' = delivered /\ pushed' = pushed
  BY DEF RPushDone
<1>2. DOMAIN newElems' = {}
  BY <1>1, EmptySeq, LenProperties
<1>3. ASSUME NEW k \in DOMAIN elements'
      PROVE  \/ k \in DOMAIN elements /\ elements'[k] = elements[k]
             \/ /\ k - Len(elements) \in DOMAIN newElems
                /\ elements'[k] = newElems[k - Len(elements)]
                /\ k \in Nat /\ Len(elements) \in Nat
  <2>1. /\ elements \in Seq(Elems) /\ newElems \in Seq(Elems)
        /\ Len(elements) \in Nat /\ Len(newElems) \in Nat
        /\ DOMAIN elements = 1 .. Len(elements)
        /\ DOMAIN newElems = 1 .. Len(newElems)
    BY ListTypes DEF IInv
  <2>2. /\ elements \o newElems \in Seq(Elems)
        /\ Len(elements \o newElems) = Len(elements) + Len(newElems)
        /\ \A i \in 1 .. Len(elements) + Len(newElems) :
             (elements \o newElems)[i]
               = IF i <= Len(elements) THEN elements[i] ELSE newElems[i - Len(elements)]
    BY <2>1, ConcatProperties
  <2>3. elements' = elements \o newElems
    BY DEF RPushDone
  <2>4. k \in 1 .. Len(elements) + Len(newElems)
    BY <2>2, <2>3, LenProperties
  <2> QED
    BY <2>1, <2>2, <2>3, <2>4
<1>4. ListApart'
  <2> SUFFICES ASSUME NEW i \in DOMAIN elements', NEW k \in DOMAIN elements',
                      elements'[i] = elements'[k]
               PROVE  i = k
    BY <1>1, <1>2 DEF ListApart
  <2>1. CASE i \in DOMAIN elements /\ elements'[i] = elements[i]
    BY <1>3, <2>1 DEF Apart, ListApart
  <2>2. CASE k \in DOMAIN elements /\ elements'[k] = elements[k]
    BY <1>3, <2>2 DEF Apart, ListApart
  <2>3. CASE /\ ~(i \in DOMAIN elements /\ elements'[i] = elements[i])
             /\ ~(k \in DOMAIN elements /\ elements'[k] = elements[k])
    <3>1. /\ i \in Nat /\ k \in Nat /\ Len(elements) \in Nat
          /\ i - Len(elements) \in DOMAIN newElems /\ k - Len(elements) \in DOMAIN newElems
          /\ newElems[i - Len(elements)] = newElems[k - Len(elements)]
      BY <1>3, <2>3
    <3>2. i - Len(elements) = k - Len(elements)
      BY <3>1 DEF Apart, ListApart
    <3> QED
      BY <3>1, <3>2
  <2> QED
    BY <2>1, <2>2, <2>3
<1>5. HandedApart'
  BY <1>1, <1>2, <1>3 DEF Apart, HandedApart
<1>6. DeliveredApart'
  BY <1>1, <1>2, <1>3 DEF Apart, DeliveredApart
<1>7. AllPushed'
  BY <1>1, <1>2, <1>3 DEF Apart, AllPushed
<1> QED
  BY <1>4, <1>5, <1>6, <1>7 DEF Apart

\* A waiter collects its element, or leaves without it.
LEMMA ApartEmptied ==
  ASSUME IInv, Apart, NEW c \in Conns,
         chan' = [chan EXCEPT ![c] = NoElem],
         delivered' \in {delivered, delivered \cup {chan[c]}},
         chan[c] = NoElem => delivered' = delivered,
         UNCHANGED <<elements, newElems, pushed>>
  PROVE  Apart'
<1>1. \A d \in Conns : chan'[d] = IF d = c THEN NoElem ELSE chan[d]
  BY DEF IInv, TypeOK
<1>2. elements' = elements /\ newElems' = newElems /\ pushed' = pushed
  OBVIOUS
<1>3. /\ \A i \in DOMAIN elements : elements[i] # NoElem
      /\ \A i \in DOMAIN newElems : newElems[i] # NoElem
      /\ NoElem \notin delivered /\ NoElem <= pushed
  <2>1. NoElem \notin Elems
    BY ListsAssumption DEF Elems, NoElem
  <2>2. NoElem <= pushed
    BY ListNumbers DEF IInv, NoElem
  <2> QED
    BY <2>1, <2>2, ListTypes DEF IInv
<1>4. \A e \in delivered' : e \in delivered \/ (e = chan[c] /\ chan[c] # NoElem)
  OBVIOUS
<1>5. ListApart'
  BY <1>2 DEF Apart, ListApart
<1>6. HandedApart'
  BY <1>1, <1>2, <1>3 DEF Apart, HandedApart
<1>7. DeliveredApart'
  <2>1. \A i \in DOMAIN elements : elements[i] \notin delivered'
    BY <1>4 DEF Apart, DeliveredApart, HandedApart
  <2>2. \A i \in DOMAIN newElems : newElems[i] \notin delivered'
    BY <1>4 DEF Apart, DeliveredApart, HandedApart
  <2>3. ASSUME NEW d \in Conns PROVE chan'[d] \notin delivered'
    <3>1. CASE d = c
      BY <1>1, <1>3, <1>4, <3>1
    <3>2. CASE d # c
      BY <1>1, <1>4, <3>2 DEF Apart, DeliveredApart, HandedApart
    <3> QED
      BY <3>1, <3>2
  <2> QED
    BY <1>2, <2>1, <2>2, <2>3 DEF DeliveredApart
<1>8. AllPushed'
  BY <1>1, <1>2, <1>3, <1>4 DEF Apart, AllPushed
<1> QED
  BY <1>5, <1>6, <1>7, <1>8 DEF Apart

\* Every step of every handler keeps the elements apart.
LEMMA ApartStep == IInv /\ Apart /\ [Next]_vars => Apart'
<1> SUFFICES ASSUME IInv, Apart, [Next]_vars PROVE Apart'
  OBVIOUS
<1>1. ASSUME NEW c \in Conns, NEW n \in 0 .. MaxBatch, RPush(c, n) \/ LPush(c, n)
      PROVE  Apart'
  BY <1>1, ApartRPush, ApartLPush
<1>2. ASSUME NEW c \in Conns, NEW n \in Counts, LPop(c, n) PROVE Apart'
  <2>1. CASE n \in 0 .. Len(elements)
    BY <1>2, <2>1, ApartTake DEF LPop
  <2>2. CASE n \notin 0 .. Len(elements)
    BY <1>2, <2>2, ApartUntouched DEF LPop, Panic, shared
  <2> QED
    BY <2>1, <2>2
<1>3. ASSUME NEW c \in Conns, NEW i \in Indices, NEW k \in Indices, LRange(c, i, k)
      PROVE  Apart'
  BY <1>3, ApartUntouched DEF LRange, Panic, shared
<1>4. ASSUME NEW c \in Conns, NEW cmd, BLPopNow(c, cmd) PROVE Apart'
  <2>1. elements \in Seq(Elems) /\ elements # <<>>
    BY <1>4 DEF BLPopNow, IInv, TypeOK
  <2>2. 1 \in 0 .. Len(elements) /\ Len(elements) \in Nat
    BY <2>1, EmptySeq
  <2>3. elements' = SubSeq(elements, 1 + 1, Len(elements))
    BY <1>4, <2>1, TailIsSubSeq DEF BLPopNow
  <2>4. Range(SubSeq(elements, 1, 1)) = {Head(elements)}
    BY <2>1, <2>2, DropFirst
  <2>5. /\ delivered' = delivered \cup Range(SubSeq(elements, 1, 1))
        /\ UNCHANGED <<newElems, chan, pushed>>
    BY <1>4, <2>4 DEF BLPopNow
  <2> QED
    BY <2>2, <2>3, <2>5, ApartTake
<1>5. ASSUME NEW c \in Conns, NEW cmd, BLPopWait(c, cmd) PROVE Apart'
  BY <1>5, ApartUntouched DEF BLPopWait
<1>6. ASSUME NEW c \in Conns, Hand(c) PROVE Apart'
  BY <1>6, ApartHand
<1>7. ASSUME NEW c \in Conns, RPushDone(c) PROVE Apart'
  BY <1>7, ApartRPushDone
<1>8. ASSUME NEW c \in Conns, Receive(c) PROVE Apart'
  BY <1>8, ApartEmptied DEF Receive, shared
<1>9. ASSUME NEW c \in Conns, GiveUp(c) PROVE Apart'
  BY <1>9, ApartEmptied DEF GiveUp
<1>10. ASSUME NEW c \in Conns, Expire(c) \/ HangUp(c) PROVE Apart'
  BY <1>10, ApartUntouched DEF Expire, HangUp, shared
<1>11. CASE UNCHANGED vars
  BY <1>11, ApartUntouched DEF vars
<1> QED
  BY <1>1, <1>2, <1>3, <1>4, <1>5, <1>6, <1>7, <1>8, <1>9, <1>10, <1>11
  DEF Next, Step, Push, Pop, Read, BLPop

\* In the empty server there is nothing to confuse.
LEMMA ApartInit == Init => Apart
<1> SUFFICES ASSUME Init PROVE Apart
  OBVIOUS
<1>1. DOMAIN elements = {} /\ DOMAIN newElems = {}
  BY EmptySeq, LenProperties DEF Init
<1>2. delivered = {} /\ pushed = 0 /\ \A c \in Conns : chan[c] = 0
  BY DEF Init, NoElem
<1> QED
  BY <1>1, <1>2 DEF Apart, ListApart, HandedApart, DeliveredApart, AllPushed, NoElem

\* Place by place or as a whole.
LEMMA ApartIsNoDuplicate == TypeOK /\ Apart => NoDuplicate
<1> SUFFICES ASSUME TypeOK, Apart PROVE NoDuplicate
  OBVIOUS
<1> DEFINE list == elements \o newElems
<1>1. /\ elements \in Seq(Elems) /\ newElems \in Seq(Elems)
      /\ Len(elements) \in Nat /\ Len(newElems) \in Nat
      /\ DOMAIN elements = 1 .. Len(elements)
      /\ DOMAIN newElems = 1 .. Len(newElems)
  BY ListTypes
<1>2. /\ DOMAIN list = 1 .. Len(elements) + Len(newElems)
      /\ \A i \in DOMAIN list :
           list[i] = IF i <= Len(elements) THEN elements[i] ELSE newElems[i - Len(elements)]
  BY <1>1, ConcatProperties, LenProperties
<1> HIDE DEF list
<1>3. ASSUME NEW k \in DOMAIN list
      PROVE  \/ k \in DOMAIN elements /\ list[k] = elements[k]
             \/ /\ k - Len(elements) \in DOMAIN newElems
                /\ list[k] = newElems[k - Len(elements)]
  BY <1>1, <1>2
<1>4. IsInjective(list)
  <2> SUFFICES ASSUME NEW i \in DOMAIN list, NEW k \in DOMAIN list, list[i] = list[k]
               PROVE  i = k
    BY DEF IsInjective
  <2>1. CASE i \in DOMAIN elements /\ list[i] = elements[i]
    BY <1>3, <2>1 DEF Apart, ListApart
  <2>2. CASE k \in DOMAIN elements /\ list[k] = elements[k]
    BY <1>3, <2>2 DEF Apart, ListApart
  <2>3. CASE /\ ~(i \in DOMAIN elements /\ list[i] = elements[i])
             /\ ~(k \in DOMAIN elements /\ list[k] = elements[k])
    <3>1. i - Len(elements) = k - Len(elements)
      BY <1>3, <2>3 DEF Apart, ListApart
    <3> QED
      BY <1>1, <1>2, <3>1
  <2> QED
    BY <2>1, <2>2, <2>3
<1>5. ASSUME NEW v \in Range(list)
      PROVE  \/ \E i \in DOMAIN elements : v = elements[i]
             \/ \E i \in DOMAIN newElems : v = newElems[i]
  BY <1>3 DEF Range
<1>6. Range(list) \cap Range(chan) = {}
  <2>1. \A v \in Range(chan) : \E c \in Conns : v = chan[c]
    BY DEF Range, TypeOK
  <2> QED
    BY <1>5, <2>1 DEF Apart, HandedApart
<1>7. Held \cap delivered = {}
  <2>1. \A v \in Range(chan) : \E c \in Conns : v = chan[c]
    BY DEF Range, TypeOK
  <2>2. \A v \in Range(elements) : \E i \in DOMAIN elements : v = elements[i]
    BY DEF Range
  <2>3. \A v \in Range(newElems) : \E i \in DOMAIN newElems : v = newElems[i]
    BY DEF Range
  <2> QED
    BY <2>1, <2>2, <2>3 DEF Held, Apart, DeliveredApart
<1> QED
  BY <1>4, <1>6, <1>7 DEF NoDuplicate, Apart, HandedApart, list

\* The invariant of the elements' places.
LEMMA ApartAlways == Spec => [](IInv /\ Apart)
<1>1. IInv /\ Apart /\ [Next]_vars => (IInv /\ Apart)'
  BY TypeStep, WaitersStep, ApartStep DEF IInv
<1> QED
  BY InitIInv, ApartInit, <1>1, PTL DEF Spec

\* No element is in two places, nor kept after it was given to a client
\* (handlers.go:354-364, 482-488, 576-581, 619-664).
THEOREM NothingTwice == Spec => []NoDuplicate
<1>1. IInv /\ Apart => NoDuplicate
  BY ApartIsNoDuplicate DEF IInv
<1> QED
  BY <1>1, ApartAlways, PTL

-----------------------------------------------------------------------------
(* No element is lost silently. *)

\* Handlers that empty no channel keep every element in the server or give it
\* to a client.
LEMMA KeptByHandlers ==
  ASSUME IInv, NEW c \in Conns,
         \/ \E n \in 0 .. MaxBatch : RPush(c, n) \/ LPush(c, n)
         \/ \E n \in Counts : LPop(c, n)
         \/ \E cmd : BLPopNow(c, cmd) \/ BLPopWait(c, cmd)
         \/ Hand(c) \/ RPushDone(c)
  PROVE  Held \subseteq Held' \cup delivered'
<1>1. /\ elements \in Seq(Elems) /\ newElems \in Seq(Elems)
      /\ Len(elements) \in Nat /\ Len(newElems) \in Nat
      /\ DOMAIN elements = 1 .. Len(elements)
      /\ DOMAIN newElems = 1 .. Len(newElems)
  BY ListTypes DEF IInv
<1>2. ASSUME NEW n \in 0 .. MaxBatch, RPush(c, n) PROVE Held \subseteq Held'
  <2>1. newElems = <<>>
    BY <1>2 DEF RPush, Unlocked, IInv, WaitersOK, MutexMatchesHandler
  <2>2. DOMAIN newElems = {}
    BY <2>1, EmptySeq, LenProperties
  <2> QED
    BY <1>2, <2>2 DEF RPush, Held, Range
<1>3. ASSUME NEW n \in 0 .. MaxBatch, LPush(c, n) PROVE Held \subseteq Held'
  <2>1. Reverse(Batch(n)) \in Seq(Elems)
    BY <1>3, BatchType, ListsAssumption DEF LPush, IInv, TypeOK
  <2>2. Range(elements') = Range(Reverse(Batch(n))) \cup Range(elements)
    BY <1>1, <1>3, <2>1, RangeConcatenation DEF LPush
  <2> QED
    BY <1>3, <2>2 DEF LPush, Held
<1>4. ASSUME NEW n \in 0 .. Len(elements),
             elements' = SubSeq(elements, n + 1, Len(elements)),
             delivered' = delivered \cup Range(SubSeq(elements, 1, n)),
             UNCHANGED <<newElems, chan>>
      PROVE  Held \subseteq Held' \cup delivered'
  <2>1. /\ DOMAIN elements' = 1 .. Len(elements) - n
        /\ \A k \in DOMAIN elements' : elements'[k] = elements[k + n]
        /\ delivered' = delivered \cup {elements[k] : k \in 1 .. n}
    <3>1. elements \in Seq(Elems)
      BY <1>1
    <3> QED
      BY <1>4, <3>1, DropFirst
  <2>2. ASSUME NEW i \in DOMAIN elements
        PROVE  elements[i] \in Range(elements') \cup delivered'
    <3>1. CASE i <= n
      BY <1>1, <2>1, <3>1
    <3>2. CASE ~(i <= n)
      <4>1. i - n \in DOMAIN elements' /\ elements'[i - n] = elements[i]
        BY <1>1, <2>1, <3>2
      <4> QED
        BY <4>1 DEF Range
    <3> QED
      BY <3>1, <3>2
  <2>3. Range(elements) \subseteq Range(elements') \cup delivered'
    BY <2>2 DEF Range
  <2> QED
    BY <1>4, <2>3 DEF Held
<1>5. ASSUME NEW n \in Counts, LPop(c, n) PROVE Held \subseteq Held' \cup delivered'
  <2>1. CASE n \in 0 .. Len(elements)
    BY <1>4, <1>5, <2>1 DEF LPop
  <2>2. CASE n \notin 0 .. Len(elements)
    BY <1>5, <2>2 DEF LPop, Panic, shared, Held
  <2> QED
    BY <2>1, <2>2
<1>6. ASSUME NEW cmd, BLPopNow(c, cmd) PROVE Held \subseteq Held' \cup delivered'
  <2>1. 1 \in 0 .. Len(elements)
    BY <1>1, <1>6, EmptySeq DEF BLPopNow
  <2>2. elements' = SubSeq(elements, 1 + 1, Len(elements))
    BY <1>1, <1>6, TailIsSubSeq DEF BLPopNow
  <2>3. Range(SubSeq(elements, 1, 1)) = {Head(elements)}
    <3>1. \A n \in 0 .. Len(elements) :
            Range(SubSeq(elements, 1, n)) = {elements[k] : k \in 1 .. n}
      BY <1>1, DropFirst
    <3>2. Range(SubSeq(elements, 1, 1)) = {elements[k] : k \in 1 .. 1}
      BY <2>1, <3>1
    <3>3. Head(elements) = elements[1] /\ 1 .. 1 = {1}
      BY <1>1
    <3> QED
      BY <3>2, <3>3
  <2> QED
    BY <1>4, <1>6, <2>1, <2>2, <2>3 DEF BLPopNow
<1>7. ASSUME NEW cmd, BLPopWait(c, cmd) PROVE Held \subseteq Held'
  BY <1>7 DEF BLPopWait, Held
<1>8. ASSUME Hand(c) PROVE Held \subseteq Held'
  <2> DEFINE w == Head(clients)
  <2>1. w \in Conns /\ chan[w] = NoElem
    BY <1>8, HeadTailProperties DEF Hand, IInv, TypeOK
  <2>2. /\ Head(newElems) \in Elems /\ Head(newElems) = newElems[1]
        /\ Tail(newElems) \in Seq(Elems)
        /\ Len(Tail(newElems)) = Len(newElems) - 1
        /\ \A k \in 1 .. Len(newElems) - 1 : Tail(newElems)[k] = newElems[k + 1]
    BY <1>1, <1>8, HeadTailProperties DEF Hand
  <2>3. /\ elements' = elements /\ newElems' = Tail(newElems)
        /\ chan' = [chan EXCEPT ![w] = Head(newElems)]
    BY <1>8 DEF Hand
  <2> HIDE DEF w
  <2>4. \A d \in Conns : chan'[d] = IF d = w THEN Head(newElems) ELSE chan[d]
    BY <2>3 DEF IInv, TypeOK
  <2>5. DOMAIN chan = Conns /\ DOMAIN chan' = Conns
    BY <2>3 DEF IInv, TypeOK
  <2>6. Range(chan) \ {NoElem} \subseteq Range(chan')
    BY <2>1, <2>4, <2>5 DEF Range
  <2>7. Head(newElems) \in Range(chan') \ {NoElem}
    <3>1. NoElem \notin Elems
      BY ListsAssumption DEF Elems, NoElem
    <3>2. chan'[w] = Head(newElems) /\ w \in DOMAIN chan'
      BY <2>1, <2>4, <2>5
    <3>3. Head(newElems) \in Range(chan')
      BY <3>2 DEF Range
    <3> QED
      BY <2>2, <3>1, <3>3
  <2>8. ASSUME NEW i \in DOMAIN newElems
        PROVE  newElems[i] = Head(newElems) \/ newElems[i] \in Range(newElems')
    <3>1. CASE i = 1
      BY <2>2, <3>1
    <3>2. CASE i # 1
      <4>1. DOMAIN newElems' = 1 .. Len(newElems) - 1
        BY <2>2, <2>3, LenProperties
      <4>2. i - 1 \in DOMAIN newElems' /\ newElems'[i - 1] = newElems[(i - 1) + 1]
        BY <1>1, <2>2, <2>3, <3>2, <4>1
      <4>3. (i - 1) + 1 = i
        BY <1>1
      <4> QED
        BY <4>2, <4>3 DEF Range
    <3> QED
      BY <3>1, <3>2
  <2>9. Range(newElems) \subseteq {Head(newElems)} \cup Range(newElems')
    BY <2>8 DEF Range
  <2> QED
    BY <2>3, <2>6, <2>7, <2>9 DEF Held
<1>9. ASSUME RPushDone(c) PROVE Held \subseteq Held'
  <2>1. Range(elements') = Range(elements) \cup Range(newElems)
    BY <1>1, <1>9, RangeConcatenation DEF RPushDone
  <2> QED
    BY <1>9, <2>1 DEF RPushDone, Held
<1> QED
  BY <1>2, <1>3, <1>5, <1>6, <1>7, <1>8, <1>9

\* A BLPOP that ends empties its own channel only.
LEMMA KeptByOtherWaiters ==
  ASSUME IInv, NEW c \in Conns,
         UNCHANGED <<elements, newElems>>,
         chan' = [chan EXCEPT ![c] = NoElem],
         NEW e \in Held \ Held'
  PROVE  chan[c] = e
<1>1. e \in Range(chan) \ {NoElem} /\ e \notin Range(chan')
  BY DEF Held
<1>2. PICK d \in Conns : chan[d] = e
  BY <1>1 DEF Range, IInv, TypeOK
<1>3. d # c => e \in Range(chan')
  BY <1>2 DEF Range, IInv, TypeOK
<1> QED
  BY <1>1, <1>2, <1>3

\* What one step can lose.
LEMMA LostByOneStep ==
  IInv /\ [Next]_vars =>
    \A e \in Held \ (Held' \cup delivered') :
      \E c \in Conns : chan[c] = e /\ (pc[c] = "expired" \/ c \in gone)
<1> SUFFICES ASSUME IInv, [Next]_vars, NEW e \in Held \ (Held' \cup delivered')
             PROVE  \E c \in Conns : chan[c] = e /\ (pc[c] = "expired" \/ c \in gone)
  OBVIOUS
<1>1. ASSUME NEW c \in Conns, Push(c) \/ Pop(c) \/ BLPop(c) \/ Hand(c) \/ RPushDone(c)
      PROVE  FALSE
  BY <1>1, KeptByHandlers DEF Push, Pop, BLPop
<1>2. ASSUME NEW c \in Conns, Read(c) PROVE FALSE
  BY <1>2 DEF Read, LRange, Panic, shared, Held
<1>3. ASSUME NEW c \in Conns, Expire(c) \/ HangUp(c) PROVE FALSE
  BY <1>3 DEF Expire, HangUp, shared, Held
<1>4. CASE UNCHANGED vars
  BY <1>4 DEF vars, Held
<1>5. ASSUME NEW c \in Conns, Receive(c) PROVE chan[c] = e /\ c \in gone
  <2>1. chan[c] = e
    BY <1>5, KeptByOtherWaiters DEF Receive, shared
  <2> QED
    BY <1>5, <2>1 DEF Receive
<1>6. ASSUME NEW c \in Conns, GiveUp(c) PROVE chan[c] = e /\ pc[c] = "expired"
  BY <1>6, KeptByOtherWaiters DEF GiveUp
<1> QED
  BY <1>1, <1>2, <1>3, <1>4, <1>5, <1>6 DEF Next, Step

\* An element leaves the server undelivered only through a BLPOP whose timer
\* fired after the hand-over or whose peer is gone (handlers.go:639-661).
THEOREM LossNeedsTimeoutOrHangUp == Spec => OnlyTimeoutOrHangUpLoses
<1>1. IInv /\ [Next]_vars =>
        [\A e \in Held \ (Held' \cup delivered') :
           \E c \in Conns : chan[c] = e /\ (pc[c] = "expired" \/ c \in gone)]_vars
  BY LostByOneStep
<1> QED
  BY <1>1, Invariance, PTL DEF Spec, OnlyTimeoutOrHangUpLoses

-----------------------------------------------------------------------------
(* LRANGE. *)

\* LRANGE sends the elements between its two indices and announces their number
\* (handlers.go:424-438), whatever the list holds.
LEMMA SliceOfAnyList == TypeOK => LRangeIsSlice
<1> SUFFICES ASSUME TypeOK,
                    NEW i \in Indices, NEW j \in Indices,
                    NEW len, len = Len(elements),
                    NEW ai, ai = (IF i < 0 THEN i + len ELSE i),
                    NEW aj, aj = (IF j < 0 THEN j + len ELSE j),
                    len > 0, ai < len, aj >= 0
             PROVE  /\ LRangeBody(elements, i, j) =
                         SubSeq(elements, IF ai < 0 THEN 1 ELSE ai + 1,
                                          IF aj >= len THEN len ELSE aj + 1)
                    /\ ai <= aj =>
                         LRangeHeader(elements, i, j) = Len(LRangeBody(elements, i, j))
  BY DEF LRangeIsSlice
<1>1. i \in Int /\ j \in Int /\ len \in Nat
  BY ListsAssumption, ListTypes
<1>2. Clamp(i, len) + 1 = IF ai < 0 THEN 1 ELSE ai + 1
  BY <1>1 DEF Clamp, FromEnd
<1>3. Clamp(j, len) + 1 = IF aj >= len THEN len ELSE aj + 1
  BY <1>1 DEF Clamp, FromEnd
<1>4. LRangeBody(elements, i, j) =
        SubSeq(elements, IF ai < 0 THEN 1 ELSE ai + 1, IF aj >= len THEN len ELSE aj + 1)
  BY <1>2, <1>3 DEF LRangeBody
<1>5. ASSUME ai <= aj
      PROVE  LRangeHeader(elements, i, j) = Len(LRangeBody(elements, i, j))
  <2>1. /\ Clamp(i, len) \in Int /\ Clamp(j, len) \in Int
        /\ 0 <= Clamp(i, len) /\ Clamp(i, len) <= Clamp(j, len) /\ Clamp(j, len) < len
    BY <1>1, <1>5 DEF Clamp, FromEnd
  <2>2. \A k \in Clamp(i, len) + 1 .. Clamp(j, len) + 1 : elements[k] \in Elems
    BY <1>1, <2>1, ListTypes
  <2>3. Len(LRangeBody(elements, i, j)) = (Clamp(j, len) + 1) - (Clamp(i, len) + 1) + 1
    BY <2>1, <2>2, SubSeqProperties DEF LRangeBody
  <2> QED
    BY <2>1, <2>3 DEF LRangeHeader
<1> QED
  BY <1>4, <1>5

\* LRANGE answers with the slice in every reachable state.
THEOREM LRangeExact == Spec => []LRangeIsSlice
BY TypeCorrect, SliceOfAnyList, PTL

-----------------------------------------------------------------------------
(* Push order.  Younger elements stand behind older ones and whatever has  *)
(* left the list is older still.  That a hand-over takes the oldest needs  *)
(* that the list is empty when somebody waits: a BLPOP registers only on   *)
(* an empty list, and RPUSH serves the waiters before it appends.          *)

NobodyBesideElements == clients = <<>> \/ elements = <<>>

Ascending ==
  /\ \A i, k \in DOMAIN elements : i < k => elements[i] < elements[k]
  /\ \A i, k \in DOMAIN newElems : i < k => newElems[i] < newElems[k]
  /\ \A i \in DOMAIN elements, k \in DOMAIN newElems : elements[i] < newElems[k]

LeftInOrder ==
  /\ \A c \in Conns, i \in DOMAIN elements : chan[c] < elements[i]
  /\ \A c \in Conns, i \in DOMAIN newElems : chan[c] < newElems[i]
  /\ \A e \in delivered, i \in DOMAIN elements : e < elements[i]
  /\ \A e \in delivered, i \in DOMAIN newElems : e < newElems[i]

Queue == NobodyBesideElements /\ Ascending /\ LeftInOrder

QInv == IInv /\ Apart /\ Queue

\* A step that moves no element and no waiter keeps the queue.
LEMMA QueueUntouched ==
  ASSUME Queue, UNCHANGED <<elements, newElems, clients, chan, delivered>>
  PROVE  Queue'
BY DEF Queue, NobodyBesideElements, Ascending, LeftInOrder

\* The numbers of a push are above all that have been pushed.
LEMMA QueueRPush ==
  ASSUME QInv, NEW c \in Conns, NEW n \in 0 .. MaxBatch, RPush(c, n)
  PROVE  Queue'
<1>1. /\ elements' = elements /\ chan' = chan /\ delivered' = delivered
      /\ clients' = clients
  BY DEF RPush
<1>2. /\ DOMAIN newElems' = 1 .. n /\ n \in Nat
      /\ \A k \in 1 .. n : newElems'[k] = pushed + k
  BY BatchElements, ListsAssumption DEF RPush, QInv, IInv, TypeOK
<1>3. /\ \A i \in DOMAIN elements : elements[i] \in Nat
      /\ \A d \in Conns : chan[d] \in Nat
      /\ \A e \in delivered : e \in Nat
      /\ pushed \in Nat
  BY ListNumbers DEF QInv, IInv
<1>4. NobodyBesideElements'
  BY <1>1 DEF QInv, Queue, NobodyBesideElements
<1>5. Ascending'
  BY <1>1, <1>2, <1>3 DEF QInv, Queue, Ascending, Apart, AllPushed
<1>6. LeftInOrder'
  BY <1>1, <1>2, <1>3 DEF QInv, Queue, LeftInOrder, Apart, AllPushed
<1> QED
  BY <1>4, <1>5, <1>6 DEF Queue

\* What is popped is older than what stays.
LEMMA QueueTake ==
  ASSUME QInv, NEW n \in 0 .. Len(elements),
         elements' = SubSeq(elements, n + 1, Len(elements)),
         delivered' = delivered \cup Range(SubSeq(elements, 1, n)),
         UNCHANGED <<newElems, clients, chan>>
  PROVE  Queue'
<1>1. /\ elements \in Seq(Elems) /\ Len(elements) \in Nat /\ n \in Nat
      /\ DOMAIN elements = 1 .. Len(elements)
  BY ListTypes DEF QInv, IInv
<1>0. elements' \in Seq(Elems)
  BY <1>1, DropFirst
<1>2. /\ DOMAIN elements' = 1 .. Len(elements) - n
      /\ \A k \in DOMAIN elements' : elements'[k] = elements[k + n]
      /\ delivered' = delivered \cup {elements[k] : k \in 1 .. n}
  <2>1. \A S : \A s \in Seq(S) : \A m \in 0 .. Len(s) :
          /\ DOMAIN SubSeq(s, m + 1, Len(s)) = 1 .. Len(s) - m
          /\ \A k \in 1 .. Len(s) - m : SubSeq(s, m + 1, Len(s))[k] = s[k + m]
          /\ Range(SubSeq(s, 1, m)) = {s[k] : k \in 1 .. m}
    BY DropFirst
  <2>2. /\ DOMAIN SubSeq(elements, n + 1, Len(elements)) = 1 .. Len(elements) - n
        /\ \A k \in 1 .. Len(elements) - n :
             SubSeq(elements, n + 1, Len(elements))[k] = elements[k + n]
    BY <1>1, <2>1
  <2>3. Range(SubSeq(elements, 1, n)) = {elements[k] : k \in 1 .. n}
    BY <1>1, <2>1
  <2>4. \A k \in DOMAIN elements' : elements'[k] = elements[k + n]
    BY <2>2
  <2> QED
    BY <2>2, <2>3, <2>4
<1>3. newElems' = newElems /\ chan' = chan /\ clients' = clients
  OBVIOUS
<1>4. \A k \in DOMAIN elements' : k + n \in DOMAIN elements /\ k + n > n
  BY <1>1, <1>2
<1>5. \A k \in 1 .. n : k \in DOMAIN elements
  BY <1>1
<1>6. NobodyBesideElements'
  <2>1. CASE clients = <<>>
    BY <1>3, <2>1 DEF NobodyBesideElements
  <2>2. CASE elements = <<>>
    <3>1. Len(elements) = 0
      BY <2>2, EmptySeq
    <3>2. Len(elements') = 0
      BY <1>0, <1>1, <1>2, <3>1, LenProperties
    <3>3. elements' = <<>>
      BY <1>0, <3>2, EmptySeq
    <3> QED
      BY <3>3 DEF NobodyBesideElements
  <2> QED
    BY <2>1, <2>2 DEF QInv, Queue, NobodyBesideElements
<1>7. Ascending'
  <2>1. ASSUME NEW i \in DOMAIN elements', NEW k \in DOMAIN elements', i < k
        PROVE  elements'[i] < elements'[k]
    <3>1. i + n < k + n
      BY <1>1, <1>2, <2>1
    <3> QED
      BY <1>2, <1>4, <3>1 DEF QInv, Queue, Ascending
  <2> QED
    BY <1>2, <1>3, <1>4, <2>1 DEF QInv, Queue, Ascending
<1>8. LeftInOrder'
  <2>1. ASSUME NEW k \in 1 .. n, NEW i \in DOMAIN elements'
        PROVE  elements[k] < elements'[i]
    <3>1. k < i + n /\ k \in DOMAIN elements /\ i + n \in DOMAIN elements
      BY <1>1, <1>2, <1>4, <1>5
    <3> QED
      BY <1>2, <3>1 DEF QInv, Queue, Ascending
  <2>2. ASSUME NEW k \in 1 .. n, NEW i \in DOMAIN newElems
        PROVE  elements[k] < newElems[i]
    BY <1>5 DEF QInv, Queue, Ascending
  <2>3. \A e \in delivered' : e \in delivered \/ \E k \in 1 .. n : e = elements[k]
    BY <1>2
  <2>4. \A c \in Conns, i \in DOMAIN elements' : chan[c] < elements'[i]
    BY <1>2, <1>4 DEF QInv, Queue, LeftInOrder
  <2>5. \A e \in delivered, i \in DOMAIN elements' : e < elements'[i]
    BY <1>2, <1>4 DEF QInv, Queue, LeftInOrder
  <2>6. \A e \in delivered', i \in DOMAIN elements' : e < elements'[i]
    BY <2>1, <2>3, <2>5
  <2>7. \A e \in delivered', i \in DOMAIN newElems : e < newElems[i]
    BY <2>2, <2>3 DEF QInv, Queue, LeftInOrder
  <2>8. \A c \in Conns, i \in DOMAIN newElems : chan[c] < newElems[i]
    BY DEF QInv, Queue, LeftInOrder
  <2> QED
    BY <1>3, <2>4, <2>6, <2>7, <2>8 DEF LeftInOrder
<1> QED
  BY <1>6, <1>7, <1>8 DEF Queue

\* The waiter gets the oldest element there is.
LEMMA QueueHand ==
  ASSUME QInv, NEW c \in Conns, Hand(c)
  PROVE  Queue'
<1> DEFINE w == Head(clients)
           e == Head(newElems)
<1>1. /\ elements' = elements /\ delivered' = delivered
      /\ newElems' = Tail(newElems)
      /\ chan' = [chan EXCEPT ![w] = e]
  BY DEF Hand
<1>2. elements = <<>> /\ DOMAIN elements = {}
  <2>1. elements = <<>>
    BY DEF Hand, QInv, Queue, NobodyBesideElements
  <2> QED
    BY <2>1, EmptySeq, LenProperties
<1>3. /\ 1 \in DOMAIN newElems /\ e = newElems[1]
      /\ \A k \in DOMAIN newElems' :
           /\ newElems'[k] = newElems[k + 1]
           /\ k \in Nat /\ k + 1 \in DOMAIN newElems /\ 1 < k + 1
  <2>1. newElems \in Seq(Elems) /\ newElems # <<>>
    BY DEF Hand, QInv, IInv, TypeOK
  <2>2. /\ Tail(newElems) \in Seq(Elems)
        /\ Len(Tail(newElems)) = Len(newElems) - 1
        /\ \A k \in 1 .. Len(Tail(newElems)) : Tail(newElems)[k] = newElems[k + 1]
        /\ Len(newElems) \in Nat \ {0}
        /\ e = newElems[1]
    BY <2>1, HeadTailProperties, EmptySeq
  <2>3. DOMAIN newElems' = 1 .. Len(newElems) - 1 /\ DOMAIN newElems = 1 .. Len(newElems)
    BY <1>1, <2>1, <2>2, LenProperties
  <2> QED
    BY <1>1, <2>2, <2>3
<1> HIDE DEF w, e
<1>4. \A d \in Conns : chan'[d] = e \/ chan'[d] = chan[d]
  BY <1>1 DEF QInv, IInv, TypeOK
<1>5. NobodyBesideElements'
  BY <1>1, <1>2 DEF NobodyBesideElements
<1>6. Ascending'
  <2>1. ASSUME NEW i \in DOMAIN newElems', NEW k \in DOMAIN newElems', i < k
        PROVE  newElems'[i] < newElems'[k]
    <3>1. i + 1 < k + 1
      BY <1>3, <2>1
    <3> QED
      BY <1>3, <3>1 DEF QInv, Queue, Ascending
  <2> QED
    BY <1>1, <1>2, <2>1 DEF Ascending
<1>7. LeftInOrder'
  <2>1. \A k \in DOMAIN newElems' : e < newElems'[k]
    BY <1>3 DEF QInv, Queue, Ascending
  <2> QED
    BY <1>1, <1>2, <1>3, <1>4, <2>1 DEF QInv, Queue, LeftInOrder
<1> QED
  BY <1>5, <1>6, <1>7 DEF Queue

\* RPUSH appends only when nobody waits or nothing is left.
LEMMA QueueRPushDone ==
  ASSUME QInv, NEW c \in Conns, RPushDone(c)
  PROVE  Queue'
<1>1. /\ newElems' = <<>> /\ clients' = clients
      /\ chan' = chan /\ delivered' = delivered
      /\ elements' = elements \o newElems
      /\ clients = <<>> \/ newElems = <<>>
  BY DEF RPushDone
<1>2. DOMAIN newElems' = {}
  BY <1>1, EmptySeq, LenProperties
<1>3. NobodyBesideElements'
  <2>1. elements \in Seq(Elems)
    BY DEF QInv, IInv, TypeOK
  <2>2. newElems = <<>> => elements' = elements
    BY <1>1, <2>1, ConcatEmptySeq
  <2> QED
    BY <1>1, <2>2 DEF QInv, Queue, NobodyBesideElements
<1>4. /\ DOMAIN elements = 1 .. Len(elements) /\ Len(elements) \in Nat
      /\ DOMAIN newElems = 1 .. Len(newElems) /\ Len(newElems) \in Nat
      /\ DOMAIN elements' = 1 .. Len(elements) + Len(newElems)
      /\ \A k \in DOMAIN elements' :
           elements'[k] = IF k <= Len(elements) THEN elements[k]
                                                ELSE newElems[k - Len(elements)]
  <2>1. /\ elements \in Seq(Elems) /\ newElems \in Seq(Elems)
        /\ Len(elements) \in Nat /\ Len(newElems) \in Nat
        /\ DOMAIN elements = 1 .. Len(elements)
        /\ DOMAIN newElems = 1 .. Len(newElems)
    BY ListTypes DEF QInv, IInv
  <2> QED
    BY <1>1, <2>1, ConcatProperties, LenProperties
<1> DEFINE old(k) == k <= Len(elements)
           at(k)  == k - Len(elements)
<1>5. ASSUME NEW k \in DOMAIN elements'
      PROVE  /\ old(k) => k \in DOMAIN elements /\ elements'[k] = elements[k]
             /\ ~old(k) => at(k) \in DOMAIN newElems /\ elements'[k] = newElems[at(k)]
  BY <1>4
<1>6. Ascending'
  <2> SUFFICES ASSUME NEW i \in DOMAIN elements', NEW k \in DOMAIN elements', i < k
               PROVE  elements'[i] < elements'[k]
    BY <1>2 DEF Ascending
  <2>1. (old(k) => old(i)) /\ at(i) < at(k)
    BY <1>4
  <2> HIDE DEF old, at
  <2>2. CASE old(i) /\ old(k)
    BY <1>5, <2>2 DEF QInv, Queue, Ascending
  <2>3. CASE old(i) /\ ~old(k)
    BY <1>5, <2>3 DEF QInv, Queue, Ascending
  <2>4. CASE ~old(i) /\ ~old(k)
    BY <1>5, <2>1, <2>4 DEF QInv, Queue, Ascending
  <2> QED
    BY <2>1, <2>2, <2>3, <2>4
<1> HIDE DEF old, at
<1>7. LeftInOrder'
  <2>1. \A d \in Conns, k \in DOMAIN elements' : chan[d] < elements'[k]
    BY <1>5 DEF QInv, Queue, LeftInOrder
  <2>2. \A e \in delivered, k \in DOMAIN elements' : e < elements'[k]
    BY <1>5 DEF QInv, Queue, LeftInOrder
  <2> QED
    BY <1>1, <1>2, <2>1, <2>2 DEF LeftInOrder
<1> QED
  BY <1>3, <1>6, <1>7 DEF Queue

\* A waiter that collects or leaves takes an element that had left the list.
LEMMA QueueEmptied ==
  ASSUME QInv, NEW c \in Conns,
         chan' = [chan EXCEPT ![c] = NoElem],
         delivered' \in {delivered, delivered \cup {chan[c]}},
         UNCHANGED <<elements, newElems>>,
         NobodyBesideElements'
  PROVE  Queue'
<1>1. \A d \in Conns : chan'[d] = NoElem \/ chan'[d] = chan[d]
  BY DEF QInv, IInv, TypeOK
<1>2. elements' = elements /\ newElems' = newElems
  OBVIOUS
<1>3. /\ \A i \in DOMAIN elements : NoElem < elements[i]
      /\ \A i \in DOMAIN newElems : NoElem < newElems[i]
  BY ListTypes, ListsAssumption DEF QInv, IInv, Elems, NoElem
<1>4. \A e \in delivered' : e \in delivered \/ e = chan[c]
  OBVIOUS
<1>5. Ascending'
  BY <1>2 DEF QInv, Queue, Ascending
<1>6. LeftInOrder'
  BY <1>1, <1>2, <1>3, <1>4 DEF QInv, Queue, LeftInOrder
<1> QED
  BY <1>5, <1>6 DEF Queue

\* Who leaves list.clients leaves nobody new there.
LEMMA DeregisterEmpties ==
  ASSUME TypeOK, NEW c \in Conns, Deregister(c), clients = <<>>
  PROVE  clients' = <<>>
<1>1. DOMAIN clients = {}
  BY EmptySeq, LenProperties
<1> QED
  BY <1>1 DEF Deregister

\* Every step keeps the queue, as long as nothing is pushed on the left.
LEMMA QueueStep ==
  ASSUME "LPUSH" \notin Commands
  PROVE  QInv /\ [Next]_vars => Queue'
<1> SUFFICES ASSUME QInv, [Next]_vars PROVE Queue'
  OBVIOUS
<1>0. Queue
  BY DEF QInv
<1>1. ASSUME NEW c \in Conns, NEW n \in 0 .. MaxBatch, RPush(c, n) \/ LPush(c, n)
      PROVE  Queue'
  BY <1>1, QueueRPush DEF LPush, CanSend
<1>2. ASSUME NEW c \in Conns, NEW n \in Counts, LPop(c, n) PROVE Queue'
  <2>1. CASE n \in 0 .. Len(elements)
    BY <1>2, <2>1, QueueTake DEF LPop
  <2>2. CASE n \notin 0 .. Len(elements)
    BY <1>0, <1>2, <2>2, QueueUntouched DEF LPop, Panic, shared
  <2> QED
    BY <2>1, <2>2
<1>3. ASSUME NEW c \in Conns, NEW i \in Indices, NEW k \in Indices, LRange(c, i, k)
      PROVE  Queue'
  BY <1>0, <1>3, QueueUntouched DEF LRange, Panic, shared
<1>4. ASSUME NEW c \in Conns, NEW cmd, BLPopNow(c, cmd) PROVE Queue'
  <2>1. elements \in Seq(Elems) /\ elements # <<>>
    BY <1>4 DEF BLPopNow, QInv, IInv, TypeOK
  <2>2. 1 \in 0 .. Len(elements) /\ Len(elements) \in Nat
    BY <2>1, EmptySeq
  <2>3. elements' = SubSeq(elements, 1 + 1, Len(elements))
    BY <1>4, <2>1, TailIsSubSeq DEF BLPopNow
  <2>4. Range(SubSeq(elements, 1, 1)) = {Head(elements)}
    BY <2>1, <2>2, DropFirst
  <2>5. /\ delivered' = delivered \cup Range(SubSeq(elements, 1, 1))
        /\ UNCHANGED <<newElems, clients, chan>>
    BY <1>4, <2>4 DEF BLPopNow
  <2> QED
    BY <2>2, <2>3, <2>5, QueueTake
<1>5. ASSUME NEW c \in Conns, NEW cmd, BLPopWait(c, cmd) PROVE Queue'
  BY <1>0, <1>5
  DEF BLPopWait, Queue, NobodyBesideElements, Ascending, LeftInOrder
<1>6. ASSUME NEW c \in Conns, Hand(c) PROVE Queue'
  BY <1>6, QueueHand
<1>7. ASSUME NEW c \in Conns, RPushDone(c) PROVE Queue'
  BY <1>7, QueueRPushDone
<1>8. ASSUME NEW c \in Conns, Receive(c) PROVE Queue'
  <2>1. NobodyBesideElements'
    BY <1>0, <1>8 DEF Receive, shared, Queue, NobodyBesideElements
  <2> QED
    BY <1>8, <2>1, QueueEmptied DEF Receive, shared
<1>9. ASSUME NEW c \in Conns, GiveUp(c) PROVE Queue'
  <2>1. NobodyBesideElements'
    BY <1>9, DeregisterEmpties DEF QInv, IInv, GiveUp, Queue, NobodyBesideElements
  <2> QED
    BY <1>9, <2>1, QueueEmptied DEF GiveUp
<1>10. ASSUME NEW c \in Conns, Expire(c) \/ HangUp(c) PROVE Queue'
  BY <1>0, <1>10, QueueUntouched DEF Expire, HangUp, shared
<1>11. CASE UNCHANGED vars
  BY <1>0, <1>11, QueueUntouched DEF vars
<1> QED
  BY <1>1, <1>2, <1>3, <1>4, <1>5, <1>6, <1>7, <1>8, <1>9, <1>10, <1>11
  DEF Next, Step, Push, Pop, Read, BLPop

\* The queue starts empty.
LEMMA QueueInit == Init => Queue
<1> SUFFICES ASSUME Init PROVE Queue
  OBVIOUS
<1>1. DOMAIN elements = {} /\ DOMAIN newElems = {} /\ clients = <<>>
  BY EmptySeq, LenProperties DEF Init
<1> QED
  BY <1>1 DEF Queue, NobodyBesideElements, Ascending, LeftInOrder

\* The invariant of the queue.
LEMMA QueueAlways ==
  ASSUME "LPUSH" \notin Commands
  PROVE  Spec => []QInv
<1>1. Init => QInv
  BY InitIInv, ApartInit, QueueInit DEF QInv
<1>2. QInv /\ [Next]_vars => QInv'
  BY TypeStep, WaitersStep, ApartStep, QueueStep DEF QInv, IInv
<1> QED
  BY <1>1, <1>2, PTL DEF Spec

\* Nobody waits on a non-empty list, while RPUSH works or while nobody does
\* (handlers.go:354-367, 619-636); LPUSH, which looks at no waiter, is left out.
THEOREM NobodyIdle ==
  ASSUME "LPUSH" \notin Commands
  PROVE  Spec => []NoIdleWaiter
<1>1. QInv => NoIdleWaiter
  BY DEF QInv, Queue, NobodyBesideElements, NoIdleWaiter
<1> QED
  BY <1>1, QueueAlways, PTL

\* The list is in push order and younger than what has left it, whatever the
\* interleaving of pops and hand-overs (handlers.go:354-367, 576-581, 625-636).
THEOREM InPushOrder ==
  ASSUME "LPUSH" \notin Commands
  PROVE  Spec => []PushOrder
<1>1. QInv => PushOrder
  <2> SUFFICES ASSUME QInv PROVE PushOrder
    OBVIOUS
  <2> DEFINE list == elements \o newElems
  <2>1. /\ DOMAIN elements = 1 .. Len(elements) /\ Len(elements) \in Nat
        /\ DOMAIN newElems = 1 .. Len(newElems) /\ Len(newElems) \in Nat
        /\ DOMAIN list = 1 .. Len(elements) + Len(newElems)
        /\ \A k \in DOMAIN list :
             list[k] = IF k <= Len(elements) THEN elements[k]
                                             ELSE newElems[k - Len(elements)]
    <3>1. /\ elements \in Seq(Elems) /\ newElems \in Seq(Elems)
          /\ Len(elements) \in Nat /\ Len(newElems) \in Nat
          /\ DOMAIN elements = 1 .. Len(elements)
          /\ DOMAIN newElems = 1 .. Len(newElems)
      BY ListTypes DEF QInv, IInv
    <3>2. /\ list \in Seq(Elems)
          /\ Len(list) = Len(elements) + Len(newElems)
          /\ \A k \in 1 .. Len(elements) + Len(newElems) :
               list[k] = IF k <= Len(elements) THEN elements[k]
                                               ELSE newElems[k - Len(elements)]
      BY <3>1, ConcatProperties
    <3> HIDE DEF list
    <3>3. DOMAIN list = 1 .. Len(elements) + Len(newElems)
      BY <3>2, LenProperties
    <3> QED
      BY <3>1, <3>2, <3>3
  <2> HIDE DEF list
  <2> DEFINE old(k) == k <= Len(elements)
             at(k)  == k - Len(elements)
  <2>2. ASSUME NEW k \in DOMAIN list
        PROVE  /\ old(k) => k \in DOMAIN elements /\ list[k] = elements[k]
               /\ ~old(k) => at(k) \in DOMAIN newElems /\ list[k] = newElems[at(k)]
    BY <2>1
  <2>3. ASSUME NEW i \in DOMAIN list, NEW k \in DOMAIN list, i < k
        PROVE  list[i] < list[k]
    <3>1. (old(k) => old(i)) /\ at(i) < at(k)
      BY <2>1, <2>3
    <3> HIDE DEF old, at
    <3>2. CASE old(i) /\ old(k)
      BY <2>2, <2>3, <3>2 DEF QInv, Queue, Ascending
    <3>3. CASE old(i) /\ ~old(k)
      BY <2>2, <3>3 DEF QInv, Queue, Ascending
    <3>4. CASE ~old(i) /\ ~old(k)
      BY <2>2, <3>1, <3>4 DEF QInv, Queue, Ascending
    <3> QED
      BY <3>1, <3>2, <3>3, <3>4
  <2> HIDE DEF old, at
  <2>4. \A d \in Conns, k \in DOMAIN list : chan[d] < list[k]
    BY <2>2 DEF QInv, Queue, LeftInOrder
  <2>5. \A e \in delivered, k \in DOMAIN list : e < list[k]
    BY <2>2 DEF QInv, Queue, LeftInOrder
  <2>6. \A v \in Range(chan) : \E d \in Conns : v = chan[d]
    BY DEF Range, QInv, IInv, TypeOK
  <2>7. \A v \in Range(list) : \E k \in DOMAIN list : v = list[k]
    BY DEF Range
  <2> QED
    BY <2>3, <2>4, <2>5, <2>6, <2>7 DEF PushOrder, list
<1> QED
  BY <1>1, QueueAlways, PTL

-----------------------------------------------------------------------------
(* The handlers implement FifoList.  Each lemma maps one handler's step to  *)
(* a step of the queue, or to none.                                        *)

\* The queue is list.elements while no RPUSH is under way.
LEMMA QueueIsElements ==
  ASSUME TypeOK, newElems = <<>>
  PROVE  elements \o newElems = elements
BY ConcatEmptySeq DEF TypeOK

\* Extending a sequence on the right.
LEMMA PrefixOfConcat ==
  ASSUME NEW S, NEW s \in Seq(S), NEW t \in Seq(S)
  PROVE  IsPrefix(s, s \o t)
<1>1. /\ Len(s) \in Nat /\ s \o t \in Seq(S)
      /\ Len(s \o t) = Len(s) + Len(t) /\ Len(t) \in Nat
      /\ \A i \in 1 .. Len(s) : s[i] \in S /\ (s \o t)[i] = s[i]
  BY ConcatProperties, LenProperties
<1> DEFINE st == s \o t
<1> HIDE DEF st
<1>2. /\ \A i \in 1 .. Len(s) : st[i] = s[i] /\ s[i] \in S
      /\ Len(s) <= Len(st)
  BY <1>1 DEF st
<1>3. /\ SubSeq(s, 1, Len(s)) \in Seq(S) /\ Len(SubSeq(s, 1, Len(s))) = Len(s)
      /\ \A i \in 1 .. Len(s) : SubSeq(s, 1, Len(s))[i] = s[i]
  BY <1>1, SubSeqFull
<1>4. /\ SubSeq(st, 1, Len(s)) \in Seq(S) /\ Len(SubSeq(st, 1, Len(s))) = Len(s)
      /\ \A i \in 1 .. Len(s) : SubSeq(st, 1, Len(s))[i] = st[i]
  BY <1>1, <1>2, SubSeqProperties
<1>5. SubSeq(s, 1, Len(s)) = SubSeq(st, 1, Len(s))
  BY <1>2, <1>3, <1>4, SeqEqual
<1> QED
  BY <1>2, <1>5 DEF IsPrefix, st

\* RPUSH: the new elements join the queue.
LEMMA PushImplements ==
  ASSUME QInv, NEW c \in Conns, NEW n \in 0 .. MaxBatch, RPush(c, n)
  PROVE  Fifo!Push
<1>1. newElems = <<>>
  BY DEF RPush, Unlocked, QInv, IInv, WaitersOK, MutexMatchesHandler
<1>2. elements \o newElems = elements
  BY <1>1, QueueIsElements DEF QInv, IInv
<1>3. Batch(n) \in Seq(Elems) /\ elements \in Seq(Elems)
  BY BatchType, ListsAssumption DEF RPush, QInv, IInv, TypeOK
<1>4. IsPrefix(elements, elements \o Batch(n))
  BY <1>3, PrefixOfConcat
<1>5. elements' = elements /\ newElems' = Batch(n) /\ UNCHANGED <<clients, chan, delivered>>
  BY DEF RPush
<1> QED
  BY <1>2, <1>4, <1>5 DEF Fifo!Push, IsPrefix, Fifo!IsPrefix

\* One round of RPUSH's loop: the longest waiting client gets the oldest element.
LEMMA HandImplements ==
  ASSUME QInv, NEW c \in Conns, Hand(c)
  PROVE  Fifo!Serve
<1>1. elements = <<>>
  BY DEF Hand, QInv, Queue, NobodyBesideElements
<1>2. newElems \in Seq(Elems) /\ newElems # <<>>
  BY DEF Hand, QInv, IInv, TypeOK
<1>3. Tail(newElems) \in Seq(Elems)
  BY <1>2, HeadTailProperties
<1>4. elements \o newElems = newElems /\ elements' \o newElems' = Tail(newElems)
  BY <1>1, <1>2, <1>3, ConcatEmptySeq DEF Hand
<1> QED
  BY <1>2, <1>4 DEF Hand, Fifo!Serve

\* RPUSH appends the rest: the queue has had it since the push.
LEMMA RPushDoneImplements ==
  ASSUME QInv, NEW c \in Conns, RPushDone(c)
  PROVE  UNCHANGED Fifo!fifoVars
<1>1. elements \in Seq(Elems) /\ newElems \in Seq(Elems)
  BY DEF QInv, IInv, TypeOK
<1>2. elements \o newElems \in Seq(Elems)
  BY <1>1, ConcatProperties
<1>3. (elements \o newElems) \o <<>> = elements \o newElems
  BY <1>2, ConcatEmptySeq
<1> QED
  BY <1>3 DEF RPushDone, Fifo!fifoVars

\* LPOP and BLPOP take from the front, past nobody who waits.
LEMMA TakeImplements ==
  ASSUME QInv, mutex = Free, NEW n \in 0 .. Len(elements),
         elements' = SubSeq(elements, n + 1, Len(elements)),
         delivered' = delivered \cup Range(SubSeq(elements, 1, n)),
         UNCHANGED <<newElems, clients, chan>>
  PROVE  [Fifo!Next]_(Fifo!fifoVars)
<1>1. newElems = <<>> /\ newElems' = <<>>
  BY DEF QInv, IInv, WaitersOK, MutexMatchesHandler
<1>2. /\ elements \in Seq(Elems) /\ Len(elements) \in Nat /\ n \in Nat
  BY ListTypes DEF QInv, IInv
<1>3. elements \o newElems = elements
  BY <1>1, <1>2, ConcatEmptySeq
<1>4. elements' \o newElems' = elements'
  <2>1. elements' \in Seq(Elems)
    BY <1>2, DropFirst
  <2> QED
    BY <1>1, <2>1, ConcatEmptySeq
<1>5. CASE n = 0
  <2>1. elements' = elements
    BY <1>2, <1>5, SubSeqFull
  <2>2. Range(SubSeq(elements, 1, n)) = {}
    BY <1>2, <1>5, DropFirst
  <2> QED
    BY <1>3, <1>4, <2>1, <2>2 DEF Fifo!fifoVars
<1>6. CASE n # 0
  <2>1. n \in 1 .. Len(elements) /\ elements # <<>>
    BY <1>2, <1>6, EmptySeq
  <2>2. clients = <<>>
    BY <2>1 DEF QInv, Queue, NobodyBesideElements
  <2>3. Fifo!Take(n)
    BY <1>3, <1>4, <2>2 DEF Fifo!Take, Range, Fifo!Range
  <2> QED
    BY <1>3, <2>1, <2>3 DEF Fifo!Next
<1> QED
  BY <1>5, <1>6

\* BLPOP on an empty list waits behind those who wait already.
LEMMA WaitImplements ==
  ASSUME QInv, NEW c \in Conns, NEW cmd, BLPopWait(c, cmd)
  PROVE  Fifo!Wait(c)
<1>1. newElems = <<>> /\ elements = <<>>
  BY DEF BLPopWait, Unlocked, QInv, IInv, WaitersOK, MutexMatchesHandler
<1>2. elements \o newElems = <<>> /\ elements' \o newElems' = <<>>
  BY <1>1, QueueIsElements DEF QInv, IInv, BLPopWait
<1>3. pc[c] = "idle"
  BY DEF BLPopWait, CanSend
<1>4. chan[c] = NoElem /\ \A i \in DOMAIN clients : clients[i] # c
  BY <1>3 DEF QInv, IInv, WaitersOK, RegisteredWaitersReady, InBLPop
<1>5. c \notin Range(clients)
  BY <1>4 DEF Range
<1> QED
  BY <1>2, <1>4, <1>5 DEF BLPopWait, Fifo!Wait, Range, Fifo!Range

\* A BLPOP that times out leaves its place in the queue, or what it was served,
\* to nobody; if it has neither, nothing happens to the queue.
LEMMA GiveUpImplements ==
  ASSUME QInv, NEW c \in Conns, GiveUp(c)
  PROVE  Fifo!Leave(c) \/ UNCHANGED Fifo!fifoVars
<1>1. /\ elements' = elements /\ newElems' = newElems /\ delivered' = delivered
      /\ chan' = [chan EXCEPT ![c] = NoElem]
  BY DEF GiveUp
<1>2. elements' \o newElems' = elements \o newElems
  BY <1>1
<1>3. CASE \E i \in DOMAIN clients : clients[i] = c /\ clients' = RemoveAt(clients, i)
  BY <1>1, <1>2, <1>3 DEF Fifo!Leave, RemoveAt, Fifo!RemoveAt
<1>4. CASE (\A i \in DOMAIN clients : clients[i] # c) /\ UNCHANGED clients
  <2>1. c \notin Range(clients)
    BY <1>4 DEF Range
  <2>2. chan[c] = NoElem => chan' = chan
    BY <1>1 DEF QInv, IInv, TypeOK
  <2> QED
    BY <1>1, <1>2, <1>4, <2>1, <2>2 DEF Fifo!Leave, Fifo!fifoVars, Range, Fifo!Range
<1> QED
  BY <1>3, <1>4 DEF GiveUp, Deregister

\* Every step of every handler is a step of the queue, or none.
LEMMA StepImplements ==
  ASSUME "LPUSH" \notin Commands
  PROVE  QInv /\ gone = {} /\ [Next]_vars => [Fifo!Next]_(Fifo!fifoVars)
<1> SUFFICES ASSUME QInv, gone = {}, [Next]_vars
             PROVE  [Fifo!Next]_(Fifo!fifoVars)
  OBVIOUS
<1>1. ASSUME NEW c \in Conns, NEW n \in 0 .. MaxBatch, RPush(c, n) \/ LPush(c, n)
      PROVE  Fifo!Next
  BY <1>1, PushImplements DEF LPush, CanSend, Fifo!Next
<1>2. ASSUME NEW c \in Conns, NEW n \in Counts, LPop(c, n)
      PROVE  [Fifo!Next]_(Fifo!fifoVars)
  <2>1. CASE n \in 0 .. Len(elements)
    BY <1>2, <2>1, TakeImplements DEF LPop, Unlocked
  <2>2. CASE n \notin 0 .. Len(elements)
    BY <1>2, <2>2 DEF LPop, Panic, shared, Fifo!fifoVars
  <2> QED
    BY <2>1, <2>2
<1>3. ASSUME NEW c \in Conns, NEW i \in Indices, NEW k \in Indices, LRange(c, i, k)
      PROVE  UNCHANGED Fifo!fifoVars
  BY <1>3 DEF LRange, Panic, shared, Fifo!fifoVars
<1>4. ASSUME NEW c \in Conns, NEW cmd, BLPopNow(c, cmd)
      PROVE  [Fifo!Next]_(Fifo!fifoVars)
  <2>1. elements \in Seq(Elems) /\ elements # <<>>
    BY <1>4 DEF BLPopNow, QInv, IInv, TypeOK
  <2>2. 1 \in 0 .. Len(elements) /\ Len(elements) \in Nat
    BY <2>1, EmptySeq
  <2>3. elements' = SubSeq(elements, 1 + 1, Len(elements))
    BY <1>4, <2>1, TailIsSubSeq DEF BLPopNow
  <2>4. Range(SubSeq(elements, 1, 1)) = {Head(elements)}
    BY <2>1, <2>2, DropFirst
  <2>5. /\ delivered' = delivered \cup Range(SubSeq(elements, 1, 1))
        /\ UNCHANGED <<newElems, clients, chan>>
        /\ mutex = Free
    BY <1>4, <2>4 DEF BLPopNow, Unlocked
  <2> QED
    BY <2>2, <2>3, <2>5, TakeImplements
<1>5. ASSUME NEW c \in Conns, NEW cmd, BLPopWait(c, cmd) PROVE Fifo!Next
  BY <1>5, WaitImplements DEF Fifo!Next
<1>6. ASSUME NEW c \in Conns, Hand(c) PROVE Fifo!Next
  BY <1>6, HandImplements DEF Fifo!Next
<1>7. ASSUME NEW c \in Conns, RPushDone(c) PROVE UNCHANGED Fifo!fifoVars
  BY <1>7, RPushDoneImplements
<1>8. ASSUME NEW c \in Conns, Receive(c) PROVE Fifo!Next
  <2>1. Fifo!Collect(c)
    BY <1>8 DEF Receive, shared, Fifo!Collect
  <2> QED
    BY <2>1 DEF Fifo!Next
<1>9. ASSUME NEW c \in Conns, GiveUp(c) PROVE [Fifo!Next]_(Fifo!fifoVars)
  BY <1>9, GiveUpImplements DEF Fifo!Next
<1>10. ASSUME NEW c \in Conns, Expire(c) \/ HangUp(c) PROVE UNCHANGED Fifo!fifoVars
  BY <1>10 DEF Expire, HangUp, shared, Fifo!fifoVars
<1>11. CASE UNCHANGED vars
  BY <1>11 DEF vars, Fifo!fifoVars
<1> QED
  BY <1>1, <1>2, <1>3, <1>4, <1>5, <1>6, <1>7, <1>8, <1>9, <1>10, <1>11
  DEF Next, Step, Push, Pop, Read, BLPop

\* While no peer hangs up, nobody is gone.
LEMMA NobodyGone ==
  ASSUME "hang up" \notin Commands
  PROVE  Spec => [](gone = {})
<1>1. Init => gone = {}
  BY DEF Init
<1>2. gone = {} /\ [Next]_vars => (gone = {})'
  BY DEF Next, Step, Push, Pop, Read, BLPop, RPush, LPush, Hand, RPushDone, LPop,
         LRange, Panic, BLPopNow, BLPopWait, Receive, Expire, GiveUp, HangUp, vars
<1> QED
  BY <1>1, <1>2, PTL DEF Spec

\* Every behaviour of the list is one of the queue, as long as nothing is pushed
\* on the left and no peer hangs up (handlers.go:346-367, 574-581, 625-661).
THEOREM ListIsAQueue ==
  ASSUME "LPUSH" \notin Commands, "hang up" \notin Commands
  PROVE  Spec => ImplementsFifo
<1>1. Init => Fifo!Init
  <2>1. Init => elements \o newElems = <<>>
    BY EmptySeq, ConcatEmptySeq DEF Init
  <2> QED
    BY <2>1 DEF Init, Fifo!Init
<1>2. QInv /\ gone = {} /\ [Next]_vars => [Fifo!Next]_(Fifo!fifoVars)
  BY StepImplements
<1> QED
  BY <1>1, <1>2, QueueAlways, NobodyGone, PTL DEF Spec, ImplementsFifo, Fifo!Spec
=============================================================================
