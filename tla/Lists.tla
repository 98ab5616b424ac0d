------------------------------- MODULE Lists -------------------------------
(***************************************************************************)
(* One LockableList of the server: RPUSH, LPUSH, LPOP, LLEN, LRANGE and    *)
(* BLPOP on one key, by several connections.  Lists of different keys      *)
(* share nothing, so one key is enough.                                    *)
(*                                                                         *)
(* A handler that takes the mutex, works and releases it without leaving a *)
(* trace another goroutine could see is one action.  RPUSH is not: each    *)
(* "c <- newElems[0]" (handlers.go:358) can be answered by a waiter, or    *)
(* overtaken by that waiter's timer, while RPUSH still holds the mutex.    *)
(* BLPOP is the register step, then the select of handlers.go:646-650,     *)
(* then, after a timeout, a second critical section.                       *)
(*                                                                         *)
(* Pushed elements are numbered in the order in which they are pushed, so  *)
(* an element is its push number and 0 stands for "no element".            *)
(*                                                                         *)
(* An operator marked "Wrong" takes part in no behaviour: it is a bug that *)
(* the definition after it could have had, and each of the properties      *)
(* fails for one of them.                                                  *)
(***************************************************************************)
EXTENDS Integers, SequencesExt

CONSTANTS
  Conns,      \* client connections, each served by one goroutine
  Free,       \* not a connection: the mutex when nobody holds it
  Commands,   \* the commands clients send in this instance
  MaxBatch,   \* most elements of one push
  MaxPushed,  \* bound: elements pushed in one behaviour
  Counts,     \* counts clients give to LPOP
  Indices     \* indices clients give to LRANGE

ASSUME ListsAssumption ==
  /\ Free \notin Conns
  /\ MaxBatch \in Nat
  /\ MaxPushed \in Nat
  /\ Counts \subseteq Int
  /\ Indices \subseteq Int

NoElem == 0
Elems  == 1 .. MaxPushed

VARIABLES
  up,         \* the process runs (a panic in any goroutine ends it)
  exists,     \* the key is in ListRegistry
  elements,   \* list.elements
  clients,    \* list.clients; a channel is named by the connection that made it
  chan,       \* the one-slot buffer of each connection's channel
  mutex,      \* the connection inside list.Lock(), or Free
  newElems,   \* elements the RPUSH that holds the mutex has not placed yet
  pc,         \* where each connection's goroutine is
  timed,      \* the blocked BLPOP has a non-zero timeout
  gone,       \* connections whose peer hung up while BLPOP was blocked
  pushed,     \* history: number of elements pushed so far
  delivered   \* history: elements written to a connected client by a pop

shared == <<elements, clients, mutex, newElems>>
vars   == <<up, exists, elements, clients, chan, mutex, newElems, pc, timed,
            gone, pushed, delivered>>

Init ==
  /\ up = TRUE
  /\ exists = FALSE
  /\ elements = <<>>
  /\ clients = <<>>
  /\ chan = [c \in Conns |-> NoElem]
  /\ mutex = Free
  /\ newElems = <<>>
  /\ pc = [c \in Conns |-> "idle"]
  /\ timed = [c \in Conns |-> FALSE]
  /\ gone = {}
  /\ pushed = 0
  /\ delivered = {}

-----------------------------------------------------------------------------
(* Guards and small pieces shared by the handlers. *)

\* serveCommands reads the next command of a connection when the last is done.
CanSend(c, cmd) == up /\ cmd \in Commands /\ pc[c] = "idle" /\ c \notin gone

Unlocked == mutex = Free

\* The n elements a client sends with a push.
Batch(n) == [k \in 1 .. n |-> pushed + k]

\* An index out of range: the panic reaches no recover and ends the process.
Panic ==
  /\ up' = FALSE
  /\ UNCHANGED <<exists, shared, chan, pc, timed, gone, pushed, delivered>>

-----------------------------------------------------------------------------
(* HandleRPush: LoadOrStore and Lock, the hand-over loop, append and Unlock. *)

RPush(c, n) ==
  /\ CanSend(c, "RPUSH") /\ Unlocked
  /\ pushed + n <= MaxPushed
  /\ exists' = TRUE
  /\ mutex' = c
  /\ newElems' = Batch(n)
  /\ pushed' = pushed + n
  /\ pc' = [pc EXCEPT ![c] = "pushing"]
  /\ UNCHANGED <<up, elements, clients, chan, timed, gone, delivered>>

\* Wrong: sends the element and keeps it.
HandKeepsElem(c) ==
  /\ up /\ pc[c] = "pushing"
  /\ clients # <<>> /\ newElems # <<>>
  /\ chan[Head(clients)] = NoElem
  /\ chan' = [chan EXCEPT ![Head(clients)] = Head(newElems)]
  /\ clients' = Tail(clients)
  /\ UNCHANGED <<up, exists, elements, newElems, mutex, pc, timed, gone, pushed, delivered>>

\* One round of the loop.  The send waits while the waiter's buffer is full.
Hand(c) ==
  /\ up /\ pc[c] = "pushing"
  /\ clients # <<>> /\ newElems # <<>>
  /\ chan[Head(clients)] = NoElem
  /\ chan' = [chan EXCEPT ![Head(clients)] = Head(newElems)]
  /\ clients' = Tail(clients)
  /\ newElems' = Tail(newElems)
  /\ UNCHANGED <<up, exists, elements, mutex, pc, timed, gone, pushed, delivered>>

\* Wrong: looks at no waiter, like LPUSH.
RPushDoneEarly(c) ==
  /\ up /\ pc[c] = "pushing"
  /\ elements' = elements \o newElems
  /\ newElems' = <<>>
  /\ mutex' = Free
  /\ pc' = [pc EXCEPT ![c] = "idle"]
  /\ UNCHANGED <<up, exists, clients, chan, timed, gone, pushed, delivered>>

\* Wrong: pushes on the left.
RPushDoneLeft(c) ==
  /\ up /\ pc[c] = "pushing"
  /\ clients = <<>> \/ newElems = <<>>
  /\ elements' = newElems \o elements
  /\ newElems' = <<>>
  /\ mutex' = Free
  /\ pc' = [pc EXCEPT ![c] = "idle"]
  /\ UNCHANGED <<up, exists, clients, chan, timed, gone, pushed, delivered>>

\* Wrong: returns without Unlock when every element went to a waiter.
RPushDoneLocked(c) ==
  /\ up /\ pc[c] = "pushing"
  /\ clients = <<>> \/ newElems = <<>>
  /\ elements' = elements \o newElems
  /\ newElems' = <<>>
  /\ mutex' = IF newElems = <<>> THEN mutex ELSE Free
  /\ pc' = [pc EXCEPT ![c] = "idle"]
  /\ UNCHANGED <<up, exists, clients, chan, timed, gone, pushed, delivered>>

RPushDone(c) ==
  /\ up /\ pc[c] = "pushing"
  /\ clients = <<>> \/ newElems = <<>>
  /\ elements' = elements \o newElems
  /\ newElems' = <<>>
  /\ mutex' = Free
  /\ pc' = [pc EXCEPT ![c] = "idle"]
  /\ UNCHANGED <<up, exists, clients, chan, timed, gone, pushed, delivered>>

(* HandleLPush: prepends one by one under the mutex; looks at no waiter. *)
LPush(c, n) ==
  /\ CanSend(c, "LPUSH") /\ Unlocked
  /\ pushed + n <= MaxPushed
  /\ exists' = TRUE
  /\ elements' = Reverse(Batch(n)) \o elements
  /\ pushed' = pushed + n
  /\ UNCHANGED <<up, clients, chan, mutex, newElems, pc, timed, gone, delivered>>

\* Wrong: slices one element too many off the list.
LPopOneMore(c, n) ==
  /\ CanSend(c, "LPOP") /\ exists /\ Unlocked
  /\ IF n \in 0 .. Len(elements)
       THEN /\ elements' = SubSeq(elements, n + 2, Len(elements))
            /\ delivered' = delivered \cup Range(SubSeq(elements, 1, n))
            /\ UNCHANGED <<up, exists, clients, chan, mutex, newElems, pc,
                           timed, gone, pushed>>
       ELSE Panic

(* HandleLPop: indexes and slices list.elements by the client's count.  A   *)
(* missing key is answered without the mutex and changes nothing.           *)
LPop(c, n) ==
  /\ CanSend(c, "LPOP") /\ exists /\ Unlocked
  /\ IF n \in 0 .. Len(elements)
       THEN /\ elements' = SubSeq(elements, n + 1, Len(elements))
            /\ delivered' = delivered \cup Range(SubSeq(elements, 1, n))
            /\ UNCHANGED <<up, exists, clients, chan, mutex, newElems, pc,
                           timed, gone, pushed>>
       ELSE Panic

-----------------------------------------------------------------------------
(* HandleLRange: the index arithmetic, the reply, and the panic. *)

\* Wrong: takes -1 for the end of the list, not for its last element.
FromEndOffByOne(i, len) == IF i < 0 THEN (IF i + len > 0 THEN i + len + 1 ELSE 0) ELSE i

FromEnd(i, len) == IF i < 0 THEN (IF i + len > 0 THEN i + len ELSE 0) ELSE i
Clamp(i, len)   == IF FromEnd(i, len) < len - 1 THEN FromEnd(i, len) ELSE len - 1

\* The number announced in the reply's "*%d" header.
LRangeHeader(es, i, j) == Clamp(j, Len(es)) - Clamp(i, Len(es)) + 1

\* The elements that follow the header (Go index k is TLA+ index k + 1).
LRangeBody(es, i, j) == SubSeq(es, Clamp(i, Len(es)) + 1, Clamp(j, Len(es)) + 1)

\* list.elements[k] is evaluated for a k below zero.
LRangePanics(es, i, j) == Clamp(i, Len(es)) < 0 /\ Clamp(i, Len(es)) <= Clamp(j, Len(es))

LRange(c, i, j) ==
  /\ CanSend(c, "LRANGE") /\ exists /\ Unlocked
  /\ LRangePanics(elements, i, j)
  /\ Panic

-----------------------------------------------------------------------------
(* HandleBLPop. *)

BLPopNow(c, cmd) ==
  /\ CanSend(c, cmd) /\ Unlocked
  /\ elements # <<>>
  /\ exists' = TRUE
  /\ elements' = Tail(elements)
  /\ delivered' = delivered \cup {Head(elements)}
  /\ UNCHANGED <<up, clients, chan, mutex, newElems, pc, timed, gone, pushed>>

\* "BLPOP" blocks for ever; "BLPOP timeout" waits for its timer too.
BLPopWait(c, cmd) ==
  /\ CanSend(c, cmd) /\ Unlocked
  /\ elements = <<>>
  /\ exists' = TRUE
  /\ clients' = Append(clients, c)
  /\ pc' = [pc EXCEPT ![c] = "blocked"]
  /\ timed' = [timed EXCEPT ![c] = (cmd = "BLPOP timeout")]
  /\ UNCHANGED <<up, elements, chan, mutex, newElems, gone, pushed, delivered>>

\* Wrong: does not wait for an element.
ReceiveEarly(c) ==
  /\ up /\ pc[c] = "blocked"
  /\ chan' = [chan EXCEPT ![c] = NoElem]
  /\ delivered' = IF c \in gone THEN delivered ELSE delivered \cup {chan[c]}
  /\ pc' = [pc EXCEPT ![c] = "idle"]
  /\ timed' = [timed EXCEPT ![c] = FALSE]
  /\ UNCHANGED <<up, exists, shared, gone, pushed>>

\* val := <-clientCh, then SendBLPOPSuccess; the write fails if the peer is gone.
Receive(c) ==
  /\ up /\ pc[c] = "blocked" /\ chan[c] # NoElem
  /\ chan' = [chan EXCEPT ![c] = NoElem]
  /\ delivered' = IF c \in gone THEN delivered ELSE delivered \cup {chan[c]}
  /\ pc' = [pc EXCEPT ![c] = "idle"]
  /\ timed' = [timed EXCEPT ![c] = FALSE]
  /\ UNCHANGED <<up, exists, shared, gone, pushed>>

\* The timer case of the select: it may win although clientCh is ready too.
Expire(c) ==
  /\ up /\ pc[c] = "blocked" /\ timed[c]
  /\ pc' = [pc EXCEPT ![c] = "expired"]
  /\ UNCHANGED <<up, exists, shared, chan, timed, gone, pushed, delivered>>

\* Wrong: removes the first waiter, whoever it is.
DeregisterFirst(c) == clients' = IF clients = <<>> THEN <<>> ELSE Tail(clients)

\* The first entry of this channel is removed, if there is one.
Deregister(c) ==
  \/ \E i \in DOMAIN clients :
       /\ clients[i] = c
       /\ \A k \in 1 .. i - 1 : clients[k] # c
       /\ clients' = RemoveAt(clients, i)
  \/ /\ \A i \in DOMAIN clients : clients[i] # c
     /\ UNCHANGED clients

\* Wrong: looks for its channel until it finds it.
GiveUpWhenFound(c) ==
  /\ up /\ pc[c] = "expired" /\ Unlocked
  /\ c \in Range(clients) /\ Deregister(c)
  /\ chan' = [chan EXCEPT ![c] = NoElem]
  /\ pc' = [pc EXCEPT ![c] = "idle"]
  /\ timed' = [timed EXCEPT ![c] = FALSE]
  /\ UNCHANGED <<up, exists, elements, mutex, newElems, gone, pushed, delivered>>

\* Remove the channel under the mutex, answer nil; the channel is garbage then.
GiveUp(c) ==
  /\ up /\ pc[c] = "expired" /\ Unlocked
  /\ Deregister(c)
  /\ chan' = [chan EXCEPT ![c] = NoElem]
  /\ pc' = [pc EXCEPT ![c] = "idle"]
  /\ timed' = [timed EXCEPT ![c] = FALSE]
  /\ UNCHANGED <<up, exists, elements, mutex, newElems, gone, pushed, delivered>>

\* The peer of a blocked BLPOP hangs up; nothing in the handler notices.
HangUp(c) ==
  /\ up /\ "hang up" \in Commands
  /\ pc[c] \in {"blocked", "expired"} /\ c \notin gone
  /\ gone' = gone \cup {c}
  /\ UNCHANGED <<up, exists, shared, chan, pc, timed, pushed, delivered>>

-----------------------------------------------------------------------------
Push(c) == \E n \in 0 .. MaxBatch : RPush(c, n) \/ LPush(c, n)
Pop(c)  == \E n \in Counts : LPop(c, n)
Read(c) == \E i, j \in Indices : LRange(c, i, j)

BLPop(c) ==
  \E cmd \in {"BLPOP", "BLPOP timeout"} : BLPopNow(c, cmd) \/ BLPopWait(c, cmd)

Step(c) ==
  \/ Push(c) \/ Hand(c) \/ RPushDone(c)
  \/ Pop(c) \/ Read(c)
  \/ BLPop(c) \/ Receive(c) \/ Expire(c) \/ GiveUp(c)
  \/ HangUp(c)

Next == \E c \in Conns : Step(c)

(***************************************************************************)
(* The Go scheduler runs every runnable goroutine, timers fire, and a      *)
(* goroutine that waits for a sync.Mutex gets it although others take it   *)
(* again and again (its starvation mode), hence strong fairness of GiveUp. *)
(* Clients owe nothing: no fairness for the commands themselves.           *)
(***************************************************************************)
Fairness ==
  \A c \in Conns :
    /\ WF_vars(Hand(c)) /\ WF_vars(RPushDone(c))
    /\ WF_vars(Receive(c)) /\ WF_vars(Expire(c))
    /\ SF_vars(GiveUp(c))

Spec == Init /\ [][Next]_vars /\ Fairness

-----------------------------------------------------------------------------
(* Properties. *)

\* Every variable has its type (the layout of LockableList and of a handler's
\* local state, structures.go:13-17, handlers.go:598-664).
TypeOK ==
  /\ up \in BOOLEAN /\ exists \in BOOLEAN
  /\ elements \in Seq(Elems)
  /\ clients \in Seq(Conns)
  /\ chan \in [Conns -> Elems \cup {NoElem}]
  /\ mutex \in Conns \cup {Free}
  /\ newElems \in Seq(Elems)
  /\ pc \in [Conns -> {"idle", "pushing", "blocked", "expired"}]
  /\ timed \in [Conns -> BOOLEAN]
  /\ gone \subseteq Conns
  /\ pushed \in 0 .. MaxPushed
  /\ delivered \subseteq Elems

\* c's channel is in list.clients.
Registered(c) == \E i \in DOMAIN clients : clients[i] = c

\* The goroutine inside list.Lock() is the one that is pushing, and only it
\* holds elements that are in no list yet (handlers.go:350-367).
MutexMatchesHandler ==
  /\ \A c \in Conns : pc[c] = "pushing" <=> mutex = c
  /\ mutex = Free => newElems = <<>>

\* c's BLPOP has registered its channel and has not returned.
InBLPop(c) == pc[c] \in {"blocked", "expired"}

\* A channel in list.clients occurs once, its BLPOP has not returned, and its
\* buffer is empty: the send of handlers.go:358, made while RPUSH holds the
\* mutex, can never block and so never freezes the list.  No channel holds an
\* element when its BLPOP has returned.
RegisteredWaitersReady ==
  /\ \A i, k \in DOMAIN clients : clients[i] = clients[k] => i = k
  /\ \A i \in DOMAIN clients : InBLPop(clients[i]) /\ chan[clients[i]] = NoElem
  /\ \A c \in Conns : chan[c] # NoElem => InBLPop(c)

\* A BLPOP that is still blocked can still be answered: its channel is
\* registered, or an element already waits in it.  No interleaving of RPUSH's
\* hand-over and other waiters' timeouts (handlers.go:653-658 splices the very
\* slice RPUSH pops from) drops a waiter.
NoForgottenWaiter ==
  \A c \in Conns : pc[c] = "blocked" => Registered(c) \/ chan[c] # NoElem

\* While the mutex is free nobody waits on a non-empty list.
NoIdleWaiter == mutex = Free => elements = <<>> \/ clients = <<>>

\* The elements that are somewhere in the server.
Held == Range(elements) \cup Range(newElems) \cup (Range(chan) \ {NoElem})

\* No element is in two places or was given to a client and kept: popping,
\* handing over and receiving never duplicate it (handlers.go:354-364, 576-581).
NoDuplicate ==
  /\ IsInjective(elements \o newElems)
  /\ \A c, d \in Conns : chan[c] = chan[d] /\ chan[c] # NoElem => c = d
  /\ Range(elements \o newElems) \cap Range(chan) = {}
  /\ Held \cap delivered = {}

\* RPUSH, LPOP and BLPOP keep push order: what is in the list is in ascending
\* order and younger than everything that has been popped or handed over.
PushOrder ==
  LET list == elements \o newElems IN
  /\ \A i, k \in DOMAIN list : i < k => list[i] < list[k]
  /\ \A e \in Range(list), d \in delivered \cup Range(chan) : d < e

\* An element leaves the server undelivered only through a BLPOP that has taken
\* the case of its timer, or whose peer is gone (handlers.go:639-661).
OnlyTimeoutOrHangUpLoses ==
  [][\A e \in Held \ (Held' \cup delivered') :
       \E c \in Conns : chan[c] = e /\ (pc[c] = "expired" \/ c \in gone)]_vars

\* With the start index inside the list and the end index not before it, LRANGE
\* sends the elements between the two, counted from the end when negative and
\* cut at the ends of the list, and announces that many (handlers.go:424-438).
LRangeIsSlice ==
  LET len   == Len(elements)
      At(i) == IF i < 0 THEN i + len ELSE i
  IN \A i, j \in Indices :
       len > 0 /\ At(i) < len /\ At(j) >= 0 =>
         /\ LRangeBody(elements, i, j) =
              SubSeq(elements, IF At(i) < 0 THEN 1 ELSE At(i) + 1,
                               IF At(j) >= len THEN len ELSE At(j) + 1)
         /\ At(i) <= At(j) =>
              LRangeHeader(elements, i, j) = Len(LRangeBody(elements, i, j))

\* A BLPOP with a timeout is answered (or the process has died).
TimedBLPopAnswered ==
  \A c \in Conns : pc[c] = "blocked" /\ timed[c] ~> pc[c] = "idle" \/ ~up

\* An RPUSH always releases the mutex.
MutexReleased == mutex # Free ~> mutex = Free \/ ~up

-----------------------------------------------------------------------------
(***************************************************************************)
(* With RPUSH, LPOP and BLPOP only, the list implements FifoList: the      *)
(* queue is list.elements followed by what the RPUSH in progress has not   *)
(* placed yet, the waiters are list.clients, and what a client was served  *)
(* and has not collected is in its channel.                                *)
(***************************************************************************)
Fifo == INSTANCE FifoList
  WITH queue <- elements \o newElems, waiting <- clients, granted <- chan,
       taken <- delivered

\* Every behaviour of the list is one of the queue, as long as nothing is pushed
\* on the left and no peer hangs up: a timed-out BLPOP leaves the queue without
\* disturbing anyone else's place (handlers.go:346-367, 574-581, 625-661).
ImplementsFifo == Fifo!Spec

\* Unless an LPOP out of range ends the process, a client that can be served is
\* served, and collects what it was served (handlers.go:354-362, 639-640).
ImplementsFifoFairly == []up => Fifo!Fairness
=============================================================================
