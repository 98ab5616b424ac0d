----------------------------- MODULE FifoList ------------------------------
(***************************************************************************)
(* What a list with RPUSH, LPOP and BLPOP promises: a queue of             *)
(* elements and a queue of waiting clients.  Elements are served to the    *)
(* longest waiting client in push order, nobody pops past a waiting        *)
(* client, and a client starts to wait only on an empty queue.  A client   *)
(* may leave at any time; it then loses what it was served and has not     *)
(* collected.                                                              *)
(* Nothing is said of mutexes, channels, timers or goroutines.             *)
(***************************************************************************)
EXTENDS Integers, SequencesExt

CONSTANTS Conns, NoElem

VARIABLES
  queue,     \* elements pushed and not served
  waiting,   \* clients waiting, longest first
  granted,   \* the element served to a client that has not collected it
  taken      \* elements clients have

fifoVars == <<queue, waiting, granted, taken>>

Init ==
  /\ queue = <<>>
  /\ waiting = <<>>
  /\ granted = [c \in Conns |-> NoElem]
  /\ taken = {}

\* Some elements join the queue, behind those already in it.
Push ==
  /\ IsPrefix(queue, queue')
  /\ UNCHANGED <<waiting, granted, taken>>

Serve ==
  /\ queue # <<>> /\ waiting # <<>>
  /\ granted[Head(waiting)] = NoElem
  /\ granted' = [granted EXCEPT ![Head(waiting)] = Head(queue)]
  /\ queue' = Tail(queue)
  /\ waiting' = Tail(waiting)
  /\ UNCHANGED taken

Take(n) ==
  /\ waiting = <<>>
  /\ queue' = SubSeq(queue, n + 1, Len(queue))
  /\ taken' = taken \cup Range(SubSeq(queue, 1, n))
  /\ UNCHANGED <<waiting, granted>>

Wait(c) ==
  /\ queue = <<>> /\ granted[c] = NoElem
  /\ c \notin Range(waiting)
  /\ waiting' = Append(waiting, c)
  /\ UNCHANGED <<queue, granted, taken>>

Collect(c) ==
  /\ granted[c] # NoElem
  /\ granted' = [granted EXCEPT ![c] = NoElem]
  /\ taken' = taken \cup {granted[c]}
  /\ UNCHANGED <<queue, waiting>>

\* The others keep their order.
Leave(c) ==
  /\ \/ \E i \in DOMAIN waiting : waiting[i] = c /\ waiting' = RemoveAt(waiting, i)
     \/ c \notin Range(waiting) /\ granted[c] # NoElem /\ UNCHANGED waiting
  /\ granted' = [granted EXCEPT ![c] = NoElem]
  /\ UNCHANGED <<queue, taken>>

Next ==
  \/ Push \/ Serve
  \/ \E n \in 1 .. Len(queue) : Take(n)
  \/ \E c \in Conns : Wait(c) \/ Collect(c) \/ Leave(c)

\* The promise of progress: whoever can be served is served, and gets what it was served.
Fairness == WF_fifoVars(Serve) /\ \A c \in Conns : WF_fifoVars(Collect(c))

Spec == Init /\ [][Next]_fifoVars
=============================================================================
