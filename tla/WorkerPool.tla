----------------------------- MODULE WorkerPool -----------------------------
(***************************************************************************)
(* What the thread pool of the server promises, without the mutex, the     *)
(* condition variable, the linked list and the heap: connections wait in   *)
(* the order in which they were accepted, each one is given to exactly one *)
(* worker, and a worker has at most one connection at a time ("one thread  *)
(* corresponds to one user", server/src/ThreadPool.c:11).                  *)
(***************************************************************************)
EXTENDS Sequences

CONSTANTS Worker, Conn, NULL

VARIABLES
  waiting,    \* connections accepted and not yet served, oldest first
  serving,    \* serving[w]: the connection of worker w, or NULL
  finished    \* connections whose session is over

poolVars == <<waiting, serving, finished>>

PoolInit ==
  /\ waiting = <<>>
  /\ serving = [w \in Worker |-> NULL]
  /\ finished = {}

Seen == {waiting[i] : i \in DOMAIN waiting} \cup {serving[w] : w \in Worker} \cup finished

Submit(c) ==
  /\ c \notin Seen
  /\ waiting' = Append(waiting, c)
  /\ UNCHANGED <<serving, finished>>

Take(w) ==
  /\ serving[w] = NULL
  /\ waiting # <<>>
  /\ serving' = [serving EXCEPT ![w] = Head(waiting)]
  /\ waiting' = Tail(waiting)
  /\ UNCHANGED finished

Finish(w) ==
  /\ serving[w] # NULL
  /\ finished' = finished \cup {serving[w]}
  /\ serving' = [serving EXCEPT ![w] = NULL]
  /\ UNCHANGED waiting

PoolNext ==
  \/ \E c \in Conn : Submit(c)
  \/ \E w \in Worker : Take(w) \/ Finish(w)

PoolSpec == PoolInit /\ [][PoolNext]_poolVars
=============================================================================
