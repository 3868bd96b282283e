----------------------------- MODULE ThreadPool -----------------------------
(***************************************************************************)
(* The server process of the net disk: the main thread of                  *)
(* server/src/main.c, the workers of server/src/ThreadPool.c and the task  *)
(* queue they share.                                                       *)
(*                                                                         *)
(* The main thread sleeps in epoll_wait on the listening socket and on the *)
(* pipe through which the parent process reports signal 10.  It turns each *)
(* connection into a heap node and appends the node to the queue under the *)
(* mutex.  A worker takes a node under the mutex, runs the whole session   *)
(* (UserFunc), frees the node and then looks at exit_flag, without the     *)
(* mutex.  Each action is the longest piece of a thread's code that        *)
(* touches shared state once; an action in the critical section is guarded *)
(* by the program counter alone, and MutexInv shows that this is enough.   *)
(***************************************************************************)
EXTENDS TaskQueue

CONSTANTS
  Worker,      \* the threads of the pool (PTHREAD_NUM of them)
  Conn,        \* client connections; bounds the number of accepts
  Main,        \* the main thread, as an owner of the mutex
  MaxSignals   \* bound: how often signal 10 is sent to the parent

ASSUME WorkerAssumption ==
  /\ NULL \notin Worker
  /\ Main \notin Worker
  /\ Main # NULL

ASSUME ConnAssumption == NULL \notin Conn

ASSUME SignalAssumption == MaxSignals \in Nat

VARIABLES
  mutex,       \* owner of queue_mutex, or NULL
  exit_flag,   \* the flag of the queue: 1 once shutdown was requested
  pc,          \* program counter of each worker
  pTask,       \* pTask[w]: the node worker w holds, or NULL
  heap,        \* nodes allocated by calloc and not yet freed
  user_cfd,    \* user_cfd[n]: the connection stored in node n
  mpc,         \* program counter of the main thread
  evs,         \* events of the last epoll_wait still to be handled
  newTask,     \* the main thread's pTask, or NULL
  backlog,     \* connections waiting for accept, oldest first
  pipe,        \* bytes in out_pipe
  parent,      \* "wait": the parent is in wait(); "exited"
  arrived,     \* history: connections that ever reached the listener
  finished,    \* history: connections whose UserFunc returned
  late         \* history: late[w] tasks taken by w with exit_flag set

threadVars == <<mutex, exit_flag, pc, pTask, heap, user_cfd>>
mainVars == <<mpc, evs, newTask>>
envVars == <<backlog, pipe, parent, arrived>>
history == <<finished, late>>
vars == <<queueVars, threadVars, mainVars, envVars, history>>

WorkerPC == {"lock", "check", "wait", "relock", "get", "unlock", "serve", "test", "over"}
MainPC == {"epoll", "event", "lock", "insert", "broadcast", "unlock",
           "xlock", "xset", "xbroadcast", "join", "exited", "failed"}

\* The state after ThreadPoolInit and ThreadPoolCreate, at the first epoll_wait.
Init ==
  /\ TaskQueueInit
  /\ mutex = NULL
  /\ exit_flag = 0
  /\ pc = [w \in Worker |-> "lock"]
  /\ pTask = [w \in Worker |-> NULL]
  /\ heap = {}
  /\ user_cfd = [n \in Node |-> NULL]
  /\ mpc = "epoll"
  /\ evs = <<>>
  /\ newTask = NULL
  /\ backlog = <<>>
  /\ pipe = 0
  /\ parent = "wait"
  /\ arrived = {}
  /\ finished = {}
  /\ late = [w \in Worker |-> 0]

\* The child process exists: neither exit(0) nor the return of its main was reached.
Running == mpc \notin {"exited", "failed"}

-----------------------------------------------------------------------------
(* Clients, the parent process and its signal handler.                     *)

\* A client connects: the kernel completes the handshake into the backlog.
Connect(c) ==
  /\ Running
  /\ c \notin arrived
  /\ arrived' = arrived \cup {c}
  /\ backlog' = Append(backlog, c)
  /\ UNCHANGED <<queueVars, threadVars, mainVars, pipe, parent, history>>

\* sigfunc in the parent writes one byte into the pipe.
sigfunc ==
  /\ parent = "wait"
  /\ pipe < MaxSignals
  /\ pipe' = pipe + 1
  /\ UNCHANGED <<queueVars, threadVars, mainVars, backlog, parent, arrived, history>>

\* wait(NULL) returns in the parent when the child is gone.
ParentExit ==
  /\ parent = "wait"
  /\ ~Running
  /\ parent' = "exited"
  /\ UNCHANGED <<queueVars, threadVars, mainVars, backlog, pipe, arrived, history>>

-----------------------------------------------------------------------------
(* The main thread.                                                        *)

Ready == (IF backlog # <<>> THEN {"sfd"} ELSE {}) \cup (IF pipe > 0 THEN {"pipe"} ELSE {})

EventLists == {<<"sfd">>, <<"pipe">>, <<"sfd", "pipe">>, <<"pipe", "sfd">>}

\* epoll_wait reports every ready descriptor (there is room for both), in any order.
EpollWait ==
  /\ mpc = "epoll"
  /\ evs' \in {s \in EventLists : {s[i] : i \in DOMAIN s} = Ready}
  /\ mpc' = "event"
  /\ UNCHANGED <<queueVars, threadVars, newTask, envVars, history>>

\* The for loop over the events is over.
EventsDone ==
  /\ mpc = "event"
  /\ evs = <<>>
  /\ mpc' = "epoll"
  /\ UNCHANGED <<queueVars, threadVars, evs, newTask, envVars, history>>

\* Defective variant: the descriptor is not stored in the node.
Accept_NoDescriptor ==
  /\ mpc = "event"
  /\ evs # <<>> /\ Head(evs) = "sfd"
  /\ \E n \in Node \ heap :
        /\ heap' = heap \cup {n}
        /\ newTask' = n
        /\ pNext' = [pNext EXCEPT ![n] = NULL]
  /\ backlog' = Tail(backlog)
  /\ mpc' = "lock"
  /\ UNCHANGED <<queue_len, pHead, pTail, fifo, mutex, exit_flag, pc, pTask, user_cfd, evs,
                 pipe, parent, arrived, history>>

\* accept succeeds; calloc returns a zeroed node at some free address.
Accept ==
  /\ mpc = "event"
  /\ evs # <<>> /\ Head(evs) = "sfd"
  /\ \E n \in Node \ heap :
        /\ heap' = heap \cup {n}
        /\ newTask' = n
        /\ pNext' = [pNext EXCEPT ![n] = NULL]
        /\ user_cfd' = [user_cfd EXCEPT ![n] = Head(backlog)]
  /\ backlog' = Tail(backlog)
  /\ mpc' = "lock"
  /\ UNCHANGED <<queue_len, pHead, pTail, fifo, mutex, exit_flag, pc, pTask, evs,
                 pipe, parent, arrived, history>>

\* accept fails: ERROR_CHECK returns from main, which ends the process.
AcceptFails ==
  /\ mpc = "event"
  /\ evs # <<>> /\ Head(evs) = "sfd"
  /\ mpc' = "failed"
  /\ UNCHANGED <<queueVars, threadVars, evs, newTask, envVars, history>>

MainLock ==
  /\ mpc = "lock"
  /\ mutex = NULL
  /\ mutex' = Main
  /\ mpc' = "insert"
  /\ UNCHANGED <<queueVars, exit_flag, pc, pTask, heap, user_cfd, evs, newTask,
                 envVars, history>>

MainInsert ==
  /\ mpc = "insert"
  /\ InsertTaskQueue(newTask)
  /\ newTask' = NULL
  /\ mpc' = "broadcast"
  /\ UNCHANGED <<threadVars, evs, envVars, history>>

\* Defective variant: pthread_cond_signal, which wakes one waiter.
WakeAll_Signal ==
  \/ \E w \in Worker : pc[w] = "wait" /\ pc' = [pc EXCEPT ![w] = "relock"]
  \/ (\A w \in Worker : pc[w] # "wait") /\ UNCHANGED pc

\* Defective variant: the broadcast is forgotten.
WakeAll_Nobody == UNCHANGED pc

\* pthread_cond_broadcast: every waiter wakes up and competes for the mutex.
WakeAll == pc' = [w \in Worker |-> IF pc[w] = "wait" THEN "relock" ELSE pc[w]]

MainBroadcast ==
  /\ mpc = "broadcast"
  /\ WakeAll
  /\ mpc' = "unlock"
  /\ UNCHANGED <<queueVars, mutex, exit_flag, pTask, heap, user_cfd, evs, newTask,
                 envVars, history>>

MainUnlock ==
  /\ mpc = "unlock"
  /\ mutex' = NULL
  /\ evs' = Tail(evs)
  /\ mpc' = "event"
  /\ UNCHANGED <<queueVars, exit_flag, pc, pTask, heap, user_cfd, newTask,
                 envVars, history>>

\* The pipe is readable: shutdown.  The byte is never read.
ExitEvent ==
  /\ mpc = "event"
  /\ evs # <<>> /\ Head(evs) = "pipe"
  /\ mpc' = "xlock"
  /\ UNCHANGED <<queueVars, threadVars, evs, newTask, envVars, history>>

ExitLock ==
  /\ mpc = "xlock"
  /\ mutex = NULL
  /\ mutex' = Main
  /\ mpc' = "xset"
  /\ UNCHANGED <<queueVars, exit_flag, pc, pTask, heap, user_cfd, evs, newTask,
                 envVars, history>>

ExitSet ==
  /\ mpc = "xset"
  /\ exit_flag' = 1
  /\ mutex' = NULL
  /\ mpc' = "xbroadcast"
  /\ UNCHANGED <<queueVars, pc, pTask, heap, user_cfd, evs, newTask, envVars, history>>

ExitBroadcast ==
  /\ mpc = "xbroadcast"
  /\ WakeAll
  /\ mpc' = "join"
  /\ UNCHANGED <<queueVars, mutex, exit_flag, pTask, heap, user_cfd, evs, newTask,
                 envVars, history>>

\* Defective variant: only one thread is joined.
ExitJoin_One ==
  /\ mpc = "join"
  /\ \E w \in Worker : pc[w] = "over"
  /\ mpc' = "exited"
  /\ UNCHANGED <<queueVars, threadVars, evs, newTask, envVars, history>>

\* The loop of pthread_join returns once every worker is over; then exit(0).
ExitJoin ==
  /\ mpc = "join"
  /\ \A w \in Worker : pc[w] = "over"
  /\ mpc' = "exited"
  /\ UNCHANGED <<queueVars, threadVars, evs, newTask, envVars, history>>

-----------------------------------------------------------------------------
(* A worker: the loop of thread_func.                                      *)

WorkerUnchanged == UNCHANGED <<mainVars, envVars>>

WLock(w) ==
  /\ pc[w] = "lock"
  /\ mutex = NULL
  /\ mutex' = w
  /\ pc' = [pc EXCEPT ![w] = "check"]
  /\ UNCHANGED <<queueVars, exit_flag, pTask, heap, user_cfd, history>>
  /\ WorkerUnchanged

\* With an empty queue, pthread_cond_wait releases the mutex and sleeps.
WCheck(w) ==
  /\ pc[w] = "check"
  /\ \/ /\ queue_len = 0
        /\ mutex' = NULL
        /\ pc' = [pc EXCEPT ![w] = "wait"]
     \/ /\ queue_len # 0
        /\ pc' = [pc EXCEPT ![w] = "get"]
        /\ UNCHANGED mutex
  /\ UNCHANGED <<queueVars, exit_flag, pTask, heap, user_cfd, history>>
  /\ WorkerUnchanged

\* POSIX allows pthread_cond_wait to return without a broadcast.
WSpurious(w) ==
  /\ pc[w] = "wait"
  /\ pc' = [pc EXCEPT ![w] = "relock"]
  /\ UNCHANGED <<queueVars, mutex, exit_flag, pTask, heap, user_cfd, history>>
  /\ WorkerUnchanged

\* Defective variant: the waiter does not take the mutex again.
WRelock_NoMutex(w) ==
  /\ pc[w] = "relock"
  /\ pc' = [pc EXCEPT ![w] = "get"]
  /\ UNCHANGED <<queueVars, mutex, exit_flag, pTask, heap, user_cfd, history>>
  /\ WorkerUnchanged

\* A woken worker owns the mutex again; the queue is not looked at (if, not while).
WRelock(w) ==
  /\ pc[w] = "relock"
  /\ mutex = NULL
  /\ mutex' = w
  /\ pc' = [pc EXCEPT ![w] = "get"]
  /\ UNCHANGED <<queueVars, exit_flag, pTask, heap, user_cfd, history>>
  /\ WorkerUnchanged

WGet(w) ==
  /\ pc[w] = "get"
  /\ \/ /\ GetTaskNode
        /\ pTask' = [pTask EXCEPT ![w] = pHead]
        /\ late' = [late EXCEPT ![w] = @ + exit_flag]
     \/ queue_len = 0 /\ UNCHANGED <<queueVars, pTask, late>>
  /\ pc' = [pc EXCEPT ![w] = "unlock"]
  /\ UNCHANGED <<mutex, exit_flag, heap, user_cfd, finished>>
  /\ WorkerUnchanged

\* Defective variant: the result of GetTaskNode is not looked at.
WUnlock_Drops(w) ==
  /\ pc[w] = "unlock"
  /\ mutex' = NULL
  /\ pc' = [pc EXCEPT ![w] = "test"]
  /\ UNCHANGED <<queueVars, exit_flag, pTask, heap, user_cfd, history>>
  /\ WorkerUnchanged

WUnlock(w) ==
  /\ pc[w] = "unlock"
  /\ mutex' = NULL
  /\ pc' = [pc EXCEPT ![w] = IF pTask[w] # NULL THEN "serve" ELSE "test"]
  /\ UNCHANGED <<queueVars, exit_flag, pTask, heap, user_cfd, history>>
  /\ WorkerUnchanged

\* Defective variant: the node is not freed.
WServed_NoFree(w) ==
  /\ pc[w] = "serve"
  /\ finished' = finished \cup {user_cfd[pTask[w]]}
  /\ pTask' = [pTask EXCEPT ![w] = NULL]
  /\ pc' = [pc EXCEPT ![w] = "test"]
  /\ UNCHANGED <<queueVars, mutex, exit_flag, heap, user_cfd, late>>
  /\ WorkerUnchanged

\* UserFunc returns when the client leaves; the node is freed.
WServed(w) ==
  /\ pc[w] = "serve"
  /\ finished' = finished \cup {user_cfd[pTask[w]]}
  /\ heap' = heap \ {pTask[w]}
  /\ pTask' = [pTask EXCEPT ![w] = NULL]
  /\ pc' = [pc EXCEPT ![w] = "test"]
  /\ UNCHANGED <<queueVars, mutex, exit_flag, user_cfd, late>>
  /\ WorkerUnchanged

\* Defective variant: a worker drains the queue before it obeys the flag.
WTest_Drains(w) ==
  /\ pc[w] = "test"
  /\ pc' = [pc EXCEPT ![w] = IF exit_flag = 1 /\ queue_len = 0 THEN "over" ELSE "lock"]
  /\ UNCHANGED <<queueVars, mutex, exit_flag, pTask, heap, user_cfd, history>>
  /\ WorkerUnchanged

\* exit_flag is read outside the mutex.
WTest(w) ==
  /\ pc[w] = "test"
  /\ pc' = [pc EXCEPT ![w] = IF exit_flag = 1 THEN "over" ELSE "lock"]
  /\ UNCHANGED <<queueVars, mutex, exit_flag, pTask, heap, user_cfd, history>>
  /\ WorkerUnchanged

-----------------------------------------------------------------------------
MainStep == EpollWait \/ EventsDone \/ Accept \/ MainLock \/ MainInsert
            \/ MainBroadcast \/ MainUnlock
            \/ ExitEvent \/ ExitLock \/ ExitSet \/ ExitBroadcast \/ ExitJoin

\* What worker w does by itself, its session apart.
WorkerStep(w) == WLock(w) \/ WCheck(w) \/ WRelock(w) \/ WGet(w) \/ WUnlock(w) \/ WTest(w)

Next ==
  \/ \E c \in Conn : Connect(c)
  \/ sigfunc
  \/ ParentExit
  \/ MainStep
  \/ AcceptFails
  \/ \E w \in Worker : Running /\ (WorkerStep(w) \/ WSpurious(w) \/ WServed(w))

Spec == Init /\ [][Next]_vars

(***************************************************************************)
(* Fairness: every thread that can run runs (weak), and a thread that can  *)
(* take the mutex again and again gets it (strong), which the fair queues  *)
(* of the kernel's futexes justify.  Nothing is assumed of the clients,    *)
(* of spurious wake-ups or of failures of accept.                          *)
(***************************************************************************)
Fairness ==
  /\ WF_vars(MainStep)
  /\ SF_vars(MainLock) /\ SF_vars(ExitLock)
  /\ WF_vars(ParentExit)
  /\ \A w \in Worker :
        /\ WF_vars(Running /\ WorkerStep(w))
        /\ SF_vars(Running /\ WLock(w)) /\ SF_vars(Running /\ WRelock(w))

FairSpec == Spec /\ Fairness

\* In addition every session ends: each client leaves eventually.
SessionsEnd == \A w \in Worker : WF_vars(Running /\ WServed(w))
FairSpecSessionsEnd == FairSpec /\ SessionsEnd

-----------------------------------------------------------------------------
(* Properties.                                                             *)

Waiting == [i \in 1..Len(fifo) |-> user_cfd[fifo[i]]]
Serving == [w \in Worker |-> IF pTask[w] = NULL THEN NULL ELSE user_cfd[pTask[w]]]
Queued == {fifo[i] : i \in 1..Len(fifo)}

TypeOK ==
  /\ QueueTypeOK
  /\ mutex \in Worker \cup {Main, NULL}
  /\ exit_flag \in {0, 1}
  /\ pc \in [Worker -> WorkerPC]
  /\ pTask \in [Worker -> Node \cup {NULL}]
  /\ heap \subseteq Node
  /\ user_cfd \in [Node -> Conn \cup {NULL}]
  /\ mpc \in MainPC
  /\ evs \in EventLists \cup {<<>>}
  /\ newTask \in Node \cup {NULL}
  /\ backlog \in Seq(Conn)
  /\ pipe \in 0..MaxSignals
  /\ parent \in {"wait", "exited"}
  /\ arrived \subseteq Conn
  /\ finished \subseteq arrived
  /\ late \in [Worker -> Nat]

(***************************************************************************)
(* The program counters in the critical sections (between lock and unlock  *)
(* in main.c and ThreadPool.c) are exactly the ownership of queue_mutex.   *)
(***************************************************************************)
MutexInv ==
  /\ \A w \in Worker : pc[w] \in {"check", "get", "unlock"} <=> mutex = w
  /\ mpc \in {"insert", "broadcast", "unlock", "xset"} <=> mutex = Main

(***************************************************************************)
(* Every allocated task node has exactly one owner: the queue, the main    *)
(* thread (between calloc and InsertTaskQueue) or one worker (between      *)
(* GetTaskNode and free).  So no node is used after its free, freed twice  *)
(* or leaked, also when calloc returns an address that was freed.          *)
(***************************************************************************)
OneOwner ==
  /\ \A n \in Node :
        n \in heap <=> n \in Queued \/ n = newTask \/ \E w \in Worker : n = pTask[w]
  /\ newTask \notin Queued
  /\ \A w \in Worker : pTask[w] # NULL =>
        /\ pTask[w] \notin Queued
        /\ pTask[w] # newTask
        /\ \A v \in Worker : pTask[v] = pTask[w] => v = w

(***************************************************************************)
(* No lost wake-up: outside the main thread's step from insertion to       *)
(* broadcast, no worker sleeps on the condition variable while the queue   *)
(* holds a task.  The insertion, the test of queue_len and the broadcast   *)
(* are all under the mutex for this.                                       *)
(***************************************************************************)
NoLostWakeup ==
  fifo # <<>> /\ mpc # "broadcast" => \A w \in Worker : pc[w] # "wait"

(***************************************************************************)
(* After exit_flag is set, a worker takes at most one more task: it tests  *)
(* the flag after every session, before it locks the mutex again.          *)
(***************************************************************************)
AtMostOneLateTask == \A w \in Worker : late[w] <= 1

(***************************************************************************)
(* A shutdown cuts no session off: when the main thread calls exit(0), no  *)
(* worker holds a connection; what was accepted is finished or was never   *)
(* given to a worker.                                                      *)
(***************************************************************************)
NoSessionCut ==
  mpc = "exited" => /\ \A w \in Worker : pTask[w] = NULL
                    /\ heap = Queued

(***************************************************************************)
(* A connection is at one place: in the backlog of the listener, in one    *)
(* allocated node, or finished.  So no client is served twice and none is  *)
(* dropped between accept and a worker.                                    *)
(***************************************************************************)
OnePlace ==
  /\ \A i, j \in 1..Len(backlog) : backlog[i] = backlog[j] => i = j
  /\ \A n, m \in heap : user_cfd[n] = user_cfd[m] => n = m
  /\ \A i \in 1..Len(backlog) : backlog[i] \in arrived \ finished
  /\ \A n \in heap :
        /\ user_cfd[n] \in arrived \ finished
        /\ \A i \in 1..Len(backlog) : backlog[i] # user_cfd[n]
  /\ \A c \in arrived \ finished :
        (\E i \in 1..Len(backlog) : backlog[i] = c) \/ (\E n \in heap : user_cfd[n] = c)

(***************************************************************************)
(* The pool implements the abstract pool: connections are served in the    *)
(* order of their insertion, each by exactly one worker.                   *)
(***************************************************************************)
Pool == INSTANCE WorkerPool WITH waiting <- Waiting, serving <- Serving
ImplementsPool == Pool!PoolSpec

(***************************************************************************)
(* Without any assumption on the clients: a worker does not stay idle      *)
(* while the queue holds a task.                                           *)
(***************************************************************************)
NoIdleWorker ==
  \A w \in Worker : []<>(fifo = <<>> \/ pc[w] \in {"serve", "over"} \/ ~Running)

(***************************************************************************)
(* If every session ends, every client that connects is served to the end, *)
(* unless the server is told to shut down or its process fails.            *)
(***************************************************************************)
EveryClientServed ==
  SessionsEnd => \A c \in Conn : c \in arrived ~> (c \in finished \/ pipe > 0 \/ ~Running)

(***************************************************************************)
(* server/src/main.c:71-90: on the exit signal the main thread sets the    *)
(* flag, wakes "all" waiters, waits for the threads to exit and exits.  So *)
(* if every session ends, the child process ends.                          *)
(***************************************************************************)
ShutdownCompletes == (exit_flag = 1) ~> ~Running

-----------------------------------------------------------------------------
(***************************************************************************)
(* The rest of the inductive invariant that ThreadPoolProofs uses.         *)
(***************************************************************************)

\* Where the local pointers are set, and what the pending events mean.
FlowInv ==
  /\ \A w \in Worker :
        /\ pTask[w] # NULL => pc[w] \in {"unlock", "serve"}
        /\ pc[w] = "serve" => pTask[w] # NULL
  /\ newTask # NULL <=> mpc \in {"lock", "insert"}
  /\ mpc = "event" /\ evs \in {<<"sfd">>, <<"sfd", "pipe">>, <<"pipe", "sfd">>} => backlog # <<>>
  /\ mpc \in {"lock", "insert", "broadcast", "unlock"} => evs \in {<<"sfd">>, <<"sfd", "pipe">>}
  /\ mpc = "exited" => \A w \in Worker : pc[w] = "over"

\* A worker that took a task with exit_flag set is on its way out.
LateInv ==
  \A w \in Worker :
     /\ late[w] \in {0, 1}
     /\ late[w] = 1 => exit_flag = 1 /\ pc[w] \in {"unlock", "serve", "test", "over"}

IInv ==
  /\ TypeOK
  /\ ListInv
  /\ MutexInv
  /\ OneOwner
  /\ OnePlace
  /\ NoLostWakeup
  /\ FlowInv
  /\ LateInv
=============================================================================
