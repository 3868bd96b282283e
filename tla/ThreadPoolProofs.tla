-------------------------- MODULE ThreadPoolProofs --------------------------
(***************************************************************************)
(* The inductive invariant of the thread pool, for every number of         *)
(* workers, connections and heap addresses, and the theorems it gives.     *)
(***************************************************************************)
EXTENDS ThreadPool, TaskQueueProofs, SequenceTheorems

\* A sequence without elements is the empty one.
LEMMA EmptyIffZero == ASSUME NEW S, NEW s \in Seq(S), Len(s) = 0 PROVE s = <<>>
  OBVIOUS

\* The tail of a sequence is the sequence shifted by one.
LEMMA TailIsShift ==
  ASSUME NEW S, NEW s \in Seq(S), s # <<>>
  PROVE  Tail(s) = [i \in 1..(Len(s) - 1) |-> s[i + 1]]
  <1> DEFINE t == [i \in 1..(Len(s) - 1) |-> s[i + 1]]
  <1>1. Len(s) \in Nat /\ Len(s) > 0
    OBVIOUS
  <1>2. t \in Seq(S) /\ Len(t) = Len(s) - 1
    BY <1>1
  <1>3. Tail(s) \in Seq(S) /\ Len(Tail(s)) = Len(s) - 1
    OBVIOUS
  <1>4. \A i \in 1..Len(t) : Tail(s)[i] = t[i]
    BY <1>1, <1>2
  <1>5. QED
    BY <1>2, <1>3, <1>4, SeqEqual

\* What remains of a list of events after the listener was handled.
LEMMA TailOfEvents ==
  /\ Tail(<<"sfd">>) = <<>>
  /\ Tail(<<"sfd", "pipe">>) = <<"pipe">>
  OBVIOUS

\* The invariant holds when main reaches its first epoll_wait.
LEMMA InitIInv == Init => IInv
  <1> SUFFICES ASSUME Init PROVE IInv
    OBVIOUS
  <1> USE NodeAssumption, WorkerAssumption, ConnAssumption, SignalAssumption
          DEF Init, TaskQueueInit
  <1>1. TypeOK
    BY DEF TypeOK, QueueTypeOK, WorkerPC, MainPC
  <1>2. ListInv
    BY DEF ListInv
  <1>3. MutexInv
    BY DEF MutexInv
  <1>4. OneOwner
    BY DEF OneOwner, Queued
  <1>5. OnePlace
    BY DEF OnePlace
  <1>6. NoLostWakeup
    BY DEF NoLostWakeup
  <1>7. FlowInv
    BY DEF FlowInv
  <1>8. LateInv
    BY DEF LateInv
  <1>9. QED
    BY <1>1, <1>2, <1>3, <1>4, <1>5, <1>6, <1>7, <1>8 DEF IInv

(***************************************************************************)
(* Most steps leave the queue, the nodes and the connections alone.        *)
(***************************************************************************)
LEMMA DataFrame ==
  ASSUME IInv,
         UNCHANGED <<queueVars, pTask, heap, user_cfd, newTask, backlog, arrived, finished>>
  PROVE  ListInv' /\ OneOwner' /\ OnePlace'
  <1> USE DEF IInv, queueVars
  <1>1. ListInv'
    BY DEF ListInv
  <1>2. OneOwner'
    BY DEF OneOwner, Queued
  <1>3. OnePlace'
    BY DEF OnePlace
  <1>4. QED
    BY <1>1, <1>2, <1>3

-----------------------------------------------------------------------------
(* Each action preserves the invariant.                                    *)

\* A client connects: it joins the backlog, where it was not before.
LEMMA ConnectStep == ASSUME IInv, NEW c \in Conn, Connect(c) PROVE IInv'
  <1> USE NodeAssumption, WorkerAssumption, ConnAssumption
          DEF IInv, Connect, queueVars, threadVars, mainVars, envVars, history
  <1>1. TypeOK'
    BY DEF TypeOK, QueueTypeOK, WorkerPC, MainPC, Running
  <1>2. ListInv'
    BY DEF ListInv
  <1>3. MutexInv'
    BY DEF MutexInv, TypeOK
  <1>4. OneOwner'
    BY DEF OneOwner, Queued
  <1>5. OnePlace'
    <2>1. /\ Len(backlog) \in Nat /\ Len(backlog') = Len(backlog) + 1
          /\ backlog'[Len(backlog) + 1] = c
          /\ \A i \in 1..Len(backlog) : backlog'[i] = backlog[i] /\ backlog[i] # c
      BY DEF TypeOK, OnePlace
    <2>2. \A i \in 1..Len(backlog') : i \in 1..Len(backlog) \/ i = Len(backlog) + 1
      BY <2>1
    <2>3. \A i \in 1..Len(backlog) : i \in 1..Len(backlog')
      BY <2>1
    <2>4. Len(backlog) + 1 \in 1..Len(backlog')
      BY <2>1
    <2>5. arrived' = arrived \cup {c} /\ c \notin arrived /\ finished \subseteq arrived
          /\ finished' = finished /\ heap' = heap /\ user_cfd' = user_cfd
      BY DEF TypeOK
    <2>6. \A n \in heap : user_cfd[n] # c
      BY <2>5 DEF OnePlace
    <2>7. \A i, j \in 1..Len(backlog') : backlog'[i] = backlog'[j] => i = j
      BY <2>1, <2>2 DEF OnePlace
    <2>8. \A i \in 1..Len(backlog') :
             backlog'[i] \in arrived' \ finished' /\ \A n \in heap : backlog'[i] # user_cfd[n]
      BY <2>1, <2>2, <2>5, <2>6 DEF OnePlace
    <2>9. \A d \in arrived' \ finished' :
             (\E i \in 1..Len(backlog') : backlog'[i] = d) \/ (\E n \in heap : user_cfd[n] = d)
      BY <2>1, <2>3, <2>4, <2>5 DEF OnePlace
    <2>10. QED
      BY <2>5, <2>7, <2>8, <2>9 DEF OnePlace
  <1>6. NoLostWakeup'
    BY DEF NoLostWakeup, TypeOK
  <1>7. FlowInv'
    BY DEF FlowInv, TypeOK
  <1>8. LateInv'
    BY DEF LateInv, TypeOK
  <1>9. QED
    BY <1>1, <1>2, <1>3, <1>4, <1>5, <1>6, <1>7, <1>8 DEF IInv

\* The signal handler of the parent touches the pipe only.
LEMMA SigfuncStep == ASSUME IInv, sigfunc PROVE IInv'
  <1> USE DEF IInv, sigfunc, queueVars, threadVars, mainVars, envVars, history
  <1>1. TypeOK'
    BY SignalAssumption DEF TypeOK, QueueTypeOK, WorkerPC, MainPC, Running
  <1>2. ListInv' /\ OneOwner' /\ OnePlace'
    BY DataFrame
  <1>3. MutexInv'
    BY DEF MutexInv, TypeOK
  <1>4. NoLostWakeup'
    BY DEF NoLostWakeup, TypeOK
  <1>5. FlowInv'
    BY DEF FlowInv, TypeOK
  <1>6. LateInv'
    BY DEF LateInv, TypeOK
  <1>7. QED
    BY <1>1, <1>2, <1>3, <1>4, <1>5, <1>6 DEF IInv

\* The parent goes after its child.
LEMMA ParentExitStep == ASSUME IInv, ParentExit PROVE IInv'
  <1> USE DEF IInv, ParentExit, queueVars, threadVars, mainVars, envVars, history
  <1>1. TypeOK'
    BY DEF TypeOK, QueueTypeOK, WorkerPC, MainPC
  <1>2. ListInv' /\ OneOwner' /\ OnePlace'
    BY DataFrame
  <1>3. MutexInv'
    BY DEF MutexInv, TypeOK
  <1>4. NoLostWakeup'
    BY DEF NoLostWakeup, TypeOK
  <1>5. FlowInv'
    BY DEF FlowInv, TypeOK
  <1>6. LateInv'
    BY DEF LateInv, TypeOK
  <1>7. QED
    BY <1>1, <1>2, <1>3, <1>4, <1>5, <1>6 DEF IInv

\* epoll_wait reports the listener only if the backlog holds a client.
LEMMA EpollWaitStep == ASSUME IInv, EpollWait PROVE IInv'
  <1> USE DEF IInv, EpollWait, queueVars, threadVars, mainVars, envVars, history
  <1>1. TypeOK'
    BY DEF TypeOK, QueueTypeOK, WorkerPC, MainPC
  <1>2. ListInv' /\ OneOwner' /\ OnePlace'
    BY DataFrame
  <1>3. MutexInv'
    BY DEF MutexInv, TypeOK
  <1>4. NoLostWakeup'
    BY DEF NoLostWakeup, TypeOK
  <1>5. FlowInv'
    <2>1. evs' \in EventLists /\ {evs'[i] : i \in DOMAIN evs'} = Ready
      OBVIOUS
    <2>2. ASSUME evs' \in {<<"sfd">>, <<"sfd", "pipe">>, <<"pipe", "sfd">>}
          PROVE  "sfd" \in {evs'[i] : i \in DOMAIN evs'}
      BY <2>2
    <2>3. evs' \in {<<"sfd">>, <<"sfd", "pipe">>, <<"pipe", "sfd">>} => backlog # <<>>
      BY <2>1, <2>2 DEF Ready
    <2>4. QED
      BY <2>3 DEF FlowInv, TypeOK
  <1>6. LateInv'
    BY DEF LateInv, TypeOK
  <1>7. QED
    BY <1>1, <1>2, <1>3, <1>4, <1>5, <1>6 DEF IInv

\* The end of the loop over the events.
LEMMA EventsDoneStep == ASSUME IInv, EventsDone PROVE IInv'
  <1> USE DEF IInv, EventsDone, queueVars, threadVars, mainVars, envVars, history
  <1>1. TypeOK'
    BY DEF TypeOK, QueueTypeOK, WorkerPC, MainPC
  <1>2. ListInv' /\ OneOwner' /\ OnePlace'
    BY DataFrame
  <1>3. MutexInv'
    BY DEF MutexInv, TypeOK
  <1>4. NoLostWakeup'
    BY DEF NoLostWakeup, TypeOK
  <1>5. FlowInv'
    BY DEF FlowInv, TypeOK
  <1>6. LateInv'
    BY DEF LateInv, TypeOK
  <1>7. QED
    BY <1>1, <1>2, <1>3, <1>4, <1>5, <1>6 DEF IInv

\* accept and calloc: the oldest client moves from the backlog to a fresh node.
LEMMA AcceptStep == ASSUME IInv, Accept PROVE IInv'
  <1> USE NodeAssumption, WorkerAssumption, ConnAssumption
          DEF IInv, Accept, history
  <1> PICK n \in Node \ heap :
             /\ heap' = heap \cup {n}
             /\ newTask' = n
             /\ pNext' = [pNext EXCEPT ![n] = NULL]
             /\ user_cfd' = [user_cfd EXCEPT ![n] = Head(backlog)]
    OBVIOUS
  <1>1. TypeOK'
    <2>1. backlog # <<>>
      BY DEF FlowInv, TypeOK, EventLists
    <2>2. /\ Head(backlog) \in Conn
          /\ backlog' \in Seq(Conn)
      BY <2>1 DEF TypeOK
    <2>3. QED
      BY <2>2 DEF TypeOK, QueueTypeOK, MainPC
  <1>2. ListInv'
    <2>1. pNext' = pNext
      BY DEF TypeOK, QueueTypeOK, ListInv, OneOwner, Queued
    <2>2. QED
      BY <2>1 DEF ListInv
  <1>3. MutexInv'
    BY DEF MutexInv, TypeOK
  <1>4. OneOwner'
    <2>1. newTask = NULL
      BY DEF FlowInv
    <2>2. n \notin Queued /\ \A w \in Worker : pTask[w] # n
      BY DEF OneOwner
    <2>3. Queued' = Queued
      BY DEF Queued
    <2>4. QED
      BY <2>1, <2>2, <2>3 DEF OneOwner
  <1>5. OnePlace'
    <2>1. backlog # <<>>
      BY DEF FlowInv, TypeOK, EventLists
    <2> DEFINE c == Head(backlog)
    <2>2. /\ Len(backlog) \in Nat /\ Len(backlog) > 0
          /\ c = backlog[1] /\ Len(backlog') = Len(backlog) - 1
          /\ \A i \in 1..Len(backlog') : backlog'[i] = backlog[i + 1]
      BY <2>1 DEF TypeOK
    <2>3. /\ user_cfd'[n] = c
          /\ \A m \in heap : user_cfd'[m] = user_cfd[m] /\ m # n
          /\ heap' = heap \cup {n} /\ arrived' = arrived /\ finished' = finished
      BY DEF TypeOK, history
    <2>4. \A i \in 1..Len(backlog') : i + 1 \in 1..Len(backlog) /\ backlog'[i] # c
      BY <2>2 DEF OnePlace
    <2>5. c \in arrived \ finished /\ \A m \in heap : user_cfd[m] # c
      BY <2>2 DEF OnePlace
    <2>6. \A i, j \in 1..Len(backlog') : backlog'[i] = backlog'[j] => i = j
      BY <2>2, <2>4 DEF OnePlace
    <2>7. \A i \in 1..Len(backlog') : backlog'[i] \in arrived' \ finished'
      BY <2>2, <2>3, <2>4 DEF OnePlace
    <2>8. \A p, q \in heap' : user_cfd'[p] = user_cfd'[q] => p = q
      BY <2>3, <2>5 DEF OnePlace
    <2>9. \A p \in heap' : /\ user_cfd'[p] \in arrived' \ finished'
                           /\ \A i \in 1..Len(backlog') : backlog'[i] # user_cfd'[p]
      BY <2>2, <2>3, <2>4, <2>5 DEF OnePlace
    <2>10. ASSUME NEW d \in arrived' \ finished'
           PROVE  (\E i \in 1..Len(backlog') : backlog'[i] = d) \/ (\E p \in heap' : user_cfd'[p] = d)
      <3>1. (\E i \in 1..Len(backlog) : backlog[i] = d) \/ (\E p \in heap : user_cfd[p] = d)
        BY <2>3 DEF OnePlace
      <3>2. CASE \E p \in heap : user_cfd[p] = d
        BY <3>2, <2>3
      <3>3. ASSUME NEW i \in 1..Len(backlog), backlog[i] = d
            PROVE  d = c \/ \E j \in 1..Len(backlog') : backlog'[j] = d
        <4>1. CASE i = 1
          BY <4>1, <3>3, <2>2
        <4>2. CASE i # 1
          <5>1. i - 1 \in 1..Len(backlog') /\ backlog'[i - 1] = d
            BY <4>2, <3>3, <2>2
          <5>2. QED
            BY <5>1
        <4>3. QED
          BY <4>1, <4>2
      <3>4. QED
        BY <3>1, <3>2, <3>3, <2>3
    <2>11. QED
      BY <2>6, <2>7, <2>8, <2>9, <2>10 DEF OnePlace
  <1>6. NoLostWakeup'
    BY DEF NoLostWakeup, TypeOK
  <1>7. FlowInv'
    <2>1. evs \in {<<"sfd">>, <<"sfd", "pipe">>}
      BY DEF TypeOK, EventLists
    <2>2. QED
      BY <2>1 DEF FlowInv, TypeOK
  <1>8. LateInv'
    BY DEF LateInv, TypeOK
  <1>9. QED
    BY <1>1, <1>2, <1>3, <1>4, <1>5, <1>6, <1>7, <1>8 DEF IInv

\* accept fails and main returns: nothing else changes.
LEMMA AcceptFailsStep == ASSUME IInv, AcceptFails PROVE IInv'
  <1> USE DEF IInv, AcceptFails, queueVars, threadVars, mainVars, envVars, history
  <1>1. TypeOK'
    BY DEF TypeOK, QueueTypeOK, WorkerPC, MainPC
  <1>2. ListInv' /\ OneOwner' /\ OnePlace'
    BY DataFrame
  <1>3. MutexInv'
    BY DEF MutexInv, TypeOK
  <1>4. NoLostWakeup'
    BY DEF NoLostWakeup, TypeOK
  <1>5. FlowInv'
    BY DEF FlowInv, TypeOK
  <1>6. LateInv'
    BY DEF LateInv, TypeOK
  <1>7. QED
    BY <1>1, <1>2, <1>3, <1>4, <1>5, <1>6 DEF IInv

\* The main thread enters its critical section.
LEMMA MainLockStep == ASSUME IInv, MainLock PROVE IInv'
  <1> USE DEF IInv, MainLock, queueVars, threadVars, mainVars, envVars, history
  <1>1. TypeOK'
    BY DEF TypeOK, QueueTypeOK, WorkerPC, MainPC
  <1>2. ListInv' /\ OneOwner' /\ OnePlace'
    BY DataFrame
  <1>3. MutexInv'
    BY WorkerAssumption DEF MutexInv, TypeOK
  <1>4. NoLostWakeup'
    BY DEF NoLostWakeup, TypeOK
  <1>5. FlowInv'
    BY DEF FlowInv, TypeOK
  <1>6. LateInv'
    BY DEF LateInv, TypeOK
  <1>7. QED
    BY <1>1, <1>2, <1>3, <1>4, <1>5, <1>6 DEF IInv

\* InsertTaskQueue: the node passes from the main thread to the queue.
LEMMA MainInsertStep == ASSUME IInv, MainInsert PROVE IInv'
  <1> USE NodeAssumption, WorkerAssumption, ConnAssumption
          DEF IInv, MainInsert, threadVars, envVars, history
  <1>0. /\ newTask \in heap /\ newTask \in Node /\ newTask \notin Queued
        /\ \A w \in Worker : pTask[w] # newTask
    BY DEF TypeOK, FlowInv, OneOwner
  <1>a. /\ QueueTypeOK' /\ ListInv'
        /\ Len(fifo') = Len(fifo) + 1
        /\ fifo'[Len(fifo) + 1] = newTask
        /\ \A i \in 1..Len(fifo) : fifo'[i] = fifo[i]
    BY <1>0, InsertList DEF TypeOK, Queued, InQueue
  <1>1. TypeOK'
    BY <1>a DEF TypeOK, MainPC
  <1>2. ListInv'
    BY <1>a
  <1>3. MutexInv'
    BY DEF MutexInv, TypeOK
  <1>4. OneOwner'
    <2>1. Len(fifo) \in Nat
      BY DEF TypeOK, QueueTypeOK
    <2>2. Queued' = Queued \cup {newTask}
      BY <1>a, <2>1 DEF Queued
    <2>3. Queued \subseteq Node
      BY <2>1 DEF Queued, TypeOK, QueueTypeOK
    <2>4. newTask' = NULL /\ NULL \notin Queued'
      BY <1>0, <2>2, <2>3
    <2>5. QED
      BY <1>0, <2>2, <2>4 DEF OneOwner
  <1>5. OnePlace'
    BY DEF OnePlace
  <1>6. NoLostWakeup'
    BY DEF NoLostWakeup, TypeOK
  <1>7. FlowInv'
    BY DEF FlowInv, TypeOK
  <1>8. LateInv'
    BY DEF LateInv, TypeOK
  <1>9. QED
    BY <1>1, <1>2, <1>3, <1>4, <1>5, <1>6, <1>7, <1>8 DEF IInv

\* The broadcast leaves no worker asleep.
LEMMA MainBroadcastStep == ASSUME IInv, MainBroadcast PROVE IInv'
  <1> USE DEF IInv, MainBroadcast, WakeAll, queueVars, threadVars, mainVars, envVars, history
  <1>1. TypeOK'
    BY DEF TypeOK, QueueTypeOK, WorkerPC, MainPC
  <1>2. ListInv' /\ OneOwner' /\ OnePlace'
    BY DataFrame
  <1>3. MutexInv'
    BY DEF MutexInv, TypeOK
  <1>4. NoLostWakeup'
    BY DEF NoLostWakeup, TypeOK
  <1>5. FlowInv'
    BY DEF FlowInv, TypeOK
  <1>6. LateInv'
    BY DEF LateInv, TypeOK
  <1>7. QED
    BY <1>1, <1>2, <1>3, <1>4, <1>5, <1>6 DEF IInv

\* The main thread leaves its critical section and drops the event.
LEMMA MainUnlockStep == ASSUME IInv, MainUnlock PROVE IInv'
  <1> USE DEF IInv, MainUnlock, queueVars, threadVars, mainVars, envVars, history
  <1>1. TypeOK'
    <2>1. evs \in {<<"sfd">>, <<"sfd", "pipe">>}
      BY DEF FlowInv
    <2>2. evs' \in {<<>>, <<"pipe">>}
      BY <2>1, TailOfEvents
    <2>3. evs' \in EventLists \cup {<<>>}
      BY <2>2 DEF EventLists
    <2>4. QED
      BY <2>3 DEF TypeOK, MainPC, QueueTypeOK
  <1>2. ListInv' /\ OneOwner' /\ OnePlace'
    BY DataFrame
  <1>3. MutexInv'
    BY WorkerAssumption DEF MutexInv, TypeOK
  <1>4. NoLostWakeup'
    BY DEF NoLostWakeup, TypeOK
  <1>5. FlowInv'
    <2>1. evs \in {<<"sfd">>, <<"sfd", "pipe">>}
      BY DEF FlowInv
    <2>2. evs' \in {<<>>, <<"pipe">>}
      BY <2>1, TailOfEvents
    <2>3. evs' \notin {<<"sfd">>, <<"sfd", "pipe">>, <<"pipe", "sfd">>}
      BY <2>2
    <2>4. QED
      BY <2>3 DEF FlowInv, TypeOK
  <1>6. LateInv'
    BY DEF LateInv, TypeOK
  <1>7. QED
    BY <1>1, <1>2, <1>3, <1>4, <1>5, <1>6 DEF IInv

\* The exit event starts the shutdown.
LEMMA ExitEventStep == ASSUME IInv, ExitEvent PROVE IInv'
  <1> USE DEF IInv, ExitEvent, queueVars, threadVars, mainVars, envVars, history
  <1>1. TypeOK'
    BY DEF TypeOK, QueueTypeOK, WorkerPC, MainPC
  <1>2. ListInv' /\ OneOwner' /\ OnePlace'
    BY DataFrame
  <1>3. MutexInv'
    BY DEF MutexInv, TypeOK
  <1>4. NoLostWakeup'
    BY DEF NoLostWakeup, TypeOK
  <1>5. FlowInv'
    BY DEF FlowInv, TypeOK
  <1>6. LateInv'
    BY DEF LateInv, TypeOK
  <1>7. QED
    BY <1>1, <1>2, <1>3, <1>4, <1>5, <1>6 DEF IInv

\* The main thread locks the mutex to set the flag.
LEMMA ExitLockStep == ASSUME IInv, ExitLock PROVE IInv'
  <1> USE DEF IInv, ExitLock, queueVars, threadVars, mainVars, envVars, history
  <1>1. TypeOK'
    BY DEF TypeOK, QueueTypeOK, WorkerPC, MainPC
  <1>2. ListInv' /\ OneOwner' /\ OnePlace'
    BY DataFrame
  <1>3. MutexInv'
    BY WorkerAssumption DEF MutexInv, TypeOK
  <1>4. NoLostWakeup'
    BY DEF NoLostWakeup, TypeOK
  <1>5. FlowInv'
    BY DEF FlowInv, TypeOK
  <1>6. LateInv'
    BY DEF LateInv, TypeOK
  <1>7. QED
    BY <1>1, <1>2, <1>3, <1>4, <1>5, <1>6 DEF IInv

\* exit_flag is set; workers that took a late task are unaffected.
LEMMA ExitSetStep == ASSUME IInv, ExitSet PROVE IInv'
  <1> USE DEF IInv, ExitSet, queueVars, threadVars, mainVars, envVars, history
  <1>1. TypeOK'
    BY DEF TypeOK, QueueTypeOK, WorkerPC, MainPC
  <1>2. ListInv' /\ OneOwner' /\ OnePlace'
    BY DataFrame
  <1>3. MutexInv'
    BY WorkerAssumption DEF MutexInv, TypeOK
  <1>4. NoLostWakeup'
    BY DEF NoLostWakeup, TypeOK
  <1>5. FlowInv'
    BY DEF FlowInv, TypeOK
  <1>6. LateInv'
    BY DEF LateInv, TypeOK
  <1>7. QED
    BY <1>1, <1>2, <1>3, <1>4, <1>5, <1>6 DEF IInv

\* The broadcast of the shutdown.
LEMMA ExitBroadcastStep == ASSUME IInv, ExitBroadcast PROVE IInv'
  <1> USE DEF IInv, ExitBroadcast, WakeAll, queueVars, threadVars, mainVars, envVars, history
  <1>1. TypeOK'
    BY DEF TypeOK, QueueTypeOK, WorkerPC, MainPC
  <1>2. ListInv' /\ OneOwner' /\ OnePlace'
    BY DataFrame
  <1>3. MutexInv'
    BY DEF MutexInv, TypeOK
  <1>4. NoLostWakeup'
    BY DEF NoLostWakeup, TypeOK
  <1>5. FlowInv'
    BY DEF FlowInv, TypeOK
  <1>6. LateInv'
    BY DEF LateInv, TypeOK
  <1>7. QED
    BY <1>1, <1>2, <1>3, <1>4, <1>5, <1>6 DEF IInv

\* pthread_join returned for every worker: all of them are over.
LEMMA ExitJoinStep == ASSUME IInv, ExitJoin PROVE IInv'
  <1> USE DEF IInv, ExitJoin, queueVars, threadVars, mainVars, envVars, history
  <1>1. TypeOK'
    BY DEF TypeOK, QueueTypeOK, WorkerPC, MainPC
  <1>2. ListInv' /\ OneOwner' /\ OnePlace'
    BY DataFrame
  <1>3. MutexInv'
    BY DEF MutexInv, TypeOK
  <1>4. NoLostWakeup'
    BY DEF NoLostWakeup, TypeOK
  <1>5. FlowInv'
    BY DEF FlowInv, TypeOK
  <1>6. LateInv'
    BY DEF LateInv, TypeOK
  <1>7. QED
    BY <1>1, <1>2, <1>3, <1>4, <1>5, <1>6 DEF IInv

\* A worker enters its critical section.
LEMMA WLockStep == ASSUME IInv, NEW w \in Worker, WLock(w) PROVE IInv'
  <1> USE DEF IInv, WLock, WorkerUnchanged, queueVars, threadVars, mainVars, envVars, history
  <1>1. TypeOK'
    BY DEF TypeOK, QueueTypeOK, WorkerPC, MainPC
  <1>2. ListInv' /\ OneOwner' /\ OnePlace'
    BY DataFrame
  <1>3. MutexInv'
    BY WorkerAssumption DEF MutexInv, TypeOK
  <1>4. NoLostWakeup'
    BY DEF NoLostWakeup, TypeOK
  <1>5. FlowInv'
    BY DEF FlowInv, TypeOK
  <1>6. LateInv'
    BY DEF LateInv, TypeOK
  <1>7. QED
    BY <1>1, <1>2, <1>3, <1>4, <1>5, <1>6 DEF IInv

\* A worker goes to sleep only when the queue is empty.
LEMMA WCheckStep == ASSUME IInv, NEW w \in Worker, WCheck(w) PROVE IInv'
  <1> USE DEF IInv, WCheck, WorkerUnchanged, queueVars, threadVars, mainVars, envVars, history
  <1>1. TypeOK'
    BY DEF TypeOK, QueueTypeOK, WorkerPC, MainPC
  <1>2. ListInv' /\ OneOwner' /\ OnePlace'
    BY DataFrame
  <1>3. MutexInv'
    BY WorkerAssumption DEF MutexInv, TypeOK
  <1>4. NoLostWakeup'
    <2>1. \A v \in Worker : pc'[v] = "wait" => pc[v] = "wait" \/ queue_len = 0
      BY DEF TypeOK
    <2>2. queue_len = 0 => fifo = <<>>
      <3>1. fifo \in Seq(Node) /\ queue_len = Len(fifo)
        BY DEF ListInv, TypeOK, QueueTypeOK
      <3>2. QED
        BY <3>1, EmptyIffZero
    <2>3. QED
      BY <2>1, <2>2 DEF NoLostWakeup
  <1>5. FlowInv'
    BY DEF FlowInv, TypeOK
  <1>6. LateInv'
    BY DEF LateInv, TypeOK
  <1>7. QED
    BY <1>1, <1>2, <1>3, <1>4, <1>5, <1>6 DEF IInv

\* A worker wakes up by itself.
LEMMA WSpuriousStep == ASSUME IInv, NEW w \in Worker, WSpurious(w) PROVE IInv'
  <1> USE DEF IInv, WSpurious, WorkerUnchanged, queueVars, threadVars, mainVars, envVars, history
  <1>1. TypeOK'
    BY DEF TypeOK, QueueTypeOK, WorkerPC, MainPC
  <1>2. ListInv' /\ OneOwner' /\ OnePlace'
    BY DataFrame
  <1>3. MutexInv'
    BY DEF MutexInv, TypeOK
  <1>4. NoLostWakeup'
    BY DEF NoLostWakeup, TypeOK
  <1>5. FlowInv'
    BY DEF FlowInv, TypeOK
  <1>6. LateInv'
    BY DEF LateInv, TypeOK
  <1>7. QED
    BY <1>1, <1>2, <1>3, <1>4, <1>5, <1>6 DEF IInv

\* pthread_cond_wait owns the mutex again before it returns.
LEMMA WRelockStep == ASSUME IInv, NEW w \in Worker, WRelock(w) PROVE IInv'
  <1> USE DEF IInv, WRelock, WorkerUnchanged, queueVars, threadVars, mainVars, envVars, history
  <1>1. TypeOK'
    BY DEF TypeOK, QueueTypeOK, WorkerPC, MainPC
  <1>2. ListInv' /\ OneOwner' /\ OnePlace'
    BY DataFrame
  <1>3. MutexInv'
    BY WorkerAssumption DEF MutexInv, TypeOK
  <1>4. NoLostWakeup'
    BY DEF NoLostWakeup, TypeOK
  <1>5. FlowInv'
    BY DEF FlowInv, TypeOK
  <1>6. LateInv'
    BY DEF LateInv, TypeOK
  <1>7. QED
    BY <1>1, <1>2, <1>3, <1>4, <1>5, <1>6 DEF IInv

\* GetTaskNode: the node passes from the queue to the worker.
LEMMA WGetStep == ASSUME IInv, NEW w \in Worker, WGet(w) PROVE IInv'
  <1> USE NodeAssumption, WorkerAssumption, ConnAssumption
          DEF IInv, WGet, WorkerUnchanged, mainVars, envVars
  <1>1. pTask[w] = NULL /\ late[w] = 0 /\ pc[w] = "get" /\ newTask \notin Queued
    BY DEF FlowInv, LateInv, OneOwner
  <1>2. CASE queue_len = 0 /\ UNCHANGED <<queueVars, pTask, late>>
    <2> USE <1>2 DEF queueVars
    <2>1. TypeOK'
      BY DEF TypeOK, QueueTypeOK, WorkerPC
    <2>2. ListInv'
      BY DEF ListInv
    <2>3. MutexInv'
      BY DEF MutexInv, TypeOK
    <2>4. OneOwner'
      BY DEF OneOwner, Queued
    <2>5. OnePlace'
      BY DEF OnePlace
    <2>6. NoLostWakeup'
      BY DEF NoLostWakeup, TypeOK
    <2>7. FlowInv'
      BY DEF FlowInv, TypeOK
    <2>8. LateInv'
      BY DEF LateInv, TypeOK
    <2>9. QED
      BY <2>1, <2>2, <2>3, <2>4, <2>5, <2>6, <2>7, <2>8
  <1>3. CASE /\ GetTaskNode
             /\ pTask' = [pTask EXCEPT ![w] = pHead]
             /\ late' = [late EXCEPT ![w] = @ + exit_flag]
    <2>1. /\ QueueTypeOK' /\ ListInv'
          /\ pHead \in Node /\ pHead = fifo[1] /\ Len(fifo) > 0
          /\ Len(fifo') = Len(fifo) - 1
          /\ \A i \in 1..Len(fifo') : fifo'[i] = fifo[i + 1]
      BY <1>3, GetList DEF TypeOK
    <2>2. Len(fifo) \in Nat /\ fifo # <<>>
      BY <2>1 DEF TypeOK, QueueTypeOK
    <2>3. pTask'[w] = pHead /\ \A v \in Worker : v # w => pTask'[v] = pTask[v]
      BY <1>3 DEF TypeOK
    <2>4. Queued = Queued' \cup {pHead}
      <3>1. \A i \in 1..Len(fifo) : i = 1 \/ i - 1 \in 1..Len(fifo')
        BY <2>1, <2>2
      <3>2. \A i \in 1..Len(fifo) : i # 1 => fifo[i] = fifo'[i - 1]
        BY <2>1, <2>2, <3>1
      <3>3. Queued \subseteq Queued' \cup {pHead}
        BY <2>1, <3>1, <3>2 DEF Queued
      <3>4. \A i \in 1..Len(fifo') : i + 1 \in 1..Len(fifo)
        BY <2>1, <2>2
      <3>5. Queued' \cup {pHead} \subseteq Queued
        BY <2>1, <2>2, <3>4 DEF Queued
      <3>6. QED
        BY <3>3, <3>5
    <2>5. pHead \notin Queued'
      <3>1. \A i \in 1..Len(fifo') : i + 1 \in 1..Len(fifo) /\ fifo[i + 1] # fifo[1]
        BY <2>1, <2>2 DEF ListInv
      <3>2. QED
        BY <2>1, <3>1 DEF Queued
    <2>6. late'[w] \in {0, 1} /\ (late'[w] = 1 => exit_flag = 1)
          /\ (\A v \in Worker : v # w => late'[v] = late[v]) /\ late' \in [Worker -> Nat]
      BY <1>1, <1>3 DEF TypeOK
    <2>7. TypeOK'
      BY <1>3, <2>1, <2>6 DEF TypeOK, WorkerPC
    <2>8. MutexInv'
      BY DEF MutexInv, TypeOK
    <2>9. OneOwner'
      <3>1. pHead # newTask /\ \A v \in Worker : pTask[v] # pHead
        BY <1>1, <2>1, <2>4 DEF OneOwner
      <3>2. \A n \in Node : (\E v \in Worker : n = pTask'[v]) <=>
                                n = pHead \/ \E v \in Worker : n = pTask[v]
        BY <1>1, <2>3
      <3>3. \A n \in Node : n \in heap <=>
               n \in Queued' \/ n = newTask \/ \E v \in Worker : n = pTask'[v]
        BY <2>1, <2>4, <3>2 DEF OneOwner
      <3>4. newTask \notin Queued'
        BY <1>1, <2>4
      <3>5. \A v \in Worker : pTask'[v] # NULL =>
               /\ pTask'[v] \notin Queued'
               /\ pTask'[v] # newTask
               /\ \A u \in Worker : pTask'[u] = pTask'[v] => u = v
        BY <2>3, <2>4, <2>5, <3>1 DEF OneOwner
      <3>6. QED
        BY <3>3, <3>4, <3>5 DEF OneOwner
    <2>10. OnePlace'
      BY DEF OnePlace
    <2>11. NoLostWakeup'
      BY <2>2 DEF NoLostWakeup, TypeOK
    <2>12. FlowInv'
      BY <2>1, <2>3 DEF FlowInv, TypeOK
    <2>13. LateInv'
      BY <2>6 DEF LateInv, TypeOK
    <2>14. QED
      BY <2>1, <2>7, <2>8, <2>9, <2>10, <2>11, <2>12, <2>13
  <1>4. QED
    BY <1>2, <1>3

\* A worker leaves its critical section, to serve iff it has a node.
LEMMA WUnlockStep == ASSUME IInv, NEW w \in Worker, WUnlock(w) PROVE IInv'
  <1> USE DEF IInv, WUnlock, WorkerUnchanged, queueVars, threadVars, mainVars, envVars, history
  <1>1. TypeOK'
    BY DEF TypeOK, QueueTypeOK, WorkerPC, MainPC
  <1>2. ListInv' /\ OneOwner' /\ OnePlace'
    BY DataFrame
  <1>3. MutexInv'
    BY WorkerAssumption DEF MutexInv, TypeOK
  <1>4. NoLostWakeup'
    BY DEF NoLostWakeup, TypeOK
  <1>5. FlowInv'
    BY DEF FlowInv, TypeOK
  <1>6. LateInv'
    BY DEF LateInv, TypeOK
  <1>7. QED
    BY <1>1, <1>2, <1>3, <1>4, <1>5, <1>6 DEF IInv

\* The session is over: its client is finished and its node freed.
LEMMA WServedStep == ASSUME IInv, NEW w \in Worker, WServed(w) PROVE IInv'
  <1> USE NodeAssumption, WorkerAssumption, ConnAssumption
          DEF IInv, WServed, WorkerUnchanged, queueVars, mainVars, envVars
  <1> DEFINE n == pTask[w]
  <1>1. n \in heap /\ n \in Node /\ n \notin Queued /\ n # newTask
    BY DEF FlowInv, OneOwner, TypeOK
  <1>2. user_cfd[n] \in arrived
    BY <1>1 DEF OnePlace
  <1>3. pTask'[w] = NULL /\ \A v \in Worker : v # w => pTask'[v] = pTask[v] /\ pTask[v] # n
    BY <1>1 DEF TypeOK, OneOwner
  <1>4. TypeOK'
    BY <1>2 DEF TypeOK, QueueTypeOK, WorkerPC
  <1>5. ListInv'
    BY DEF ListInv
  <1>6. MutexInv'
    BY DEF MutexInv, TypeOK
  <1>7. OneOwner'
    <2>1. Queued' = Queued /\ newTask' = newTask /\ heap' = heap \ {n}
      BY DEF Queued
    <2>2. \A m \in Node : (\E v \in Worker : m = pTask'[v]) <=>
                              m # n /\ \E v \in Worker : m = pTask[v]
      BY <1>3
    <2>3. \A m \in Node : m \in heap' <=>
             m \in Queued' \/ m = newTask' \/ \E v \in Worker : m = pTask'[v]
      BY <1>1, <2>1, <2>2 DEF OneOwner
    <2>4. \A v \in Worker : pTask'[v] # NULL =>
             /\ pTask'[v] \notin Queued'
             /\ pTask'[v] # newTask'
             /\ \A u \in Worker : pTask'[u] = pTask'[v] => u = v
      BY <1>3, <2>1 DEF OneOwner
    <2>5. QED
      BY <2>1, <2>3, <2>4 DEF OneOwner
  <1>8. OnePlace'
    <2>1. heap' = heap \ {n} /\ finished' = finished \cup {user_cfd[n]}
      OBVIOUS
    <2>2. \A m \in heap' : user_cfd[m] # user_cfd[n]
      BY <1>1, <2>1 DEF OnePlace
    <2>3. QED
      BY <1>1, <2>1, <2>2 DEF OnePlace
  <1>9. NoLostWakeup'
    BY DEF NoLostWakeup, TypeOK
  <1>10. FlowInv'
    BY <1>3 DEF FlowInv, TypeOK
  <1>11. LateInv'
    BY DEF LateInv, TypeOK
  <1>12. QED
    BY <1>4, <1>5, <1>6, <1>7, <1>8, <1>9, <1>10, <1>11

\* A worker with a late task sees exit_flag set and ends.
LEMMA WTestStep == ASSUME IInv, NEW w \in Worker, WTest(w) PROVE IInv'
  <1> USE DEF IInv, WTest, WorkerUnchanged, queueVars, threadVars, mainVars, envVars, history
  <1>1. TypeOK'
    BY DEF TypeOK, QueueTypeOK, WorkerPC, MainPC
  <1>2. ListInv' /\ OneOwner' /\ OnePlace'
    BY DataFrame
  <1>3. MutexInv'
    BY DEF MutexInv, TypeOK
  <1>4. NoLostWakeup'
    BY DEF NoLostWakeup, TypeOK
  <1>5. FlowInv'
    BY DEF FlowInv, TypeOK
  <1>6. LateInv'
    BY DEF LateInv, TypeOK
  <1>7. QED
    BY <1>1, <1>2, <1>3, <1>4, <1>5, <1>6 DEF IInv

-----------------------------------------------------------------------------
\* Every step of the server, or of its environment, preserves the invariant.
LEMMA StepIInv == IInv /\ [Next]_vars => IInv'
  <1> SUFFICES ASSUME IInv, [Next]_vars PROVE IInv'
    OBVIOUS
  <1>1. ASSUME NEW c \in Conn, Connect(c) PROVE IInv'
    BY <1>1, ConnectStep
  <1>2. CASE sigfunc
    BY <1>2, SigfuncStep
  <1>3. CASE ParentExit
    BY <1>3, ParentExitStep
  <1>4. CASE MainStep
    BY <1>4, EpollWaitStep, EventsDoneStep, AcceptStep, MainLockStep, MainInsertStep,
       MainBroadcastStep, MainUnlockStep, ExitEventStep, ExitLockStep, ExitSetStep,
       ExitBroadcastStep, ExitJoinStep DEF MainStep
  <1>5. CASE AcceptFails
    BY <1>5, AcceptFailsStep
  <1>6. ASSUME NEW w \in Worker, WorkerStep(w) \/ WSpurious(w) \/ WServed(w) PROVE IInv'
    BY <1>6, WLockStep, WCheckStep, WSpuriousStep, WRelockStep, WGetStep, WUnlockStep,
       WServedStep, WTestStep DEF WorkerStep
  <1>7. CASE UNCHANGED vars
    <2> USE <1>7 DEF vars, queueVars, threadVars, mainVars, envVars, history, IInv
    <2>1. TypeOK'
      BY DEF TypeOK, QueueTypeOK
    <2>2. ListInv' /\ MutexInv' /\ NoLostWakeup'
      BY DEF ListInv, MutexInv, NoLostWakeup
    <2>3. OneOwner' /\ OnePlace'
      BY DEF OneOwner, OnePlace, Queued
    <2>4. FlowInv' /\ LateInv'
      BY DEF FlowInv, LateInv
    <2>5. QED
      BY <2>1, <2>2, <2>3, <2>4
  <1>8. QED
    BY <1>1, <1>2, <1>3, <1>4, <1>5, <1>6, <1>7 DEF Next

\* The strengthened invariant holds in every reachable state, for any pool size.
THEOREM Invariance == Spec => []IInv
  BY InitIInv, StepIInv, PTL DEF Spec

\* Every variable keeps its type (main.c, ThreadPool.c, TaskQueue.c).
THEOREM Types == Spec => []TypeOK
  <1>1. IInv => TypeOK
    BY DEF IInv
  <1>2. QED
    BY <1>1, Invariance, PTL

\* The linked list is the queue it stands for (TaskQueue.c).
THEOREM QueueIsAList == Spec => []ListInv
  <1>1. IInv => ListInv
    BY DEF IInv
  <1>2. QED
    BY <1>1, Invariance, PTL

\* The critical sections of main.c and ThreadPool.c exclude each other.
THEOREM MutualExclusion == Spec => []MutexInv
  <1>1. IInv => MutexInv
    BY DEF IInv
  <1>2. QED
    BY <1>1, Invariance, PTL

\* No task node is leaked, used after its free or freed twice.
THEOREM Ownership == Spec => []OneOwner
  <1>1. IInv => OneOwner
    BY DEF IInv
  <1>2. QED
    BY <1>1, Invariance, PTL

\* No connection is dropped or served twice.
THEOREM Placement == Spec => []OnePlace
  <1>1. IInv => OnePlace
    BY DEF IInv
  <1>2. QED
    BY <1>1, Invariance, PTL

\* No worker sleeps on the condition variable while a task waits.
THEOREM WakeUps == Spec => []NoLostWakeup
  <1>1. IInv => NoLostWakeup
    BY DEF IInv
  <1>2. QED
    BY <1>1, Invariance, PTL

\* A worker takes at most one task after exit_flag is set.
THEOREM LateTasks == Spec => []AtMostOneLateTask
  <1>1. IInv => AtMostOneLateTask
    BY DEF IInv, LateInv, AtMostOneLateTask
  <1>2. QED
    BY <1>1, Invariance, PTL

\* exit(0) in the main thread cuts no session off.
THEOREM Sessions == Spec => []NoSessionCut
  <1>1. ASSUME IInv, mpc = "exited" PROVE (\A w \in Worker : pTask[w] = NULL) /\ heap = Queued
    <2>1. newTask = NULL /\ \A w \in Worker : pTask[w] = NULL
      BY <1>1 DEF IInv, FlowInv, TypeOK
    <2>2. heap \subseteq Node /\ Queued \subseteq Node /\ NULL \notin Node
      BY <1>1, NodeAssumption DEF IInv, TypeOK, QueueTypeOK, Queued
    <2>3. QED
      BY <1>1, <2>1, <2>2 DEF IInv, OneOwner
  <1>2. IInv => NoSessionCut
    BY <1>1 DEF NoSessionCut
  <1>3. QED
    BY <1>2, Invariance, PTL

-----------------------------------------------------------------------------
(***************************************************************************)
(* The refinement of WorkerPool: MainInsert is Submit, WGet with a task is *)
(* Take, WServed is Finish, and every other step is a stutter.             *)
(***************************************************************************)
LEMMA PoolFrame ==
  ASSUME UNCHANGED <<fifo, pTask, finished>>,
         \A i \in 1..Len(fifo) : user_cfd'[fifo[i]] = user_cfd[fifo[i]],
         \A w \in Worker : pTask[w] # NULL => user_cfd'[pTask[w]] = user_cfd[pTask[w]]
  PROVE  UNCHANGED Pool!poolVars
  <1>1. Waiting' = Waiting
    BY DEF Waiting
  <1>2. Serving' = Serving
    BY DEF Serving
  <1>3. QED
    BY <1>1, <1>2 DEF Pool!poolVars

\* The initial states of the server are those of the pool.
LEMMA RefineInit == Init => Pool!PoolInit
  <1> SUFFICES ASSUME Init PROVE Pool!PoolInit
    OBVIOUS
  <1>1. Waiting = <<>>
    BY DEF Init, TaskQueueInit, Waiting
  <1>2. Serving = [w \in Worker |-> NULL] /\ finished = {}
    BY DEF Init, Serving
  <1>3. QED
    BY <1>1, <1>2 DEF Pool!PoolInit

\* A fresh node is neither in the queue nor in hand: accept is a stutter.
LEMMA RefineAccept == ASSUME IInv, Accept PROVE UNCHANGED Pool!poolVars
  <1>1. PICK n \in Node \ heap : user_cfd' = [user_cfd EXCEPT ![n] = Head(backlog)]
    BY DEF Accept
  <1>2. n \notin Queued /\ \A w \in Worker : pTask[w] # n
    BY DEF IInv, OneOwner
  <1>3. \A i \in 1..Len(fifo) : fifo[i] # n /\ fifo[i] \in Node
    BY <1>2 DEF Queued, IInv, TypeOK, QueueTypeOK
  <1>4. UNCHANGED <<fifo, pTask, finished>>
    BY DEF Accept, history
  <1>5. \A i \in 1..Len(fifo) : user_cfd'[fifo[i]] = user_cfd[fifo[i]]
    BY <1>1, <1>3 DEF IInv, TypeOK
  <1>6. \A w \in Worker : pTask[w] # NULL => user_cfd'[pTask[w]] = user_cfd[pTask[w]]
    BY <1>1, <1>2 DEF IInv, TypeOK
  <1>7. QED
    BY <1>4, <1>5, <1>6, PoolFrame

\* Inserting a node submits its client, which the pool has not seen before.
LEMMA RefineInsert == ASSUME IInv, MainInsert PROVE \E c \in Conn : Pool!Submit(c)
  <1> USE DEF IInv
  <1> DEFINE n == newTask
             c == user_cfd[n]
  <1>1. /\ n \in heap /\ n \in Node /\ n \notin Queued
        /\ \A w \in Worker : pTask[w] # n
    BY NodeAssumption DEF MainInsert, TypeOK, FlowInv, OneOwner
  <1>2. c \in Conn /\ c \notin finished /\ \A m \in heap : user_cfd[m] = c => m = n
    BY <1>1 DEF OnePlace, TypeOK
  <1>3. \A i \in 1..Len(fifo) : fifo[i] \in heap /\ fifo[i] # n /\ user_cfd[fifo[i]] \in Conn
    <2>1. \A i \in 1..Len(fifo) : fifo[i] \in heap /\ fifo[i] # n
      BY <1>1 DEF Queued, OneOwner, TypeOK, QueueTypeOK
    <2>2. \A m \in heap : user_cfd[m] \in Conn
      BY DEF OnePlace, TypeOK
    <2>3. QED
      BY <2>1, <2>2
  <1>4. \A w \in Worker : pTask[w] # NULL => pTask[w] \in heap /\ pTask[w] # n
    BY <1>1 DEF OneOwner, TypeOK
  <1>5. c \notin {Waiting[i] : i \in DOMAIN Waiting}
    BY <1>2, <1>3 DEF Waiting
  <1>6. c \notin {Serving[w] : w \in Worker}
    BY <1>2, <1>4, ConnAssumption DEF Serving
  <1>7. UNCHANGED <<pTask, user_cfd, finished>> /\ fifo' = Append(fifo, n)
    BY DEF MainInsert, InsertTaskQueue, threadVars, history
  <1>8. Waiting' = Append(Waiting, c)
    <2>1. /\ Waiting \in Seq(Conn) /\ Len(Waiting) = Len(fifo) /\ Len(fifo) \in Nat
          /\ Len(fifo') = Len(fifo) + 1 /\ fifo'[Len(fifo) + 1] = n
          /\ \A i \in 1..Len(fifo) : fifo'[i] = fifo[i]
      BY <1>1, <1>3, <1>7 DEF Waiting, TypeOK, QueueTypeOK
    <2>2. Waiting' = [i \in 1..(Len(fifo) + 1) |-> user_cfd[fifo'[i]]]
      BY <1>7, <2>1 DEF Waiting
    <2>3. Append(Waiting, c) = [i \in 1..(Len(fifo) + 1) |-> IF i = Len(fifo) + 1 THEN c ELSE Waiting[i]]
      BY <2>1, <1>2
    <2>4. \A i \in 1..(Len(fifo) + 1) :
             user_cfd[fifo'[i]] = IF i = Len(fifo) + 1 THEN c ELSE Waiting[i]
      BY <2>1 DEF Waiting
    <2>5. QED
      BY <2>2, <2>3, <2>4
  <1>9. Serving' = Serving /\ finished' = finished
    BY <1>7 DEF Serving
  <1>10. Pool!Submit(c)
    BY <1>2, <1>5, <1>6, <1>8, <1>9 DEF Pool!Submit, Pool!Seen
  <1>11. QED
    BY <1>2, <1>10

\* Getting a node takes the oldest client; an empty queue is a stutter.
LEMMA RefineGet ==
  ASSUME IInv, NEW w \in Worker, WGet(w)
  PROVE  Pool!Take(w) \/ UNCHANGED Pool!poolVars
  <1> USE DEF IInv
  <1>1. UNCHANGED <<user_cfd, finished>> /\ pTask[w] = NULL
    BY DEF WGet, FlowInv
  <1>2. CASE queue_len = 0 /\ UNCHANGED <<queueVars, pTask, late>>
    BY <1>1, <1>2, PoolFrame DEF queueVars
  <1>3. CASE GetTaskNode /\ pTask' = [pTask EXCEPT ![w] = pHead]
    <2>1. /\ pHead \in Node /\ pHead = fifo[1] /\ Len(fifo) > 0
          /\ Len(fifo') = Len(fifo) - 1
          /\ \A i \in 1..Len(fifo') : fifo'[i] = fifo[i + 1]
      BY <1>3, GetList DEF TypeOK
    <2>2. /\ Len(fifo) \in Nat
          /\ \A i \in 1..Len(fifo) : user_cfd[fifo[i]] \in Conn
      <3>1. \A i \in 1..Len(fifo) : fifo[i] \in Node /\ fifo[i] \in heap
        BY DEF TypeOK, QueueTypeOK, OneOwner, Queued
      <3>2. QED
        BY <3>1 DEF TypeOK, QueueTypeOK, OnePlace
    <2>3. Waiting \in Seq(Conn) /\ Len(Waiting) = Len(fifo) /\ Waiting # <<>>
          /\ Head(Waiting) = user_cfd[pHead]
      BY <2>1, <2>2 DEF Waiting
    <2>4. Waiting' = Tail(Waiting)
      <3>1. Tail(Waiting) = [i \in 1..(Len(fifo) - 1) |-> Waiting[i + 1]]
        BY <2>1, <2>2, <2>3, TailIsShift
      <3>2. Waiting' = [i \in 1..(Len(fifo) - 1) |-> user_cfd[fifo'[i]]]
        BY <1>1, <2>1 DEF Waiting
      <3>3. \A i \in 1..(Len(fifo) - 1) : user_cfd[fifo'[i]] = Waiting[i + 1]
        BY <2>1, <2>2 DEF Waiting
      <3>4. QED
        BY <3>1, <3>2, <3>3
    <2>5. Serving[w] = NULL
      BY <1>1 DEF Serving
    <2>6. Serving' = [Serving EXCEPT ![w] = user_cfd[pHead]]
      BY <1>1, <1>3, <2>1, NodeAssumption DEF Serving, TypeOK
    <2>7. QED
      BY <1>1, <2>3, <2>4, <2>5, <2>6 DEF Pool!Take
  <1>4. QED
    BY <1>2, <1>3 DEF WGet

\* The end of a session is the end of its client.
LEMMA RefineServed == ASSUME IInv, NEW w \in Worker, WServed(w) PROVE Pool!Finish(w)
  <1> USE DEF IInv
  <1>1. /\ pTask[w] # NULL /\ user_cfd[pTask[w]] \in Conn
    BY NodeAssumption DEF WServed, FlowInv, OneOwner, OnePlace, TypeOK
  <1>2. /\ UNCHANGED <<fifo, user_cfd>>
        /\ finished' = finished \cup {user_cfd[pTask[w]]}
        /\ pTask' = [pTask EXCEPT ![w] = NULL]
    BY DEF WServed, queueVars
  <1>3. Serving[w] = user_cfd[pTask[w]] /\ Serving[w] # NULL
    BY <1>1, ConnAssumption DEF Serving
  <1>4. Serving' = [Serving EXCEPT ![w] = NULL]
    BY <1>2 DEF Serving, TypeOK
  <1>5. Waiting' = Waiting
    BY <1>2 DEF Waiting
  <1>6. QED
    BY <1>2, <1>3, <1>4, <1>5 DEF Pool!Finish

\* Every step of the server is a step or a stutter of the pool.
LEMMA RefineStep == IInv /\ [Next]_vars => [Pool!PoolNext]_(Pool!poolVars)
  <1> SUFFICES ASSUME IInv, [Next]_vars PROVE Pool!PoolNext \/ UNCHANGED Pool!poolVars
    OBVIOUS
  <1>1. ASSUME UNCHANGED <<fifo, pTask, finished, user_cfd>> PROVE UNCHANGED Pool!poolVars
    BY <1>1, PoolFrame
  <1>2. ASSUME NEW c \in Conn, Connect(c) PROVE UNCHANGED Pool!poolVars
    BY <1>1, <1>2 DEF Connect, queueVars, threadVars, history
  <1>3. CASE sigfunc \/ ParentExit \/ AcceptFails
    BY <1>1, <1>3 DEF sigfunc, ParentExit, AcceptFails, queueVars, threadVars, history
  <1>4. CASE MainStep
    <2>1. CASE Accept
      BY <2>1, RefineAccept
    <2>2. CASE MainInsert
      BY <2>2, RefineInsert DEF Pool!PoolNext
    <2>3. CASE EpollWait \/ EventsDone \/ ExitEvent \/ ExitJoin
      BY <1>1, <2>3 DEF EpollWait, EventsDone, ExitEvent, ExitJoin, queueVars, threadVars, history
    <2>4. CASE MainLock \/ MainBroadcast \/ MainUnlock \/ ExitLock \/ ExitSet \/ ExitBroadcast
      BY <1>1, <2>4 DEF MainLock, MainBroadcast, MainUnlock, ExitLock, ExitSet, ExitBroadcast,
                        queueVars, history
    <2>5. QED
      BY <1>4, <2>1, <2>2, <2>3, <2>4 DEF MainStep
  <1>5. ASSUME NEW w \in Worker, WorkerStep(w) \/ WSpurious(w) \/ WServed(w)
        PROVE  Pool!PoolNext \/ UNCHANGED Pool!poolVars
    <2>1. CASE WGet(w)
      BY <2>1, RefineGet DEF Pool!PoolNext
    <2>2. CASE WServed(w)
      BY <2>2, RefineServed DEF Pool!PoolNext
    <2>3. CASE WLock(w) \/ WCheck(w) \/ WSpurious(w) \/ WRelock(w) \/ WUnlock(w) \/ WTest(w)
      BY <1>1, <2>3 DEF WLock, WCheck, WSpurious, WRelock, WUnlock, WTest, queueVars, history
    <2>4. QED
      BY <1>5, <2>1, <2>2, <2>3 DEF WorkerStep
  <1>6. CASE UNCHANGED vars
    BY <1>1, <1>6 DEF vars, queueVars, threadVars, history
  <1>7. QED
    BY <1>2, <1>3, <1>4, <1>5, <1>6 DEF Next

\* The pool serves the connections in order, each by exactly one worker.
THEOREM Refinement == Spec => ImplementsPool
  BY RefineInit, RefineStep, Invariance, PTL DEF Spec, ImplementsPool, Pool!PoolSpec
=============================================================================
