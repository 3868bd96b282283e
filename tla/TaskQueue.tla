------------------------------ MODULE TaskQueue ------------------------------
(***************************************************************************)
(* The task queue of the server: server/src/TaskQueue.c and the structure  *)
(* task_queue_s of server/head/struct.h.  It is a singly linked list of    *)
(* heap nodes with a head pointer, a tail pointer and a length.  A node is *)
(* named by its address; the link of node n is pNext[n].                   *)
(*                                                                         *)
(* fifo is a history variable: the nodes inserted and not yet taken, in    *)
(* the order of their insertion.  No guard reads it.  It is what the       *)
(* linked list is meant to represent, and what ListInv compares it with.   *)
(***************************************************************************)
EXTENDS Naturals, Sequences

CONSTANTS
  Node,   \* addresses calloc may return for a task_node_t
  NULL    \* the null pointer, also the absence of a thread or a connection

ASSUME NodeAssumption == NULL \notin Node

VARIABLES
  queue_len,   \* number of tasks in the queue
  pHead,       \* first node, or NULL
  pTail,       \* last node, or NULL
  pNext,       \* pNext[n]: the node that follows n, or NULL
  fifo         \* history: the queued nodes, oldest first

queueVars == <<queue_len, pHead, pTail, pNext, fifo>>

TaskQueueInit ==
  /\ queue_len = 0
  /\ pHead = NULL
  /\ pTail = NULL
  /\ pNext = [n \in Node |-> NULL]
  /\ fifo = <<>>

\* Defective variant: a new node goes to the front of a non-empty queue.
InsertTaskQueue_AtHead(n) ==
  /\ \/ queue_len = 0 /\ pTail' = n /\ UNCHANGED pNext
     \/ queue_len # 0 /\ pNext' = [pNext EXCEPT ![n] = pHead] /\ UNCHANGED pTail
  /\ pHead' = n
  /\ queue_len' = queue_len + 1
  /\ fifo' = Append(fifo, n)

(***************************************************************************)
(* InsertTaskQueue: the node becomes the tail; in an empty queue it is     *)
(* also the head, otherwise the old tail is linked to it.                  *)
(***************************************************************************)
InsertTaskQueue(n) ==
  /\ \/ queue_len = 0 /\ pHead' = n /\ UNCHANGED pNext
     \/ queue_len # 0 /\ pNext' = [pNext EXCEPT ![pTail] = n] /\ UNCHANGED pHead
  /\ pTail' = n
  /\ queue_len' = queue_len + 1
  /\ fifo' = Append(fifo, n)

\* Defective variant: the tail is not reset when the queue becomes empty.
GetTaskNode_KeepsTail ==
  /\ queue_len # 0
  /\ pHead' = pNext[pHead]
  /\ pNext' = [pNext EXCEPT ![pHead] = NULL]
  /\ queue_len' = queue_len - 1
  /\ fifo' = Tail(fifo)
  /\ UNCHANGED pTail

\* Defective variant: the length is decremented twice.
GetTaskNode_CountsTwice ==
  /\ queue_len # 0
  /\ pHead' = pNext[pHead]
  /\ pNext' = [pNext EXCEPT ![pHead] = NULL]
  /\ queue_len' = queue_len - 2
  /\ pTail' = IF queue_len' = 0 THEN NULL ELSE pTail
  /\ fifo' = Tail(fifo)

(***************************************************************************)
(* GetTaskNode, when there is a node: the head is unlinked (the caller     *)
(* receives the old pHead) and the tail is reset when the queue becomes    *)
(* empty.  With an empty queue the function returns 0 and changes nothing. *)
(***************************************************************************)
GetTaskNode ==
  /\ queue_len # 0
  /\ pHead' = pNext[pHead]
  /\ pNext' = [pNext EXCEPT ![pHead] = NULL]
  /\ queue_len' = queue_len - 1
  /\ pTail' = IF queue_len' = 0 THEN NULL ELSE pTail
  /\ fifo' = Tail(fifo)

-----------------------------------------------------------------------------
QueueTypeOK ==
  /\ queue_len \in Nat
  /\ pHead \in Node \cup {NULL}
  /\ pTail \in Node \cup {NULL}
  /\ pNext \in [Node -> Node \cup {NULL}]
  /\ fifo \in Seq(Node)

(***************************************************************************)
(* The linked list represents fifo: the length is right, the head and the  *)
(* tail pointers are the two ends, every link leads to the next node, and  *)
(* the last node, like every node outside the list, has no successor.      *)
(***************************************************************************)
ListInv ==
  /\ queue_len = Len(fifo)
  /\ fifo = <<>> => pHead = NULL /\ pTail = NULL
  /\ fifo # <<>> => pHead = fifo[1] /\ pTail = fifo[Len(fifo)]
  /\ \A i \in 1..Len(fifo) :
        pNext[fifo[i]] = IF i = Len(fifo) THEN NULL ELSE fifo[i + 1]
  /\ \A i, j \in 1..Len(fifo) : fifo[i] = fifo[j] => i = j
  /\ \A n \in Node : pNext[n] # NULL => \E i \in 1..Len(fifo) : fifo[i] = n
=============================================================================
