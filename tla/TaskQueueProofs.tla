--------------------------- MODULE TaskQueueProofs ---------------------------
(***************************************************************************)
(* The two operations of the task queue keep the linked list consistent    *)
(* with the sequence of queued nodes, for every set of addresses.          *)
(***************************************************************************)
EXTENDS TaskQueue, TLAPS

InQueue(n) == \E i \in 1..Len(fifo) : fifo[i] = n

(***************************************************************************)
(* InsertTaskQueue, given a zeroed node that is not in the queue.          *)
(***************************************************************************)
LEMMA InsertList ==
  ASSUME QueueTypeOK, ListInv,
         NEW n \in Node, ~InQueue(n), InsertTaskQueue(n)
  PROVE  /\ QueueTypeOK'
         /\ ListInv'
         /\ Len(fifo') = Len(fifo) + 1
         /\ fifo'[Len(fifo) + 1] = n
         /\ \A i \in 1..Len(fifo) : fifo'[i] = fifo[i]
  <1> USE NodeAssumption DEF QueueTypeOK
  <1>1. /\ fifo' \in Seq(Node)
        /\ Len(fifo') = Len(fifo) + 1
        /\ fifo'[Len(fifo) + 1] = n
        /\ \A i \in 1..Len(fifo) : fifo'[i] = fifo[i]
    BY DEF InsertTaskQueue
  <1>2. pNext[n] = NULL
    BY DEF ListInv, InQueue
  <1>3. /\ Len(fifo) \in Nat
        /\ \A i \in 1..Len(fifo) : fifo[i] \in Node /\ fifo[i] # n
    BY DEF InQueue
  <1>4. CASE fifo = <<>>
    <2>1. queue_len = 0 /\ Len(fifo) = 0
      BY <1>4 DEF ListInv
    <2>2. /\ pHead' = n /\ pTail' = n /\ pNext' = pNext /\ queue_len' = 1
          /\ Len(fifo') = 1 /\ fifo'[1] = n
      BY <2>1, <1>1 DEF InsertTaskQueue
    <2>3. QueueTypeOK'
      BY <2>2, <1>1
    <2>4. \A m \in Node : pNext[m] = NULL
      BY <2>1 DEF ListInv
    <2>5. ListInv'
      BY <2>2, <2>4, <1>1 DEF ListInv
    <2>6. QED
      BY <2>3, <2>5, <1>1
  <1>5. CASE fifo # <<>>
    <2> DEFINE last == fifo[Len(fifo)]
    <2>1. /\ Len(fifo) > 0 /\ queue_len = Len(fifo) /\ queue_len # 0
          /\ pTail = last /\ last \in Node /\ last # n
      BY <1>5, <1>3 DEF ListInv
    <2>2. /\ pHead' = pHead /\ pTail' = n /\ queue_len' = Len(fifo) + 1
          /\ pNext' = [pNext EXCEPT ![last] = n]
      BY <2>1 DEF InsertTaskQueue
    <2>3. QueueTypeOK'
      BY <2>1, <2>2, <1>1
    <2>4. /\ queue_len' = Len(fifo')
          /\ fifo' # <<>> /\ pHead' = fifo'[1] /\ pTail' = fifo'[Len(fifo')]
      BY <2>1, <2>2, <1>1, <1>5 DEF ListInv
    <2>5. \A i \in 1..Len(fifo') : pNext'[fifo'[i]] = IF i = Len(fifo') THEN NULL ELSE fifo'[i + 1]
      <3> SUFFICES ASSUME NEW i \in 1..Len(fifo')
                   PROVE  pNext'[fifo'[i]] = IF i = Len(fifo') THEN NULL ELSE fifo'[i + 1]
        OBVIOUS
      <3>1. CASE i = Len(fifo')
        BY <3>1, <1>1, <1>2, <2>1, <2>2
      <3>2. CASE i = Len(fifo)
        BY <3>2, <1>1, <2>1, <2>2
      <3>3. CASE i \in 1..Len(fifo) /\ i # Len(fifo)
        <4>1. fifo[i] # last
          BY <3>3, <2>1 DEF ListInv
        <4>2. pNext'[fifo[i]] = fifo[i + 1] /\ i + 1 \in 1..Len(fifo)
          BY <3>3, <4>1, <2>2, <1>3 DEF ListInv
        <4>3. QED
          BY <4>2, <3>3, <1>1
      <3>4. QED
        BY <3>1, <3>2, <3>3, <1>1, <1>3
    <2>6. \A i, j \in 1..Len(fifo') : fifo'[i] = fifo'[j] => i = j
      BY <1>1, <1>3 DEF ListInv
    <2>7. \A m \in Node : pNext'[m] # NULL => \E i \in 1..Len(fifo') : fifo'[i] = m
      <3> SUFFICES ASSUME NEW m \in Node, pNext'[m] # NULL
                   PROVE  \E i \in 1..Len(fifo') : fifo'[i] = m
        OBVIOUS
      <3>1. \E i \in 1..Len(fifo) : fifo[i] = m
        BY <2>1, <2>2, <1>3 DEF ListInv
      <3>2. QED
        BY <3>1, <1>1, <1>3
    <2>8. ListInv'
      BY <2>4, <2>5, <2>6, <2>7 DEF ListInv
    <2>9. QED
      BY <2>3, <2>8, <1>1
  <1>6. QED
    BY <1>4, <1>5

(***************************************************************************)
(* GetTaskNode with a non-empty queue: the head of the list is the oldest  *)
(* node, and exactly that node leaves the queue.                           *)
(***************************************************************************)
LEMMA GetList ==
  ASSUME QueueTypeOK, ListInv, GetTaskNode
  PROVE  /\ QueueTypeOK'
         /\ ListInv'
         /\ pHead \in Node /\ pHead = fifo[1] /\ Len(fifo) > 0
         /\ Len(fifo') = Len(fifo) - 1
         /\ \A i \in 1..Len(fifo') : fifo'[i] = fifo[i + 1]
  <1> USE NodeAssumption DEF QueueTypeOK
  <1>1. /\ Len(fifo) \in Nat /\ Len(fifo) > 0 /\ fifo # <<>>
        /\ pHead = fifo[1] /\ pTail = fifo[Len(fifo)] /\ queue_len = Len(fifo)
        /\ pHead \in Node /\ pTail \in Node
    BY DEF ListInv, GetTaskNode
  <1>2. /\ fifo' \in Seq(Node)
        /\ Len(fifo') = Len(fifo) - 1
        /\ \A i \in 1..Len(fifo') : fifo'[i] = fifo[i + 1]
    BY <1>1 DEF GetTaskNode
  <1>3. /\ pHead' = pNext[pHead]
        /\ pNext' = [pNext EXCEPT ![pHead] = NULL]
        /\ queue_len' = queue_len - 1
        /\ pTail' = IF queue_len' = 0 THEN NULL ELSE pTail
    BY DEF GetTaskNode
  <1>4. QueueTypeOK'
    BY <1>1, <1>2, <1>3
  <1>5. \A i, j \in 1..Len(fifo') : fifo'[i] = fifo'[j] => i = j
    BY <1>1, <1>2 DEF ListInv
  <1>6. \A i \in 1..Len(fifo') : fifo'[i] \in Node /\ fifo'[i] # pHead
    BY <1>1, <1>2 DEF ListInv
  <1>7. \A i \in 1..Len(fifo') : pNext'[fifo'[i]] = IF i = Len(fifo') THEN NULL ELSE fifo'[i + 1]
    <2> SUFFICES ASSUME NEW i \in 1..Len(fifo')
                 PROVE  pNext'[fifo'[i]] = IF i = Len(fifo') THEN NULL ELSE fifo'[i + 1]
      OBVIOUS
    <2>1. pNext'[fifo'[i]] = pNext[fifo[i + 1]] /\ i + 1 \in 1..Len(fifo)
      BY <1>1, <1>2, <1>3, <1>6
    <2>2. pNext[fifo[i + 1]] = IF i + 1 = Len(fifo) THEN NULL ELSE fifo[i + 2]
      BY <2>1, <1>1 DEF ListInv
    <2>3. QED
      BY <2>1, <2>2, <1>1, <1>2
  <1>8. \A m \in Node : pNext'[m] # NULL => \E i \in 1..Len(fifo') : fifo'[i] = m
    <2> SUFFICES ASSUME NEW m \in Node, pNext'[m] # NULL
                 PROVE  \E i \in 1..Len(fifo') : fifo'[i] = m
      OBVIOUS
    <2>1. m # pHead /\ pNext[m] # NULL
      BY <1>1, <1>3
    <2>2. PICK i \in 1..Len(fifo) : fifo[i] = m
      BY <2>1 DEF ListInv
    <2>3. i - 1 \in 1..Len(fifo') /\ fifo'[i - 1] = m
      BY <2>1, <2>2, <1>1, <1>2
    <2>4. QED
      BY <2>3
  <1>9. CASE Len(fifo) = 1
    <2>1. pHead' = NULL /\ pTail' = NULL /\ queue_len' = 0 /\ Len(fifo') = 0 /\ fifo' = <<>>
      BY <1>9, <1>1, <1>2, <1>3 DEF ListInv
    <2>2. ListInv'
      BY <2>1, <1>5, <1>7, <1>8 DEF ListInv
    <2>3. QED
      BY <2>2, <1>1, <1>2, <1>4
  <1>10. CASE Len(fifo) # 1
    <2>1. fifo' # <<>> /\ Len(fifo') > 0 /\ 1 \in 1..Len(fifo)
      BY <1>10, <1>1, <1>2
    <2>2. pHead' = fifo'[1]
      BY <1>10, <2>1, <1>1, <1>2, <1>3 DEF ListInv
    <2>3. pTail' = fifo'[Len(fifo')]
      BY <1>10, <1>1, <1>2, <1>3
    <2>4. ListInv'
      BY <2>1, <2>2, <2>3, <1>1, <1>2, <1>3, <1>5, <1>7, <1>8 DEF ListInv
    <2>5. QED
      BY <2>4, <1>1, <1>2, <1>4
  <1>11. QED
    BY <1>9, <1>10
=============================================================================
