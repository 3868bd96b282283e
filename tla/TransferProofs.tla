--------------------------- MODULE TransferProofs ---------------------------
(***************************************************************************)
(* Safety of the transfers, for any number of sessions and contents, any   *)
(* sizes and any width of an int.                                          *)
(*                                                                         *)
(* An upload is described by the place where its wire begins in the        *)
(* content: what the thread still needs determines it, and while nobody    *)
(* else has written between its fstat and its lseek it is the offset of    *)
(* the thread.  A download is described by the sum of what the thread has  *)
(* to send, what is on the wire and what the client has.                   *)
(***************************************************************************)
EXTENDS Transfer, SequenceTheorems, TLAPS

\* The blocks of q are those of content c after the first i.
Run(q, c, i) == i + Len(q) <= Size[c] /\ \A k \in 1..Len(q) : q[k] = <<c, i + k>>

Begins(q, c) == Run(q, c, 0)

StoredInv == \A c \in Content \ clash : Begins(stored[c], c)

\* How much of the content of an upload is before its wire, as an int.
Start(s) == Atoi(Size[tr[s].c]) - tr[s].need

UpInv(s) ==
  tr[s].op = "up" =>
    /\ tr[s].pc \in {"seek", "receive"} /\ tr[s].next >= 0
    /\ tr[s].next - Len(wire[s]) >= Start(s)
    /\ alive[s] => tr[s].next - Len(wire[s]) = Start(s)
    /\ tr[s].pc = "receive" => tr[s].pos <= Len(stored[tr[s].c])

RunInv(s) ==
  tr[s].op = "up" /\ tr[s].c \notin clash =>
    /\ Run(wire[s], tr[s].c, Start(s))
    /\ tr[s].next <= Size[tr[s].c]
    /\ tr[s].pc = "receive" => tr[s].pos = Start(s)

\* With a local file beyond the int, the thread of a big file sends nothing.
DownInv(s) ==
  tr[s].op = "down" =>
    /\ \/ tr[s].need + Len(local[s]) + Len(wire[s]) = tr[s].next
       \/ Len(local[s]) >= IntMax /\ tr[s].need = 0 /\ wire[s] = <<>>
    /\ tr[s].need > 0 => tr[s].pos <= Len(stored[tr[s].c])
    /\ s \notin grew => /\ tr[s].need >= 0 \/ wire[s] = <<>>
                        /\ tr[s].need > 0 => Len(stored[tr[s].c]) - tr[s].pos <= tr[s].need

QuietInv(s) == tr[s].op \notin {"up", "down"} => wire[s] = <<>>

SessionInv(s) == UpInv(s) /\ RunInv(s) /\ DownInv(s) /\ QuietInv(s)

IInv == TypeOK /\ StoredInv /\ \A s \in Session : SessionInv(s)

-----------------------------------------------------------------------------
(* atoi.                                                                   *)

LEMMA AtoiRange ==
  ASSUME NEW n \in Nat
  PROVE  Atoi(n) \in Int /\ Atoi(n) <= n /\ -IntMax <= Atoi(n) /\ Atoi(n) < IntMax
  BY WidthAssumption DEF Atoi

LEMMA AtoiSmall ==
  ASSUME NEW n \in Nat, n < IntMax
  PROVE  Atoi(n) = n
  BY WidthAssumption DEF Atoi

LEMMA AtoiWraps ==
  ASSUME NEW n \in Nat, IntMax <= n, n < 2 * IntMax
  PROVE  Atoi(n) = n - 2 * IntMax
  BY WidthAssumption DEF Atoi

-----------------------------------------------------------------------------
(* Sequences.                                                              *)

\* A part of a sequence, given by the offset before it and the one after it.
LEMMA Part ==
  ASSUME NEW S, NEW q \in Seq(S), NEW a \in Nat, NEW b \in Nat, a <= b, b <= Len(q)
  PROVE  /\ SubSeq(q, a + 1, b) \in Seq(S) /\ Len(SubSeq(q, a + 1, b)) = b - a
         /\ \A k \in 1..(b - a) : SubSeq(q, a + 1, b)[k] = q[a + k]
  OBVIOUS

LEMMA First ==
  ASSUME NEW S, NEW q \in Seq(S), NEW n \in 0..Len(q)
  PROVE  /\ SubSeq(q, 1, n) \in Seq(S) /\ Len(SubSeq(q, 1, n)) = n
         /\ \A k \in 1..n : SubSeq(q, 1, n)[k] = q[k]
  OBVIOUS

LEMMA Rest ==
  ASSUME NEW S, NEW q \in Seq(S), NEW n \in 0..Len(q)
  PROVE  /\ SubSeq(q, n + 1, Len(q)) \in Seq(S) /\ Len(SubSeq(q, n + 1, Len(q))) = Len(q) - n
         /\ \A k \in 1..(Len(q) - n) : SubSeq(q, n + 1, Len(q))[k] = q[n + k]
  OBVIOUS

LEMMA Joined ==
  ASSUME NEW S, NEW q \in Seq(S), NEW r \in Seq(S)
  PROVE  /\ q \o r \in Seq(S) /\ Len(q \o r) = Len(q) + Len(r)
         /\ \A k \in 1..Len(q) : (q \o r)[k] = q[k]
         /\ \A k \in 1..Len(r) : (q \o r)[Len(q) + k] = r[k]
  OBVIOUS

LEMMA Added ==
  ASSUME NEW S, NEW q \in Seq(S), NEW x \in S
  PROVE  /\ Append(q, x) \in Seq(S) /\ Len(Append(q, x)) = Len(q) + 1
         /\ \A k \in 1..Len(q) : Append(q, x)[k] = q[k]
         /\ Append(q, x)[Len(q) + 1] = x
  OBVIOUS

\* write keeps what it does not reach.
LEMMA WrittenIs ==
  ASSUME NEW S, NEW q \in Seq(S), NEW r \in Seq(S), NEW pos \in Nat, pos <= Len(q)
  PROVE  /\ Written(q, pos, r) \in Seq(S)
         /\ Len(Written(q, pos, r)) = IF pos + Len(r) > Len(q) THEN pos + Len(r) ELSE Len(q)
         /\ \A k \in 1..Len(q) : k <= pos \/ k > pos + Len(r) => Written(q, pos, r)[k] = q[k]
         /\ \A k \in 1..Len(r) : Written(q, pos, r)[pos + k] = r[k]
  <1> DEFINE n == IF pos + Len(r) > Len(q) THEN pos + Len(r) ELSE Len(q)
             f == [k \in 1..n |-> IF k \in (pos + 1)..(pos + Len(r)) THEN r[k - pos] ELSE q[k]]
  <1>1. Written(q, pos, r) = f
    BY DEF Written
  <1>2. n \in Nat /\ Len(q) \in Nat /\ Len(r) \in Nat
    BY LenProperties
  <1>3. \A k \in 1..n : f[k] \in S
    BY <1>2, ElementOfSeq
  <1>4. f \in Seq(S) /\ Len(f) = n
    BY <1>2, <1>3, IsASeq
  <1>5. QED
    BY <1>1, <1>2, <1>4

\* The content as a sequence.
LEMMA WholeIs ==
  ASSUME NEW c \in Content
  PROVE  /\ Whole(c) \in Seq(Blocks) /\ Len(Whole(c)) = Size[c] /\ Size[c] \in Nat
         /\ \A k \in 1..Size[c] : Whole(c)[k] = <<c, k>>
  <1>1. Size[c] \in Nat
    BY SizeAssumption
  <1>2. \A k \in 1..Size[c] : <<c, k>> \in Blocks
    BY DEF Blocks
  <1>3. QED
    BY <1>1, <1>2 DEF Whole

LEMMA BeginsIsPrefix ==
  ASSUME NEW c \in Content, NEW q \in Seq(Blocks)
  PROVE  Begins(q, c) <=> IsPrefix(q, Whole(c))
  <1> DEFINE w == SubSeq(Whole(c), 1, Len(q))
  <1>1. Len(q) \in Nat /\ SubSeq(q, 1, Len(q)) = q
    BY SubSeqFull, LenProperties
  <1>2. Whole(c) \in Seq(Blocks) /\ Len(Whole(c)) = Size[c] /\ Size[c] \in Nat
    BY WholeIs
  <1>3. ASSUME Len(q) <= Size[c]
        PROVE  w \in Seq(Blocks) /\ Len(w) = Len(q) /\ \A k \in 1..Len(q) : w[k] = <<c, k>>
    BY <1>1, <1>2, <1>3, WholeIs
  <1> HIDE DEF w
  <1>4. ASSUME Begins(q, c) PROVE IsPrefix(q, Whole(c))
    <2>1. Len(q) <= Size[c] /\ \A k \in 1..Len(q) : q[k] = <<c, k>>
      BY <1>1, <1>4 DEF Begins, Run
    <2>2. q = w
      BY <1>3, <2>1, SeqEqual
    <2>3. QED
      BY <1>1, <1>2, <2>1, <2>2 DEF IsPrefix, w
  <1>5. ASSUME IsPrefix(q, Whole(c)) PROVE Begins(q, c)
    <2>1. Len(q) <= Size[c] /\ q = w
      BY <1>1, <1>2, <1>5 DEF IsPrefix, w
    <2>2. \A k \in 1..Len(q) : q[k] = <<c, k>>
      BY <1>3, <2>1
    <2>3. QED
      BY <1>1, <2>1, <2>2 DEF Begins, Run
  <1>6. QED
    BY <1>4, <1>5

\* Of two beginnings of a content, the shorter one is a beginning of the other.
LEMMA BeginningsGrow ==
  ASSUME NEW c \in Content, NEW q \in Seq(Blocks), NEW r \in Seq(Blocks),
         Begins(q, c), Begins(r, c), Len(q) <= Len(r)
  PROVE  IsPrefix(q, r)
  <1> DEFINE w == SubSeq(r, 1, Len(q))
  <1>1. Len(q) \in Nat /\ Len(r) \in Nat /\ SubSeq(q, 1, Len(q)) = q
    BY SubSeqFull, LenProperties
  <1>2. ASSUME NEW k \in 1..Len(q) PROVE q[k] = r[k]
    <2>1. k \in 1..Len(r)
      BY <1>1
    <2>2. q[k] = <<c, 0 + k>> /\ r[k] = <<c, 0 + k>>
      BY <2>1 DEF Begins, Run
    <2>3. QED
      BY <2>2
  <1>3. w \in Seq(Blocks) /\ Len(w) = Len(q) /\ \A k \in 1..Len(q) : w[k] = r[k]
    BY <1>1
  <1> HIDE DEF w
  <1>4. q = w
    BY <1>2, <1>3, SeqEqual
  <1>5. QED
    BY <1>1, <1>4 DEF IsPrefix, w

-----------------------------------------------------------------------------
(* What a step of one session leaves to the others.                        *)

Stays(t) == tr'[t] = tr[t] /\ wire'[t] = wire[t] /\ local'[t] = local[t] /\ alive'[t] = alive[t]

LEMMA Lengths ==
  ASSUME TypeOK, NEW s \in Session
  PROVE  /\ tr[s] \in Transfers /\ tr[s].c \in Content
         /\ tr[s].pos \in Nat /\ tr[s].need \in Int /\ tr[s].next \in Int
         /\ wire[s] \in Seq(Blocks) /\ local[s] \in Seq(Blocks)
         /\ Len(wire[s]) \in Nat /\ Len(local[s]) \in Nat
         /\ \A c \in Content : /\ stored[c] \in Seq(Blocks) /\ Len(stored[c]) \in Nat
                              /\ Size[c] \in Nat \ {0} /\ Atoi(Size[c]) \in Int
                              /\ Atoi(Size[c]) <= Size[c] /\ Atoi(Size[c]) < IntMax
  BY LenProperties, AtoiRange, SizeAssumption DEF TypeOK, Transfers

LEMMA OtherKeeps ==
  ASSUME IInv, NEW t \in Session, Stays(t), clash \subseteq clash', t \in grew => t \in grew',
         \A c \in Content : Len(stored'[c]) \in Nat /\ Len(stored[c]) <= Len(stored'[c]),
         tr[t].op = "down" /\ t \notin grew' => stored'[tr[t].c] = stored[tr[t].c]
  PROVE  SessionInv(t)'
  <1>1. TypeOK /\ UpInv(t) /\ RunInv(t) /\ DownInv(t) /\ QuietInv(t)
    BY DEF IInv, SessionInv
  <1>2. UpInv(t)'
    BY <1>1, Lengths DEF UpInv, Start, Stays
  <1>3. RunInv(t)'
    BY <1>1 DEF RunInv, Run, Start, Stays
  <1>4. DownInv(t)'
    BY <1>1, Lengths DEF DownInv, Stays
  <1>5. QuietInv(t)'
    BY <1>1 DEF QuietInv, Stays
  <1>6. QED
    BY <1>2, <1>3, <1>4, <1>5 DEF SessionInv

\* All that has to be shown of a step that stores nothing.
LEMMA StepKeeps ==
  ASSUME IInv, NEW s \in Session, \A t \in Session \ {s} : Stays(t), clash \subseteq clash',
         grew \ {s} \subseteq grew', stored' = stored, TypeOK', SessionInv(s)'
  PROVE  IInv'
  <1>1. StoredInv'
    BY DEF IInv, StoredInv
  <1>2. ASSUME NEW t \in Session \ {s} PROVE SessionInv(t)'
    <2>1. t \in Session /\ Stays(t) /\ (t \in grew => t \in grew')
      OBVIOUS
    <2>2. \A c \in Content : Len(stored'[c]) \in Nat /\ Len(stored[c]) <= Len(stored'[c])
      BY Lengths DEF IInv
    <2>3. QED
      BY <2>1, <2>2, OtherKeeps
  <1>3. QED
    BY <1>1, <1>2 DEF IInv

-----------------------------------------------------------------------------
(* The actions.                                                            *)

LEMMA LeaveKeeps ==
  ASSUME IInv, NEW s \in Session, NEW l \in {Idle, Lost}, Leave(s, l),
         UNCHANGED <<stored, local, clash>>
  PROVE  IInv'
  <1>1. Idle \in Transfers /\ Lost \in Transfers /\ l.op \notin {"up", "down"}
    <2>1. (CHOOSE c \in Content : TRUE) \in Content
      BY ContentAssumption
    <2>2. PICK c \in Content : c = CHOOSE x \in Content : TRUE
      BY <2>1
    <2>3. Idle = [op |-> "none", pc |-> "idle", c |-> c, pos |-> 0, need |-> 0, next |-> 0]
      BY <2>2 DEF Idle
    <2>4. Lost = [op |-> "lost", pc |-> "idle", c |-> c, pos |-> 0, need |-> 0, next |-> 0]
      BY <2>3 DEF Lost
    <2>5. QED
      BY <2>3, <2>4 DEF Transfers
  <1>2. TypeOK'
    BY <1>1 DEF Leave, IInv, TypeOK
  <1>3. tr'[s] = l /\ wire'[s] = <<>>
    BY DEF Leave, IInv, TypeOK
  <1>4. SessionInv(s)'
    BY <1>1, <1>3 DEF SessionInv, UpInv, RunInv, DownInv, QuietInv
  <1>5. \A t \in Session \ {s} : Stays(t)
    BY DEF Leave, Stays, IInv, TypeOK
  <1>6. QED
    BY <1>2, <1>4, <1>5, StepKeeps DEF Leave

LEMMA UpStartKeeps ==
  ASSUME IInv, NEW s \in Session, NEW c \in Content, UpStart(s, c)
  PROVE  IInv'
  <1>1. TypeOK /\ QuietInv(s) /\ StoredInv
    BY DEF IInv, SessionInv
  <1>l. Left(c) \in Int /\ Resume(c) \in Nat
    BY <1>1, Lengths DEF Left, Resume
  <1>2. PICK need \in Int, next \in Nat :
          /\ tr' = [tr EXCEPT ![s] = [op |-> "up", pc |-> "seek", c |-> c, pos |-> 0,
                                     need |-> need, next |-> next]]
          /\ need = Atoi(Size[c]) - Len(stored[c]) /\ next = Len(stored[c])
    <2>1. PICK need \in Int, next \in Nat : need = Left(c) /\ next = Resume(c)
      BY <1>l
    <2>2. QED
      BY <2>1 DEF UpStart, Left, Resume
  <1>3. /\ tr'[s] = [op |-> "up", pc |-> "seek", c |-> c, pos |-> 0, need |-> need, next |-> next]
        /\ \A t \in Session \ {s} : tr'[t] = tr[t]
        /\ tr'[s] \in Transfers
    BY <1>1, <1>2 DEF TypeOK, Transfers
  <1>4. TypeOK'
    BY <1>1, <1>2, <1>3 DEF UpStart, TypeOK
  <1>5. wire'[s] = <<>> /\ stored' = stored /\ clash' = clash
    BY <1>1 DEF UpStart, QuietInv
  <1>6. UpInv(s)'
    <2>1. Len(wire'[s]) = 0
      BY <1>5
    <2>2. PICK start \in Int : start = Atoi(Size[c]) - need /\ next - 0 = start
      BY <1>1, <1>2, Lengths
    <2>3. QED
      BY <1>3, <2>1, <2>2 DEF UpInv, Start
  <1>7. RunInv(s)'
    <2>1. SUFFICES ASSUME c \notin clash PROVE next <= Size[c]
      BY <1>1, <1>2, <1>3, <1>5, Lengths DEF RunInv, Start, Run
    <2>2. QED
      BY <1>1, <1>2, <2>1, Lengths DEF StoredInv, Begins, Run
  <1>8. DownInv(s)' /\ QuietInv(s)'
    BY <1>3 DEF DownInv, QuietInv
  <1>9. QED
    BY <1>3, <1>4, <1>5, <1>6, <1>7, <1>8, StepKeeps DEF UpStart, SessionInv, Stays

LEMMA UpSendKeeps ==
  ASSUME IInv, NEW s \in Session, UpSend(s)
  PROVE  IInv'
  <1>1. /\ TypeOK /\ UpInv(s) /\ RunInv(s)
        /\ tr[s].op = "up" /\ alive[s] /\ tr[s].next < Size[tr[s].c]
    BY DEF IInv, SessionInv, UpSend
  <1>2. PICK c \in Content, next \in Nat : c = tr[s].c /\ next = tr[s].next
    BY <1>1, Lengths DEF UpInv
  <1>3. <<c, next + 1>> \in Blocks
    BY <1>1, <1>2, SizeAssumption DEF Blocks
  <1>4. /\ wire' = [wire EXCEPT ![s] = Append(wire[s], <<c, next + 1>>)]
        /\ tr' = [tr EXCEPT ![s].next = next + 1]
        /\ UNCHANGED <<stored, local, alive, clash, grew, mixed>>
    BY <1>2 DEF UpSend
  <1>5. /\ wire'[s] \in Seq(Blocks) /\ Len(wire'[s]) = Len(wire[s]) + 1
        /\ \A k \in 1..Len(wire[s]) : wire'[s][k] = wire[s][k]
        /\ wire'[s][Len(wire[s]) + 1] = <<c, next + 1>>
    BY <1>1, <1>3, <1>4, Lengths, Added DEF TypeOK
  <1>6. /\ tr'[s].op = "up" /\ tr'[s].pc = tr[s].pc /\ tr'[s].c = c /\ tr'[s].pos = tr[s].pos
        /\ tr'[s].need = tr[s].need /\ tr'[s].next = next + 1 /\ tr' \in [Session -> Transfers]
    <2>1. tr \in [Session -> Transfers]
      BY <1>1 DEF TypeOK
    <2>2. tr' = [tr EXCEPT ![s] = [tr[s] EXCEPT !.next = next + 1]]
      BY <1>4
    <2>3. [tr[s] EXCEPT !.next = next + 1] \in Transfers
      BY <2>1 DEF Transfers
    <2>4. tr'[s] = [tr[s] EXCEPT !.next = next + 1] /\ tr' \in [Session -> Transfers]
      BY <2>1, <2>2, <2>3
    <2>5. QED
      BY <1>1, <1>2, <2>1, <2>4 DEF Transfers
  <1>7. TypeOK'
    BY <1>1, <1>4, <1>5, <1>6 DEF TypeOK
  <1>8. UpInv(s)'
    <2>1. PICK len \in Nat, start \in Int : len = Len(wire[s]) /\ start = Atoi(Size[c]) - tr[s].need
      BY <1>1, Lengths
    <2>2. next - len >= start /\ (alive[s] => next - len = start)
      BY <1>1, <1>2, <2>1 DEF UpInv, Start
    <2>3. /\ next - len >= start => (next + 1) - (len + 1) >= start
          /\ next - len = start => (next + 1) - (len + 1) = start
      OBVIOUS
    <2>4. (next + 1) - (len + 1) >= start /\ (alive[s] => (next + 1) - (len + 1) = start)
      BY <2>2, <2>3
    <2>5. /\ tr[s].pc \in {"seek", "receive"}
          /\ tr[s].pc = "receive" => tr[s].pos <= Len(stored[c])
      BY <1>1, <1>2 DEF UpInv
    <2>6. QED
      BY <1>4, <1>5, <1>6, <2>1, <2>4, <2>5 DEF UpInv, Start
  <1>9. RunInv(s)'
    <2>1. SUFFICES ASSUME c \notin clash PROVE RunInv(s)'
      BY <1>4, <1>6 DEF RunInv
    <2>2. PICK i \in Int : i = Start(s) /\ i = Start(s)' /\ next = i + Len(wire[s])
      BY <1>1, <1>2, <1>6, Lengths DEF Start, UpInv
    <2>3. Run(wire[s], c, i)
      BY <1>1, <1>2, <2>1, <2>2 DEF RunInv
    <2>4. Run(wire'[s], c, i)
      <3> PICK len \in Nat : len = Len(wire[s])
        BY <1>1, Lengths
      <3>1. i + Len(wire'[s]) <= Size[c]
        <4>1. PICK size \in Nat : size = Size[c] /\ next < size
          BY <1>1, <1>2, SizeAssumption
        <4>2. next = i + len
          BY <2>2
        <4>3. i + (len + 1) <= size
          BY <4>1, <4>2
        <4>4. QED
          BY <1>5, <4>1, <4>3
      <3>2. ASSUME NEW k \in 1..(len + 1) PROVE wire'[s][k] = <<c, i + k>>
        <4>1. CASE k \in 1..len
          BY <1>5, <2>3, <4>1 DEF Run
        <4>2. CASE k = len + 1
          <5>1. next + 1 = i + k
            BY <2>2, <4>2
          <5>2. QED
            BY <1>5, <4>2, <5>1
        <4>3. QED
          BY <4>1, <4>2
      <3>3. QED
        BY <1>5, <3>1, <3>2 DEF Run
    <2>5. QED
      BY <1>1, <1>2, <1>6, <2>1, <2>2, <2>4, Lengths DEF RunInv
  <1>10. DownInv(s)' /\ QuietInv(s)'
    BY <1>6 DEF DownInv, QuietInv
  <1>11. \A t \in Session \ {s} : Stays(t)
    BY <1>4 DEF Stays
  <1>12. QED
    BY <1>4, <1>7, <1>8, <1>9, <1>10, <1>11, StepKeeps DEF SessionInv

LEMMA Changed ==
  ASSUME TypeOK, NEW s \in Session, NEW l \in Transfers, tr' = [tr EXCEPT ![s] = l]
  PROVE  tr' \in [Session -> Transfers] /\ tr'[s] = l /\ \A t \in Session \ {s} : tr'[t] = tr[t]
  BY DEF TypeOK

LEMMA UpSeekKeeps ==
  ASSUME IInv, NEW s \in Session, UpSeek(s)
  PROVE  IInv'
  <1>1. /\ TypeOK /\ UpInv(s) /\ RunInv(s) /\ tr \in [Session -> Transfers]
        /\ tr[s].op = "up" /\ tr[s].pc = "seek"
    BY DEF IInv, SessionInv, UpSeek, At, TypeOK
  <1>2. PICK c \in Content, len \in Nat : c = tr[s].c /\ len = Len(stored[c])
    BY <1>1, Lengths
  <1>3. /\ tr' = [tr EXCEPT ![s] = [tr[s] EXCEPT !.pc = "receive", !.pos = len]]
        /\ clash' = IF Atoi(Size[c]) - len = tr[s].need THEN clash ELSE clash \union {c}
        /\ UNCHANGED <<stored, local, wire, alive, grew, mixed>>
    BY <1>1, <1>2 DEF UpSeek, SeekEnd, Left
  <1>4. /\ [tr[s] EXCEPT !.pc = "receive", !.pos = len] \in Transfers
    BY <1>1, <1>2 DEF Transfers
  <1>5. /\ tr' \in [Session -> Transfers] /\ \A t \in Session \ {s} : tr'[t] = tr[t]
        /\ tr'[s] = [tr[s] EXCEPT !.pc = "receive", !.pos = len]
    BY <1>1, <1>3, <1>4, Changed
  <1>6. /\ tr'[s].op = "up" /\ tr'[s].pc = "receive" /\ tr'[s].c = c /\ tr'[s].pos = len
        /\ tr'[s].need = tr[s].need /\ tr'[s].next = tr[s].next
    BY <1>1, <1>2, <1>5 DEF Transfers
  <1>7. TypeOK'
    BY <1>1, <1>3, <1>5 DEF TypeOK
  <1>8. UpInv(s)'
    BY <1>1, <1>2, <1>3, <1>6, Lengths DEF UpInv, Start
  <1>9. RunInv(s)'
    <2>1. SUFFICES ASSUME c \notin clash' PROVE RunInv(s)'
      BY <1>6 DEF RunInv
    <2>2. c \notin clash /\ Atoi(Size[c]) - len = tr[s].need
      BY <1>3, <2>1
    <2>3. PICK i \in Int : i = Start(s) /\ i = Start(s)' /\ i = len
      BY <1>1, <1>2, <1>6, <2>2, Lengths DEF Start
    <2>4. Run(wire[s], c, i) /\ tr[s].next <= Size[c]
      BY <1>1, <1>2, <2>2, <2>3 DEF RunInv
    <2>5. wire' = wire
      BY <1>3
    <2>6. QED
      BY <1>6, <2>3, <2>4, <2>5 DEF RunInv
  <1>10. DownInv(s)' /\ QuietInv(s)'
    BY <1>6 DEF DownInv, QuietInv
  <1>11. \A t \in Session \ {s} : Stays(t)
    BY <1>3, <1>5 DEF Stays
  <1>12. clash \subseteq clash' /\ grew' = grew /\ stored' = stored
    BY <1>3
  <1>13. QED
    BY <1>7, <1>8, <1>9, <1>10, <1>11, <1>12, StepKeeps DEF SessionInv

LEMMA ClientLeavesKeeps ==
  ASSUME IInv, NEW s \in Session, NEW n \in 0..Len(wire[s]), ClientLeaves(s, n)
  PROVE  IInv'
  <1>1. TypeOK /\ UpInv(s) /\ RunInv(s) /\ tr[s].op = "up" /\ alive[s]
    BY DEF IInv, SessionInv, ClientLeaves
  <1>2. /\ alive' = [alive EXCEPT ![s] = FALSE] /\ wire' = [wire EXCEPT ![s] = SubSeq(wire[s], 1, n)]
        /\ UNCHANGED <<stored, local, tr, clash, grew, mixed>>
    BY DEF ClientLeaves
  <1>3. SubSeq(wire[s], 1, n) \in Seq(Blocks)
    BY <1>1, Lengths, First
  <1>4. /\ wire'[s] = SubSeq(wire[s], 1, n) /\ alive'[s] = FALSE
        /\ \A t \in Session \ {s} : wire'[t] = wire[t] /\ alive'[t] = alive[t]
    BY <1>1, <1>2 DEF TypeOK
  <1>5. /\ Len(wire'[s]) = n /\ n <= Len(wire[s]) /\ n \in Nat
        /\ \A k \in 1..n : wire'[s][k] = wire[s][k]
    BY <1>1, <1>4, Lengths, First
  <1>6. TypeOK'
    BY <1>1, <1>2, <1>3 DEF TypeOK
  <1>7. UpInv(s)'
    BY <1>1, <1>2, <1>4, <1>5, Lengths DEF UpInv, Start
  <1>8. RunInv(s)'
    <2>1. SUFFICES ASSUME tr[s].c \notin clash PROVE RunInv(s)'
      BY <1>2 DEF RunInv
    <2>2. PICK i \in Int : i = Start(s) /\ i = Start(s)'
      BY <1>1, <1>2, Lengths DEF Start
    <2>3. PICK c \in Content : c = tr[s].c
      BY <1>1, Lengths
    <2>4. Run(wire[s], c, i)
      BY <1>1, <2>1, <2>2, <2>3 DEF RunInv
    <2>5. Run(wire'[s], c, i)
      <3>1. i + n <= Size[c]
        BY <1>1, <1>5, <2>4, Lengths DEF Run
      <3>2. ASSUME NEW k \in 1..n PROVE wire'[s][k] = <<c, i + k>>
        <4>1. k \in 1..Len(wire[s])
          BY <1>1, <1>5, Lengths
        <4>2. QED
          BY <1>5, <2>4, <4>1 DEF Run
      <3>3. QED
        BY <1>5, <3>1, <3>2 DEF Run
    <2>6. QED
      BY <1>1, <1>2, <2>1, <2>2, <2>3, <2>5 DEF RunInv
  <1>9. DownInv(s)' /\ QuietInv(s)'
    BY <1>1, <1>2 DEF DownInv, QuietInv
  <1>10. \A t \in Session \ {s} : Stays(t)
    BY <1>2, <1>4 DEF Stays
  <1>11. QED
    BY <1>2, <1>6, <1>7, <1>8, <1>9, <1>10, StepKeeps DEF SessionInv

\* What a block written over the stored copy, or at its end, leaves.
LEMMA UpReceiveKeeps ==
  ASSUME IInv, NEW s \in Session, NEW n \in 1..Chunk, UpReceive(s, n)
  PROVE  IInv' /\ \A d \in Content : Len(stored[d]) <= Len(stored'[d])
  <1>1. /\ TypeOK /\ StoredInv /\ UpInv(s) /\ RunInv(s) /\ tr \in [Session -> Transfers]
        /\ tr[s].op = "up" /\ tr[s].pc = "receive" /\ n <= Len(wire[s])
    BY DEF IInv, SessionInv, UpReceive, At, TypeOK
  <1>2. PICK c \in Content, pos \in Nat, blocks \in Seq(Blocks) :
          /\ c = tr[s].c /\ pos = tr[s].pos /\ blocks = SubSeq(wire[s], 1, n)
    <2>1. n \in 0..Len(wire[s])
      BY <1>1, Lengths, WidthAssumption
    <2>2. SubSeq(wire[s], 1, n) \in Seq(Blocks)
      BY <1>1, <2>1, Lengths, First
    <2>3. QED
      BY <1>1, <2>2, Lengths
  <1>3. n \in Nat \ {0} /\ n \in 0..Len(wire[s]) /\ pos <= Len(stored[c])
    BY <1>1, <1>2, Lengths, WidthAssumption DEF UpInv
  <1>4. Len(blocks) = n /\ \A k \in 1..n : blocks[k] = wire[s][k]
    BY <1>1, <1>2, <1>3, Lengths, First
  <1>5. PICK new : new = Written(stored[c], pos, blocks)
    OBVIOUS
  <1>6. /\ new \in Seq(Blocks)
        /\ Len(new) = IF pos + n > Len(stored[c]) THEN pos + n ELSE Len(stored[c])
        /\ \A k \in 1..Len(stored[c]) : k <= pos \/ k > pos + n => new[k] = stored[c][k]
        /\ \A k \in 1..n : new[pos + k] = wire[s][k]
    <2>1. stored[c] \in Seq(Blocks)
      BY <1>1, Lengths
    <2>2. PICK old \in Seq(Blocks) : old = stored[c]
      BY <2>1
    <2>3. /\ new \in Seq(Blocks)
          /\ Len(new) = IF pos + Len(blocks) > Len(old) THEN pos + Len(blocks) ELSE Len(old)
          /\ \A k \in 1..Len(old) : k <= pos \/ k > pos + Len(blocks) => new[k] = old[k]
          /\ \A k \in 1..Len(blocks) : new[pos + k] = blocks[k]
      <3>1. pos <= Len(old)
        BY <1>3, <2>2
      <3>2. new = Written(old, pos, blocks)
        BY <1>5, <2>2
      <3>3. QED
        BY <3>1, <3>2, WrittenIs
    <2>4. QED
      BY <1>4, <2>2, <2>3
  <1>7. /\ stored' = [stored EXCEPT ![c] = new]
        /\ wire' = [wire EXCEPT ![s] = SubSeq(wire[s], n + 1, Len(wire[s]))]
        /\ tr' = [tr EXCEPT ![s] = [tr[s] EXCEPT !.pos = pos + n, !.need = tr[s].need - n]]
        /\ grew' = grew \union {t \in Session : tr[t].op = "down" /\ tr[t].c = c}
        /\ UNCHANGED <<local, alive, clash, mixed>>
    BY <1>1, <1>2, <1>5 DEF UpReceive
  <1>8. /\ stored'[c] = new /\ \A d \in Content \ {c} : stored'[d] = stored[d]
        /\ stored' \in [Content -> Seq(Blocks)]
    BY <1>1, <1>6, <1>7 DEF TypeOK
  <1>9. /\ wire'[s] \in Seq(Blocks) /\ Len(wire'[s]) = Len(wire[s]) - n
        /\ \A k \in 1..(Len(wire[s]) - n) : wire'[s][k] = wire[s][n + k]
        /\ wire' \in [Session -> Seq(Blocks)] /\ \A t \in Session \ {s} : wire'[t] = wire[t]
    <2>1. PICK w \in Seq(Blocks) : w = wire[s]
      BY <1>1, Lengths
    <2>2. PICK rest \in Seq(Blocks) :
            /\ rest = SubSeq(w, n + 1, Len(w)) /\ Len(rest) = Len(w) - n
            /\ \A k \in 1..(Len(w) - n) : rest[k] = w[n + k]
      <3>1. n \in 0..Len(w)
        BY <1>3, <2>1
      <3>2. /\ SubSeq(w, n + 1, Len(w)) \in Seq(Blocks) /\ Len(SubSeq(w, n + 1, Len(w))) = Len(w) - n
            /\ \A k \in 1..(Len(w) - n) : SubSeq(w, n + 1, Len(w))[k] = w[n + k]
        BY <3>1, Rest
      <3>3. QED
        BY <3>2
    <2>3. wire \in [Session -> Seq(Blocks)] /\ wire' = [wire EXCEPT ![s] = rest]
      BY <1>1, <1>7, <2>1, <2>2 DEF TypeOK
    <2>4. /\ wire'[s] = rest /\ wire' \in [Session -> Seq(Blocks)]
          /\ \A t \in Session \ {s} : wire'[t] = wire[t]
      BY <2>3
    <2>5. QED
      BY <2>1, <2>2, <2>4
  <1>10. [tr[s] EXCEPT !.pos = pos + n, !.need = tr[s].need - n] \in Transfers
    <2>1. pos + n \in Nat /\ tr[s].need - n \in Int
      BY <1>1, <1>3, Lengths
    <2>2. PICK p \in Nat, d \in Int : p = pos + n /\ d = tr[s].need - n
      BY <2>1
    <2>3. [tr[s] EXCEPT !.pos = p, !.need = d] \in Transfers
      BY <1>1 DEF Transfers
    <2>4. QED
      BY <2>2, <2>3
  <1>11. /\ tr' \in [Session -> Transfers] /\ \A t \in Session \ {s} : tr'[t] = tr[t]
         /\ tr'[s] = [tr[s] EXCEPT !.pos = pos + n, !.need = tr[s].need - n]
    BY <1>1, <1>7, <1>10, Changed
  <1>12. /\ tr'[s].op = "up" /\ tr'[s].pc = "receive" /\ tr'[s].c = c /\ tr'[s].pos = pos + n
         /\ tr'[s].need = tr[s].need - n /\ tr'[s].next = tr[s].next
    BY <1>1, <1>2, <1>11 DEF Transfers
  <1>13. TypeOK'
    BY <1>1, <1>7, <1>8, <1>9, <1>11 DEF TypeOK
  <1>14. StoredInv'
    <2>1. SUFFICES ASSUME c \notin clash PROVE Begins(new, c)
      BY <1>1, <1>7, <1>8 DEF StoredInv
    <2>2. Begins(stored[c], c)
      BY <1>1, <2>1 DEF StoredInv
    <2>3. Run(wire[s], c, pos)
      BY <1>1, <1>2, <2>1 DEF RunInv
    <2>4. Len(new) <= Size[c]
      BY <1>1, <1>3, <1>6, <2>2, <2>3, Lengths DEF Begins, Run
    <2>5. ASSUME NEW k \in 1..Len(new) PROVE new[k] = <<c, 0 + k>>
      <3>1. CASE k \in 1..Len(stored[c]) /\ (k <= pos \/ k > pos + n)
        BY <1>6, <2>2, <3>1 DEF Begins, Run
      <3>2. CASE k \in (pos + 1)..(pos + n)
        <4>1. PICK j \in 1..n : k = pos + j
          BY <1>3, <3>2
        <4>2. wire[s][j] = <<c, pos + j>>
          <5>1. j \in 1..Len(wire[s])
            BY <1>3
          <5>2. QED
            BY <2>3, <5>1 DEF Run
        <4>3. new[k] = wire[s][j]
          BY <1>6, <4>1
        <4>4. pos + j = 0 + k
          BY <4>1
        <4>5. QED
          BY <4>2, <4>3, <4>4
      <3>3. QED
        BY <1>1, <1>3, <1>6, <3>1, <3>2, Lengths
    <2>6. QED
      BY <1>1, <1>6, <2>4, <2>5, Lengths DEF Begins, Run
  <1>15. UpInv(s)'
    <2>1. /\ tr[s].next >= 0 /\ tr[s].next - Len(wire[s]) >= Atoi(Size[c]) - tr[s].need
          /\ alive[s] => tr[s].next - Len(wire[s]) = Atoi(Size[c]) - tr[s].need
      BY <1>1, <1>2 DEF UpInv, Start
    <2>2. /\ tr[s].next - (Len(wire[s]) - n) >= Atoi(Size[c]) - (tr[s].need - n)
          /\ alive[s] => tr[s].next - (Len(wire[s]) - n) = Atoi(Size[c]) - (tr[s].need - n)
      <3>1. PICK a \in Int, b \in Int, x \in Int, y \in Int :
              a = tr[s].next /\ b = Len(wire[s]) /\ x = Atoi(Size[c]) /\ y = tr[s].need
        BY <1>1, Lengths
      <3>2. /\ a - b >= x - y => a - (b - n) >= x - (y - n)
            /\ a - b = x - y => a - (b - n) = x - (y - n)
        BY <1>3
      <3>3. QED
        BY <2>1, <3>1, <3>2
    <2>3. pos + n <= Len(new)
      BY <1>1, <1>3, <1>6, Lengths
    <2>4. alive' = alive
      BY <1>7
    <2>5. QED
      BY <1>8, <1>9, <1>12, <2>1, <2>2, <2>3, <2>4 DEF UpInv, Start
  <1>16. RunInv(s)'
    <2>1. SUFFICES ASSUME c \notin clash PROVE RunInv(s)'
      BY <1>7, <1>12 DEF RunInv
    <2>2. Run(wire[s], c, pos) /\ pos = Start(s)
      BY <1>1, <1>2, <2>1 DEF RunInv
    <2>3. Start(s)' = pos + n
      BY <1>1, <1>2, <1>3, <1>12, <2>2, Lengths DEF Start
    <2>4. Run(wire'[s], c, pos + n)
      <3>1. pos + n + Len(wire'[s]) <= Size[c]
        BY <1>1, <1>3, <1>9, <2>2, Lengths DEF Run
      <3>2. ASSUME NEW k \in 1..Len(wire'[s]) PROVE wire'[s][k] = <<c, (pos + n) + k>>
        <4> PICK len \in Nat : len = Len(wire[s])
          BY <1>1, Lengths
        <4>a. k \in 1..(len - n) /\ n <= len
          BY <1>3, <1>9
        <4>b. n + k \in 1..len /\ pos + (n + k) = (pos + n) + k
          BY <1>3, <4>a
        <4>1. k \in 1..(Len(wire[s]) - n) /\ n + k \in 1..Len(wire[s]) /\ pos + (n + k) = (pos + n) + k
          BY <4>a, <4>b
        <4>2. wire[s][n + k] = <<c, pos + (n + k)>>
          BY <2>2, <4>1 DEF Run
        <4>3. QED
          BY <1>9, <4>1, <4>2
      <3>3. QED
        BY <3>1, <3>2 DEF Run
    <2>5. QED
      BY <1>1, <1>2, <1>7, <1>12, <2>1, <2>3, <2>4 DEF RunInv
  <1>17. DownInv(s)' /\ QuietInv(s)'
    BY <1>12 DEF DownInv, QuietInv
  <1>18. \A d \in Content : Len(stored'[d]) \in Nat /\ Len(stored[d]) <= Len(stored'[d])
    <2>1. Len(new) \in Nat /\ Len(stored[c]) <= Len(new)
      BY <1>1, <1>3, <1>6, Lengths
    <2>2. ASSUME NEW d \in Content \ {c}
          PROVE  Len(stored'[d]) \in Nat /\ Len(stored[d]) <= Len(stored'[d])
      BY <1>1, <1>8, Lengths
    <2>3. QED
      BY <1>8, <2>1, <2>2
  <1>19. ASSUME NEW t \in Session \ {s} PROVE SessionInv(t)'
    <2>1. Stays(t) /\ clash \subseteq clash' /\ (t \in grew => t \in grew')
      BY <1>7, <1>9, <1>11 DEF Stays
    <2>2. tr[t].op = "down" /\ t \notin grew' => stored'[tr[t].c] = stored[tr[t].c]
      BY <1>1, <1>7, <1>8, Lengths
    <2>3. QED
      BY <1>18, <2>1, <2>2, OtherKeeps
  <1>20. QED
    BY <1>13, <1>14, <1>15, <1>16, <1>17, <1>18, <1>19 DEF IInv, SessionInv

LEMMA DownStartKeeps ==
  ASSUME IInv, NEW s \in Session, NEW c \in Content, NEW file \in {local[s], <<>>},
         DownStart(s, c, file)
  PROVE  IInv'
  <1>1. TypeOK /\ QuietInv(s)
    BY DEF IInv, SessionInv
  <1>2. file \in Seq(Blocks)
    BY <1>1, Lengths, EmptySeq
  <1>3. PICK have \in Nat, len \in Nat, offset \in Int :
          /\ have = Len(file) /\ len = Len(stored[c]) /\ offset = Atoi(Len(file))
          /\ offset < 0 => have >= IntMax
          /\ offset >= 0 \/ have >= IntMax
    <2>1. Len(file) \in Nat /\ Len(stored[c]) \in Nat /\ Atoi(Len(file)) \in Int /\ IntMax \in Nat
      BY <1>1, <1>2, LenProperties, Lengths, AtoiRange, WidthAssumption
    <2>2. Atoi(Len(file)) < 0 => Len(file) >= IntMax
      BY <2>1, AtoiSmall
    <2>3. QED
      BY <2>1, <2>2
  <1>4. PICK need \in Int, pos \in Nat, place \in {"send", "sendfile"} :
          /\ need = IF len - offset >= Big /\ offset < 0 THEN 0 ELSE len - offset
          /\ pos = IF offset < 0 THEN 0 ELSE offset
          /\ place = IF len - offset < Big THEN "send" ELSE "sendfile"
    <2>1. (IF len - offset >= Big /\ offset < 0 THEN 0 ELSE len - offset) \in Int
      OBVIOUS
    <2>2. (IF offset < 0 THEN 0 ELSE offset) \in Nat
      OBVIOUS
    <2>3. (IF len - offset < Big THEN "send" ELSE "sendfile") \in {"send", "sendfile"}
      OBVIOUS
    <2>4. QED
      BY <2>1, <2>2, <2>3
  <1>5. PICK next \in Int : next = have + (len - offset)
    OBVIOUS
  <1>6. /\ tr[s].op = "none"
        /\ tr' = [tr EXCEPT ![s] = [op |-> "down", pc |-> place, c |-> c, pos |-> pos,
                                   need |-> need, next |-> next]]
        /\ local' = [local EXCEPT ![s] = file]
        /\ mixed' = IF IsPrefix(file, Whole(c)) THEN mixed ELSE mixed \union {s}
        /\ UNCHANGED <<stored, wire, alive, clash, grew>>
    BY <1>3, <1>4, <1>5 DEF DownStart, Seek
  <1>7. [op |-> "down", pc |-> place, c |-> c, pos |-> pos, need |-> need, next |-> next] \in Transfers
    BY DEF Transfers
  <1>8. /\ tr' \in [Session -> Transfers] /\ \A t \in Session \ {s} : tr'[t] = tr[t]
        /\ tr'[s] = [op |-> "down", pc |-> place, c |-> c, pos |-> pos, need |-> need, next |-> next]
    BY <1>1, <1>6, <1>7, Changed
  <1>9. TypeOK'
    BY <1>1, <1>2, <1>6, <1>8 DEF TypeOK
  <1>10. local'[s] = file /\ wire'[s] = <<>> /\ \A t \in Session \ {s} : local'[t] = local[t]
    BY <1>1, <1>6 DEF QuietInv, TypeOK
  <1>11. Len(wire'[s]) = 0
    BY <1>10
  <1>12. DownInv(s)'
    <2>1. \/ need + have + 0 = next
          \/ have >= IntMax /\ need = 0
      BY <1>3, <1>4, <1>5
    <2>2. (need > 0 => pos <= len) /\ (need > 0 => len - pos <= need)
      BY <1>4
    <2>3. QED
      BY <1>3, <1>6, <1>8, <1>10, <1>11, <2>1, <2>2 DEF DownInv
  <1>13. UpInv(s)' /\ RunInv(s)' /\ QuietInv(s)'
    BY <1>8 DEF UpInv, RunInv, QuietInv
  <1>14. \A t \in Session \ {s} : Stays(t)
    BY <1>6, <1>8, <1>10 DEF Stays
  <1>15. QED
    BY <1>6, <1>9, <1>12, <1>13, <1>14, StepKeeps DEF SessionInv

\* One block to send, of those that are there.
LEMMA PortionIs ==
  ASSUME TypeOK, NEW s \in Session, tr[s].need > 0, tr[s].pos <= Len(stored[tr[s].c])
  PROVE  /\ Portion(s) \in Nat /\ tr[s].pos + Portion(s) <= Len(stored[tr[s].c])
         /\ Portion(s) <= tr[s].need \/ Len(stored[tr[s].c]) - tr[s].pos > tr[s].need
  <1>1. PICK pos \in Nat, need \in Int, len \in Nat :
          pos = tr[s].pos /\ need = tr[s].need /\ len = Len(stored[tr[s].c])
    BY Lengths
  <1>2. need > 0 /\ pos <= len /\ Chunk \in Nat
    BY <1>1, WidthAssumption
  <1>3. PICK n \in Nat : n = Portion(s) /\ n <= len - pos
    <2>1. CASE tr[s].pc = "sendfile"
      <3>1. Portion(s) = Least(Chunk, Least(need, len - pos))
        BY <1>1, <2>1 DEF Portion
      <3>2. Least(need, len - pos) \in Nat /\ Least(need, len - pos) <= len - pos
        BY <1>2 DEF Least
      <3>3. Portion(s) \in Nat /\ Portion(s) <= len - pos
        BY <1>2, <3>1, <3>2 DEF Least
      <3>4. QED
        BY <3>3
    <2>2. CASE tr[s].pc # "sendfile"
      <3>1. Portion(s) = Least(Chunk, len - pos)
        BY <1>1, <2>2 DEF Portion
      <3>2. Portion(s) \in Nat /\ Portion(s) <= len - pos
        BY <1>2, <3>1 DEF Least
      <3>3. QED
        BY <3>2
    <2>3. QED
      BY <2>1, <2>2
  <1>4. n <= len - pos /\ pos <= len => pos + n <= len /\ (n <= need \/ len - pos > need)
    OBVIOUS
  <1>5. pos + n <= len /\ (n <= need \/ len - pos > need)
    BY <1>2, <1>3, <1>4
  <1>6. QED
    BY <1>1, <1>3, <1>5

LEMMA DownSendKeeps ==
  ASSUME IInv, NEW s \in Session, DownSend(s)
  PROVE  IInv'
  <1>1. /\ TypeOK /\ DownInv(s) /\ tr \in [Session -> Transfers]
        /\ tr[s].op = "down" /\ tr[s].need > 0
    BY DEF IInv, SessionInv, DownSend, TypeOK
  <1>2. tr[s].pos <= Len(stored[tr[s].c])
    BY <1>1 DEF DownInv
  <1>3. PICK c \in Content, pos \in Nat, need \in Int, len \in Nat, n \in Nat :
          /\ c = tr[s].c /\ pos = tr[s].pos /\ need = tr[s].need /\ len = Len(stored[c])
          /\ n = Portion(s) /\ pos + n <= len /\ (n <= need \/ len - pos > need)
    BY <1>1, <1>2, Lengths, PortionIs
  <1>4. PICK sent \in Seq(Blocks) :
          /\ sent = SubSeq(stored[c], pos + 1, pos + n) /\ Len(sent) = n
          /\ \A k \in 1..n : sent[k] = stored[c][pos + k]
    <2>1. PICK q \in Seq(Blocks) : q = stored[c]
      BY <1>1, Lengths
    <2>2. pos + n \in Nat /\ pos <= pos + n /\ pos + n <= Len(q) /\ (pos + n) - pos = n
      BY <1>3, <2>1
    <2>3. /\ SubSeq(q, pos + 1, pos + n) \in Seq(Blocks) /\ Len(SubSeq(q, pos + 1, pos + n)) = (pos + n) - pos
          /\ \A k \in 1..((pos + n) - pos) : SubSeq(q, pos + 1, pos + n)[k] = q[pos + k]
      BY <2>2, Part
    <2>4. QED
      BY <2>1, <2>2, <2>3
  <1>5. /\ wire' = [wire EXCEPT ![s] = wire[s] \o sent]
        /\ tr' = [tr EXCEPT ![s] = [tr[s] EXCEPT !.pos = pos + n, !.need = need - n]]
        /\ UNCHANGED <<stored, local, alive, clash, grew, mixed>>
    BY <1>1, <1>3, <1>4 DEF DownSend
  <1>6. /\ wire[s] \o sent \in Seq(Blocks) /\ Len(wire[s] \o sent) = Len(wire[s]) + n
    <2>1. PICK w \in Seq(Blocks) : w = wire[s]
      BY <1>1, Lengths
    <2>2. w \o sent \in Seq(Blocks) /\ Len(w \o sent) = Len(w) + Len(sent)
      BY Joined
    <2>3. QED
      BY <1>4, <2>1, <2>2
  <1>7. /\ wire' \in [Session -> Seq(Blocks)] /\ wire'[s] = wire[s] \o sent
        /\ \A t \in Session \ {s} : wire'[t] = wire[t]
    BY <1>1, <1>5, <1>6 DEF TypeOK
  <1>8. [tr[s] EXCEPT !.pos = pos + n, !.need = need - n] \in Transfers
    <2>1. PICK p \in Nat, d \in Int : p = pos + n /\ d = need - n
      OBVIOUS
    <2>2. [tr[s] EXCEPT !.pos = p, !.need = d] \in Transfers
      BY <1>1 DEF Transfers
    <2>3. QED
      BY <2>1, <2>2
  <1>9. /\ tr' \in [Session -> Transfers] /\ \A t \in Session \ {s} : tr'[t] = tr[t]
        /\ tr'[s] = [tr[s] EXCEPT !.pos = pos + n, !.need = need - n]
    BY <1>1, <1>5, <1>8, Changed
  <1>10. /\ tr'[s].op = "down" /\ tr'[s].c = c /\ tr'[s].pos = pos + n
         /\ tr'[s].need = need - n /\ tr'[s].next = tr[s].next
    BY <1>1, <1>3, <1>9 DEF Transfers
  <1>11. TypeOK'
    BY <1>1, <1>5, <1>7, <1>9 DEF TypeOK
  <1>12. DownInv(s)'
    <2>1. PICK have \in Nat, under \in Nat, next \in Int :
            have = Len(local[s]) /\ under = Len(wire[s]) /\ next = tr[s].next
      BY <1>1, Lengths
    <2>2. need + have + under = next /\ (s \notin grew => len - pos <= need)
      BY <1>1, <1>3, <2>1 DEF DownInv
    <2>3. /\ (need - n) + have + (under + n) = next
          /\ pos + n <= len
          /\ s \notin grew => need - n >= 0 /\ len - (pos + n) <= need - n
      <3>1. need + have + under = next => (need - n) + have + (under + n) = next
        OBVIOUS
      <3>2. pos + n <= len /\ (len - pos <= need => need - n >= 0 /\ len - (pos + n) <= need - n)
        <4>1. pos + n <= len /\ (n <= need \/ len - pos > need)
          BY <1>3
        <4>2. QED
          BY <4>1
      <3>3. QED
        BY <2>2, <3>1, <3>2
    <2>4. local' = local /\ stored' = stored /\ grew' = grew
      BY <1>5
    <2>5. QED
      BY <1>3, <1>6, <1>7, <1>10, <2>1, <2>3, <2>4 DEF DownInv
  <1>13. UpInv(s)' /\ RunInv(s)' /\ QuietInv(s)'
    BY <1>10 DEF UpInv, RunInv, QuietInv
  <1>14. \A t \in Session \ {s} : Stays(t)
    BY <1>5, <1>7, <1>9 DEF Stays
  <1>15. QED
    BY <1>5, <1>11, <1>12, <1>13, <1>14, StepKeeps DEF SessionInv

LEMMA DownReceiveKeeps ==
  ASSUME IInv, NEW s \in Session, NEW n \in 1..Chunk, DownReceive(s, n)
  PROVE  IInv'
  <1>1. TypeOK /\ DownInv(s) /\ tr[s].op = "down" /\ n <= Len(wire[s])
    BY DEF IInv, SessionInv, DownReceive
  <1>2. n \in Nat \ {0} /\ n \in 0..Len(wire[s])
    BY <1>1, Lengths, WidthAssumption
  <1>3. PICK got \in Seq(Blocks), rest \in Seq(Blocks) :
          /\ got = SubSeq(wire[s], 1, n) /\ rest = SubSeq(wire[s], n + 1, Len(wire[s]))
          /\ Len(got) = n /\ Len(rest) = Len(wire[s]) - n
    <2>1. PICK w \in Seq(Blocks) : w = wire[s]
      BY <1>1, Lengths
    <2>2. SubSeq(w, 1, n) \in Seq(Blocks) /\ Len(SubSeq(w, 1, n)) = n
      BY <1>2, <2>1, First
    <2>3. /\ SubSeq(w, n + 1, Len(w)) \in Seq(Blocks)
          /\ Len(SubSeq(w, n + 1, Len(w))) = Len(w) - n
      BY <1>2, <2>1, Rest
    <2>4. QED
      BY <2>1, <2>2, <2>3
  <1>4. /\ local' = [local EXCEPT ![s] = local[s] \o got] /\ wire' = [wire EXCEPT ![s] = rest]
        /\ UNCHANGED <<stored, tr, alive, clash, grew, mixed>>
    BY <1>3 DEF DownReceive
  <1>5. local[s] \o got \in Seq(Blocks) /\ Len(local[s] \o got) = Len(local[s]) + n
    BY <1>1, <1>3, Lengths, Joined
  <1>6. /\ wire' \in [Session -> Seq(Blocks)] /\ wire'[s] = rest
        /\ local' \in [Session -> Seq(Blocks)] /\ local'[s] = local[s] \o got
        /\ \A t \in Session \ {s} : wire'[t] = wire[t] /\ local'[t] = local[t]
    BY <1>1, <1>3, <1>4, <1>5 DEF TypeOK
  <1>7. TypeOK'
    BY <1>1, <1>4, <1>6 DEF TypeOK
  <1>8. DownInv(s)'
    <2>1. PICK have \in Nat, under \in Nat, next \in Int, need \in Int :
            have = Len(local[s]) /\ under = Len(wire[s]) /\ next = tr[s].next /\ need = tr[s].need
      BY <1>1, Lengths
    <2>2. wire[s] # <<>>
      BY <1>1, <1>2
    <2>3. /\ need + have + under = next /\ (s \notin grew => need >= 0)
          /\ need + (have + n) + (under - n) = next
      <3>1. need + have + under = next /\ (s \notin grew => need >= 0)
        BY <1>1, <2>1, <2>2 DEF DownInv
      <3>2. need + have + under = next => need + (have + n) + (under - n) = next
        BY <1>2
      <3>3. QED
        BY <3>1, <3>2
    <2>4. QED
      BY <1>1, <1>3, <1>4, <1>5, <1>6, <2>1, <2>3 DEF DownInv
  <1>9. UpInv(s)' /\ RunInv(s)' /\ QuietInv(s)'
    BY <1>1, <1>4 DEF UpInv, RunInv, QuietInv
  <1>10. \A t \in Session \ {s} : Stays(t)
    BY <1>4, <1>6 DEF Stays
  <1>11. QED
    BY <1>4, <1>7, <1>8, <1>9, <1>10, StepKeeps DEF SessionInv

LEMMA ServerEndsKeeps ==
  ASSUME IInv, ServerEnds
  PROVE  IInv'
  <1>1. (CHOOSE c \in Content : TRUE) \in Content
    BY ContentAssumption
  <1>2. Idle \in Transfers /\ Idle.op = "none"
    <2>1. PICK c \in Content : c = CHOOSE x \in Content : TRUE
      BY <1>1
    <2>2. Idle = [op |-> "none", pc |-> "idle", c |-> c, pos |-> 0, need |-> 0, next |-> 0]
      BY <2>1 DEF Idle
    <2>3. QED
      BY <2>2 DEF Transfers
  <1>3. TypeOK /\ StoredInv
    BY DEF IInv
  <1>4. TypeOK'
    BY <1>2, <1>3 DEF ServerEnds, TypeOK
  <1>5. StoredInv'
    BY <1>3 DEF ServerEnds, StoredInv
  <1>6. ASSUME NEW s \in Session PROVE SessionInv(s)'
    <2>1. tr'[s] = Idle /\ wire'[s] = <<>>
      BY DEF ServerEnds
    <2>2. QED
      BY <1>2, <2>1 DEF SessionInv, UpInv, RunInv, DownInv, QuietInv
  <1>7. QED
    BY <1>4, <1>5, <1>6 DEF IInv

-----------------------------------------------------------------------------
(* The theorems.                                                           *)

LEMMA NextKeeps ==
  ASSUME IInv
  PROVE  [Next]_vars => /\ IInv' /\ clash \subseteq clash'
                       /\ \A c \in Content : Len(stored[c]) <= Len(stored'[c])
  <1> DEFINE Goal == /\ IInv' /\ clash \subseteq clash'
                     /\ \A c \in Content : Len(stored[c]) <= Len(stored'[c])
  <1>s. ASSUME IInv', clash \subseteq clash', stored' = stored PROVE Goal
    BY <1>s, Lengths DEF IInv
  <1>1. ASSUME NEW s \in Session, NEW c \in Content, UpStart(s, c) PROVE Goal
    BY <1>1, <1>s, UpStartKeeps DEF UpStart
  <1>2. ASSUME NEW s \in Session, UpSend(s) PROVE Goal
    BY <1>2, <1>s, UpSendKeeps DEF UpSend
  <1>3. ASSUME NEW s \in Session, UpSeek(s) PROVE Goal
    <2>1. clash \subseteq clash' /\ stored' = stored
      BY <1>3 DEF UpSeek
    <2>2. QED
      BY <1>3, <1>s, <2>1, UpSeekKeeps
  <1>4. ASSUME NEW s \in Session, NEW n \in 1..Chunk, UpReceive(s, n) PROVE Goal
    BY <1>4, UpReceiveKeeps DEF UpReceive
  <1>5. ASSUME NEW s \in Session, NEW c \in Content, NEW file \in {local[s], <<>>},
               DownStart(s, c, file)
        PROVE  Goal
    <2>1. clash' = clash /\ stored' = stored
      BY <1>5 DEF DownStart
    <2>2. QED
      BY <1>5, <1>s, <2>1, DownStartKeeps
  <1>6. ASSUME NEW s \in Session, DownSend(s) PROVE Goal
    BY <1>6, <1>s, DownSendKeeps DEF DownSend
  <1>7. ASSUME NEW s \in Session, NEW n \in 1..Chunk, DownReceive(s, n) PROVE Goal
    BY <1>7, <1>s, DownReceiveKeeps DEF DownReceive
  <1>8. ASSUME NEW s \in Session,
               UpEnd(s) \/ UpCut(s) \/ DownEnd(s) \/ DownCut(s) \/ Reconnect(s)
        PROVE  Goal
    <2>1. PICK l \in {Idle, Lost} : Leave(s, l)
      BY <1>8 DEF UpEnd, UpCut, DownEnd, DownCut, Reconnect, Finish, Hangup
    <2>2. UNCHANGED <<stored, local, clash>>
      BY <1>8 DEF UpEnd, UpCut, DownEnd, DownCut, Reconnect
    <2>3. QED
      BY <1>s, <2>1, <2>2, LeaveKeeps
  <1>9. ASSUME NEW s \in Session, NEW n \in 0..Len(wire[s]), ClientLeaves(s, n) PROVE Goal
    BY <1>9, <1>s, ClientLeavesKeeps DEF ClientLeaves
  <1>10. CASE ServerEnds
    BY <1>10, <1>s, ServerEndsKeeps DEF ServerEnds
  <1>11. CASE UNCHANGED vars
    <2>1. /\ stored' = stored /\ local' = local /\ wire' = wire /\ tr' = tr /\ alive' = alive
          /\ clash' = clash /\ grew' = grew /\ mixed' = mixed
      BY <1>11 DEF vars
    <2>2. TypeOK' /\ StoredInv'
      BY <2>1 DEF IInv, TypeOK, StoredInv
    <2>3. ASSUME NEW s \in Session PROVE SessionInv(s)'
      BY <2>1, OtherKeeps, Lengths DEF Stays, IInv
    <2>4. QED
      BY <1>s, <2>1, <2>2, <2>3 DEF IInv
  <1>12. QED
    BY <1>1, <1>2, <1>3, <1>4, <1>5, <1>6, <1>7, <1>8, <1>9, <1>10, <1>11 DEF Next, Transferring

LEMMA InitKeeps == Init => IInv
  <1> SUFFICES ASSUME Init PROVE IInv
    OBVIOUS
  <1>1. (CHOOSE c \in Content : TRUE) \in Content
    BY ContentAssumption
  <1>2. Idle \in Transfers /\ Idle.op = "none"
    <2>1. PICK c \in Content : c = CHOOSE x \in Content : TRUE
      BY <1>1
    <2>2. Idle = [op |-> "none", pc |-> "idle", c |-> c, pos |-> 0, need |-> 0, next |-> 0]
      BY <2>1 DEF Idle
    <2>3. QED
      BY <2>2 DEF Transfers
  <1>3. <<>> \in Seq(Blocks) /\ Len(<<>>) = 0
    BY EmptySeq
  <1>4. TypeOK
    BY <1>2, <1>3 DEF Init, TypeOK
  <1>5. StoredInv
    BY <1>3, SizeAssumption DEF Init, StoredInv, Begins, Run
  <1>6. ASSUME NEW s \in Session PROVE SessionInv(s)
    BY <1>2 DEF Init, SessionInv, UpInv, RunInv, DownInv, QuietInv
  <1>7. QED
    BY <1>4, <1>5, <1>6 DEF IInv

\* What describes the transfers under way holds in every state: the place of
\* each upload in its content and what each download has still to bring.
THEOREM Invariance == Spec => []IInv
  <1>1. IInv /\ [Next]_vars => IInv'
    BY NextKeeps
  <1>2. QED
    BY InitKeeps, <1>1, PTL DEF Spec

\* Offsets are no negative numbers, and every block that is stored, under way
\* or in a local file is one of a content.
THEOREM Types == Spec => []TypeOK
  <1>1. IInv => TypeOK
    BY DEF IInv
  <1>2. QED
    BY <1>1, Invariance, PTL

\* A stored copy is a beginning of its content, whatever uploads of it run, are
\* cut off or are resumed, unless it grew between the fstat and the lseek of one.
THEOREM StoredBegins == Spec => []StoredIsPrefix
  <1>1. IInv => StoredIsPrefix
    BY BeginsIsPrefix DEF IInv, TypeOK, StoredInv, StoredIsPrefix
  <1>2. QED
    BY <1>1, Invariance, PTL

\* No step shortens or rewrites a stored copy, with the same exception.
THEOREM StoredGrows == Spec => StoredOnlyGrows
  <1> DEFINE Grows == \A c \in Content : c \in clash' \/ IsPrefix(stored[c], stored'[c])
  <1>1. IInv /\ [Next]_vars => [Grows]_vars
    <2> SUFFICES ASSUME IInv, [Next]_vars, NEW c \in Content, c \notin clash'
        PROVE  IsPrefix(stored[c], stored'[c])
      OBVIOUS
    <2>1. IInv' /\ c \notin clash /\ Len(stored[c]) <= Len(stored'[c])
      BY NextKeeps
    <2>2. stored[c] \in Seq(Blocks) /\ stored'[c] \in Seq(Blocks)
      BY <2>1 DEF IInv, TypeOK
    <2>3. Begins(stored[c], c) /\ Begins(stored'[c], c)
      BY <2>1 DEF IInv, StoredInv
    <2>4. QED
      BY <2>1, <2>2, <2>3, BeginningsGrow
  <1>2. QED
    BY <1>1, Invariance, PTL DEF Spec, StoredOnlyGrows

\* Nobody waits for bytes that nobody sends: what the thread of an upload needs
\* is at most what is on the wire and what its client has still to send, and
\* the size that a client waits for is what it has, what is on the wire and
\* what the thread has to send.
THEOREM NoWait == Spec => []NobodyWaits
  <1>1. IInv => NobodyWaits
    <2> SUFFICES ASSUME IInv, NEW s \in Session, wire[s] = <<>>
        PROVE  /\ tr[s].op = "up" /\ tr[s].need > 0 => ~alive[s] \/ tr[s].next < Size[tr[s].c]
               /\ tr[s].op = "down" /\ Len(local[s]) < tr[s].next =>
                    tr[s].need > 0 \/ Len(local[s]) >= IntMax
      BY DEF NobodyWaits
    <2>1. TypeOK /\ UpInv(s) /\ DownInv(s) /\ Len(wire[s]) = 0
      BY DEF IInv, SessionInv
    <2>2. PICK c \in Content : c = tr[s].c
      BY <2>1, Lengths
    <2>3. ASSUME tr[s].op = "up", tr[s].need > 0, alive[s] PROVE tr[s].next < Size[c]
      <3>1. tr[s].next - 0 = Atoi(Size[c]) - tr[s].need
        BY <2>1, <2>2, <2>3 DEF UpInv, Start
      <3>2. QED
        BY <2>1, <2>3, <3>1, Lengths
    <2>4. ASSUME tr[s].op = "down", Len(local[s]) < tr[s].next, Len(local[s]) < IntMax
          PROVE  tr[s].need > 0
      <3>1. tr[s].need + Len(local[s]) + 0 = tr[s].next
        BY <2>1, <2>4, Lengths, WidthAssumption DEF DownInv
      <3>2. QED
        BY <2>1, <2>4, <3>1, Lengths
    <2>5. QED
      BY <2>1, <2>2, <2>3, <2>4, Lengths, WidthAssumption
  <1>2. QED
    BY <1>1, Invariance, PTL

\* Only the end of a transfer can leave the two programs out of step.
LEMMA OnlyEndsLose ==
  ASSUME IInv, NEW s \in Session
  PROVE  [Next]_vars /\ tr'[s].op = "lost" /\ tr[s].op # "lost" =>
           \/ UpEnd(s) /\ ~(wire[s] = <<>> /\ tr[s].next >= Size[tr[s].c])
           \/ DownEnd(s) /\ wire[s] # <<>>
  <1> DEFINE Goal == \/ tr'[s].op # "lost" \/ tr[s].op = "lost"
                     \/ UpEnd(s) /\ ~(wire[s] = <<>> /\ tr[s].next >= Size[tr[s].c])
                     \/ DownEnd(s) /\ wire[s] # <<>>
  <1>1. tr \in [Session -> Transfers] /\ Idle.op = "none"
    BY DEF IInv, TypeOK, Idle
  <1>2. ASSUME NEW t \in Session, NEW c \in Content, UpStart(t, c) PROVE Goal
    BY <1>1, <1>2 DEF UpStart
  <1>3. ASSUME NEW t \in Session,
               \/ UpSend(t) \/ UpSeek(t) \/ DownSend(t)
               \/ \E n \in 1..Chunk : UpReceive(t, n) \/ DownReceive(t, n)
               \/ \E n \in 0..Len(wire[t]) : ClientLeaves(t, n)
        PROVE  Goal
    <2>1. tr'[s].op = tr[s].op
      <3>1. UpSend(t) => tr'[s].op = tr[s].op
        BY <1>1 DEF UpSend, Transfers
      <3>2. UpSeek(t) => tr'[s].op = tr[s].op
        BY <1>1 DEF UpSeek, Transfers
      <3>3. DownSend(t) => tr'[s].op = tr[s].op
        BY <1>1 DEF DownSend, Transfers
      <3>4. \A n \in 1..Chunk : UpReceive(t, n) => tr'[s].op = tr[s].op
        BY <1>1 DEF UpReceive, Transfers
      <3>5. \A n \in 1..Chunk : DownReceive(t, n) => tr'[s].op = tr[s].op
        BY DEF DownReceive
      <3>6. \A n \in 0..Len(wire[t]) : ClientLeaves(t, n) => tr'[s].op = tr[s].op
        BY DEF ClientLeaves
      <3>7. QED
        BY <1>3, <3>1, <3>2, <3>3, <3>4, <3>5, <3>6
    <2>2. QED
      BY <2>1
  <1>4. ASSUME NEW t \in Session, NEW c \in Content, NEW file \in {local[t], <<>>},
               DownStart(t, c, file)
        PROVE  Goal
    BY <1>1, <1>4 DEF DownStart
  <1>5. ASSUME NEW t \in Session, UpCut(t) \/ DownCut(t) \/ Reconnect(t) PROVE Goal
    BY <1>1, <1>5 DEF UpCut, DownCut, Reconnect, Hangup, Leave
  <1>6. ASSUME NEW t \in Session, UpEnd(t) PROVE Goal
    BY <1>1, <1>6 DEF UpEnd, Finish, Leave
  <1>7. ASSUME NEW t \in Session, DownEnd(t) PROVE Goal
    BY <1>1, <1>7 DEF DownEnd, Finish, Leave
  <1>8. CASE ServerEnds
    BY <1>1, <1>8 DEF ServerEnds
  <1>9. CASE UNCHANGED vars
    BY <1>9 DEF vars
  <1>10. [Next]_vars => Goal
    BY <1>2, <1>3, <1>4, <1>5, <1>6, <1>7, <1>8, <1>9 DEF Next, Transferring
  <1>11. QED
    BY <1>10

\* Client and thread agree where a transfer ends: an upload that has all it
\* needs has received the last block, and when both loops of a download are over
\* nothing is left on the wire; unless the content grew during the download, or
\* the upload has a size that is no int or one that clashed.
THEOREM EndsAgree == Spec => EndsInStep
  <1> DEFINE Ends == \A s \in Session : tr'[s].op = "lost" /\ tr[s].op # "lost" =>
                       \/ tr[s].op = "down" /\ s \in grew
                       \/ tr[s].op = "up" /\ (Size[tr[s].c] >= IntMax \/ tr[s].c \in clash)
  <1>1. IInv /\ [Next]_vars => [Ends]_vars
    <2> SUFFICES ASSUME IInv, [Next]_vars, NEW s \in Session,
                        tr'[s].op = "lost", tr[s].op # "lost"
        PROVE  \/ tr[s].op = "down" /\ s \in grew
               \/ tr[s].op = "up" /\ (Size[tr[s].c] >= IntMax \/ tr[s].c \in clash)
      OBVIOUS
    <2>1. TypeOK /\ UpInv(s) /\ RunInv(s) /\ DownInv(s)
      BY DEF IInv, SessionInv
    <2>2. \/ UpEnd(s) /\ ~(wire[s] = <<>> /\ tr[s].next >= Size[tr[s].c])
          \/ DownEnd(s) /\ wire[s] # <<>>
      BY OnlyEndsLose
    <2>3. PICK c \in Content, under \in Nat, next \in Int, need \in Int, have \in Nat :
            c = tr[s].c /\ under = Len(wire[s]) /\ next = tr[s].next /\ need = tr[s].need
            /\ have = Len(local[s])
      BY <2>1, Lengths
    <2>4. PICK size \in Nat : size = Size[c]
      BY <2>1, Lengths
    <2>5. under = 0 => wire[s] = <<>>
      BY <2>1, <2>3, Lengths, EmptySeq
    <2>6. ASSUME UpEnd(s), size < IntMax, c \notin clash
          PROVE  wire[s] = <<>> /\ next >= size
      <3>1. tr[s].op = "up" /\ need <= 0
        BY <2>3, <2>6 DEF UpEnd, At
      <3>2. next - under >= size - need /\ next <= size
        BY <2>1, <2>3, <2>4, <2>6, <3>1, AtoiSmall DEF UpInv, RunInv, Start
      <3>3. under = 0 /\ next >= size
        BY <3>1, <3>2
      <3>4. QED
        BY <2>5, <3>3
    <2>7. ASSUME DownEnd(s), s \notin grew
          PROVE  wire[s] = <<>>
      <3>1. tr[s].op = "down" /\ need <= 0 /\ have >= next
        BY <2>3, <2>7 DEF DownEnd
      <3>2. SUFFICES ASSUME wire[s] # <<>> PROVE FALSE
        OBVIOUS
      <3>3. need >= 0 /\ need + have + under = next
        BY <2>1, <2>3, <2>7, <3>1, <3>2 DEF DownInv
      <3>4. under = 0
        BY <3>1, <3>3
      <3>5. QED
        BY <2>5, <3>2, <3>4
    <2>8. (UpEnd(s) => tr[s].op = "up") /\ (DownEnd(s) => tr[s].op = "down")
      BY DEF UpEnd, At, DownEnd
    <2>9. QED
      BY <2>2, <2>3, <2>4, <2>6, <2>7, <2>8, WidthAssumption
  <1>2. QED
    BY <1>1, Invariance, PTL DEF Spec, EndsInStep

-----------------------------------------------------------------------------
(* The local files.  They hold nothing that is not stored, and a download that *)
(* was not resumed on the file of another content goes on where its file ends. *)

\* Each block of q is also in the stored copy of its content.
InStore(q) == \A k \in 1..Len(q) : q[k][2] <= Len(stored[q[k][1]])

\* The local file is a beginning of the content, the wire goes on where it
\* ends, and the thread where the wire ends.
Continues(s) ==
  /\ Begins(local[s], tr[s].c)
  /\ Run(wire[s], tr[s].c, Len(local[s]))
  /\ tr[s].need > 0 => tr[s].pos = Len(local[s]) + Len(wire[s])

CopyInv(s) ==
  /\ InStore(local[s])
  /\ tr[s].op = "down" => InStore(wire[s])
  /\ tr[s].op = "down" /\ s \notin mixed => Continues(s)

CInv == IInv /\ (clash = {} => \A s \in Session : CopyInv(s))

\* No file is so long that atoi makes a positive number of its length again, and
\* BIG_SIZE is below that.
NoWrap == Big <= 2 * IntMax /\ \A c \in Content : Size[c] < 2 * IntMax

LEMMA BlockOf ==
  ASSUME NEW q \in Seq(Blocks), NEW k \in 1..Len(q)
  PROVE  q[k][1] \in Content /\ q[k][2] \in Nat
  <1>1. q[k] \in Blocks
    BY ElementOfSeq
  <1>2. PICK c \in Content : q[k] \in {<<c, j>> : j \in 1..Size[c]}
    BY <1>1 DEF Blocks
  <1>3. PICK j \in 1..Size[c] : q[k] = <<c, j>>
    BY <1>2
  <1>4. QED
    BY <1>3, SizeAssumption

LEMMA RunJoined ==
  ASSUME NEW c \in Content, NEW i \in Nat, NEW q \in Seq(Blocks), NEW r \in Seq(Blocks),
         Run(q, c, i), Run(r, c, i + Len(q))
  PROVE  Run(q \o r, c, i)
  <1>1. /\ Len(q) \in Nat /\ Len(r) \in Nat /\ Len(q \o r) = Len(q) + Len(r)
        /\ \A k \in 1..Len(q) : (q \o r)[k] = q[k]
        /\ \A k \in 1..Len(r) : (q \o r)[Len(q) + k] = r[k]
    BY LenProperties, Joined
  <1>2. i + Len(q \o r) <= Size[c]
    BY <1>1, SizeAssumption DEF Run
  <1>3. ASSUME NEW k \in 1..(Len(q) + Len(r)) PROVE (q \o r)[k] = <<c, i + k>>
    <2>1. CASE k \in 1..Len(q)
      BY <1>1, <2>1 DEF Run
    <2>2. CASE k \notin 1..Len(q)
      <3>1. PICK j \in 1..Len(r) : k = Len(q) + j
        <4>1. k - Len(q) \in 1..Len(r) /\ k = Len(q) + (k - Len(q))
          BY <1>1, <2>2
        <4>2. QED
          BY <4>1
      <3>2. r[j] = <<c, (i + Len(q)) + j>> /\ (i + Len(q)) + j = i + k
        BY <1>1, <3>1 DEF Run
      <3>3. QED
        BY <1>1, <3>1, <3>2
    <2>3. QED
      BY <2>1, <2>2
  <1>4. QED
    BY <1>1, <1>2, <1>3 DEF Run

\* A run is received in two parts.
LEMMA RunParts ==
  ASSUME NEW c \in Content, NEW i \in Nat, NEW q \in Seq(Blocks), NEW n \in 0..Len(q),
         Run(q, c, i)
  PROVE  Run(SubSeq(q, 1, n), c, i) /\ Run(SubSeq(q, n + 1, Len(q)), c, i + n)
  <1>1. Len(q) \in Nat /\ i + Len(q) <= Size[c] /\ Size[c] \in Nat /\ n \in Nat /\ n <= Len(q)
    BY LenProperties, SizeAssumption DEF Run
  <1>2. /\ Len(SubSeq(q, 1, n)) = n /\ \A k \in 1..n : SubSeq(q, 1, n)[k] = q[k]
    BY First
  <1>3. /\ Len(SubSeq(q, n + 1, Len(q))) = Len(q) - n
        /\ \A k \in 1..(Len(q) - n) : SubSeq(q, n + 1, Len(q))[k] = q[n + k]
    BY Rest
  <1>4. Run(SubSeq(q, 1, n), c, i)
    <2>1. \A k \in 1..n : q[k] = <<c, i + k>>
      BY <1>1 DEF Run
    <2>2. i + n <= Size[c]
      BY <1>1
    <2>3. QED
      BY <1>2, <2>1, <2>2 DEF Run
  <1>5. Run(SubSeq(q, n + 1, Len(q)), c, i + n)
    <2>1. ASSUME NEW k \in 1..(Len(q) - n) PROVE q[n + k] = <<c, (i + n) + k>>
      <3>1. n + k \in 1..Len(q) /\ i + (n + k) = (i + n) + k
        BY <1>1
      <3>2. q[n + k] = <<c, i + (n + k)>>
        BY <3>1 DEF Run
      <3>3. QED
        BY <3>1, <3>2
    <2>2. (i + n) + (Len(q) - n) <= Size[c]
      BY <1>1
    <2>3. QED
      BY <1>3, <2>1, <2>2 DEF Run
  <1>6. QED
    BY <1>4, <1>5

LEMMA InStoreJoined ==
  ASSUME NEW q \in Seq(Blocks), NEW r \in Seq(Blocks), InStore(q), InStore(r)
  PROVE  InStore(q \o r)
  <1>1. /\ Len(q) \in Nat /\ Len(r) \in Nat /\ Len(q \o r) = Len(q) + Len(r)
        /\ \A k \in 1..Len(q) : (q \o r)[k] = q[k]
        /\ \A k \in 1..Len(r) : (q \o r)[Len(q) + k] = r[k]
    BY LenProperties, Joined
  <1>2. ASSUME NEW k \in 1..(Len(q) + Len(r))
        PROVE  (q \o r)[k][2] <= Len(stored[(q \o r)[k][1]])
    <2>1. CASE k \in 1..Len(q)
      BY <1>1, <2>1 DEF InStore
    <2>2. CASE k \notin 1..Len(q)
      <3>1. PICK j \in 1..Len(r) : k = Len(q) + j
        <4>1. k - Len(q) \in 1..Len(r) /\ k = Len(q) + (k - Len(q))
          BY <1>1, <2>2
        <4>2. QED
          BY <4>1
      <3>2. QED
        BY <1>1, <3>1 DEF InStore
    <2>3. QED
      BY <2>1, <2>2
  <1>3. QED
    BY <1>1, <1>2 DEF InStore

LEMMA InStoreParts ==
  ASSUME NEW q \in Seq(Blocks), NEW n \in 0..Len(q), InStore(q)
  PROVE  InStore(SubSeq(q, 1, n)) /\ InStore(SubSeq(q, n + 1, Len(q)))
  <1>1. Len(q) \in Nat /\ n \in Nat /\ n <= Len(q)
    BY LenProperties
  <1>2. InStore(SubSeq(q, 1, n))
    <2>1. /\ Len(SubSeq(q, 1, n)) = n /\ \A k \in 1..n : SubSeq(q, 1, n)[k] = q[k]
      BY First
    <2>2. \A k \in 1..n : k \in 1..Len(q)
      BY <1>1
    <2>3. QED
      BY <2>1, <2>2 DEF InStore
  <1>3. InStore(SubSeq(q, n + 1, Len(q)))
    <2>1. /\ Len(SubSeq(q, n + 1, Len(q))) = Len(q) - n
          /\ \A k \in 1..(Len(q) - n) : SubSeq(q, n + 1, Len(q))[k] = q[n + k]
      BY Rest
    <2>2. \A k \in 1..(Len(q) - n) : n + k \in 1..Len(q)
      BY <1>1
    <2>3. QED
      BY <2>1, <2>2 DEF InStore
  <1>4. QED
    BY <1>2, <1>3

\* Stored copies only grow: what is in them stays in them.
LEMMA InStoreStays ==
  ASSUME TypeOK, NEW q \in Seq(Blocks), InStore(q),
         \A c \in Content : Len(stored'[c]) \in Nat /\ Len(stored[c]) <= Len(stored'[c])
  PROVE  \A k \in 1..Len(q) : q[k][2] <= Len(stored'[q[k][1]])
  <1> SUFFICES ASSUME NEW k \in 1..Len(q) PROVE q[k][2] <= Len(stored'[q[k][1]])
    OBVIOUS
  <1>1. PICK c \in Content, j \in Nat : c = q[k][1] /\ j = q[k][2]
    BY BlockOf
  <1>2. j <= Len(stored[c])
    BY <1>1 DEF InStore
  <1>3. QED
    BY <1>1, <1>2, Lengths

\* A session whose step is none of a download.
LEMMA OthersCopy ==
  ASSUME TypeOK, TypeOK', NEW t \in Session, CopyInv(t), local'[t] = local[t],
         \A c \in Content : Len(stored[c]) <= Len(stored'[c]),
         \/ tr'[t].op # "down"
         \/ tr'[t] = tr[t] /\ wire'[t] = wire[t] /\ (t \in mixed => t \in mixed')
  PROVE  CopyInv(t)'
  <1>1. \A c \in Content : Len(stored'[c]) \in Nat /\ Len(stored[c]) <= Len(stored'[c])
    BY LenProperties DEF TypeOK
  <1>2. local[t] \in Seq(Blocks) /\ wire[t] \in Seq(Blocks)
    BY DEF TypeOK
  <1>3. InStore(local[t])'
    BY <1>1, <1>2, InStoreStays DEF CopyInv, InStore
  <1>4. CASE tr'[t].op # "down"
    BY <1>3, <1>4 DEF CopyInv
  <1>5. CASE tr'[t] = tr[t] /\ wire'[t] = wire[t] /\ (t \in mixed => t \in mixed')
    <2>1. ASSUME tr[t].op = "down" PROVE InStore(wire[t])'
      <3>1. InStore(wire[t])
        BY <2>1 DEF CopyInv
      <3>2. \A k \in 1..Len(wire[t]) : wire[t][k][2] <= Len(stored'[wire[t][k][1]])
        BY <1>1, <1>2, <3>1, InStoreStays
      <3>3. QED
        BY <1>5, <3>2 DEF InStore
    <2>2. ASSUME tr[t].op = "down", t \notin mixed' PROVE Continues(t)'
      <3>1. Continues(t)
        BY <1>5, <2>2 DEF CopyInv
      <3>2. QED
        BY <1>5, <3>1 DEF Continues, Begins, Run
    <2>3. QED
      BY <1>3, <1>5, <2>1, <2>2 DEF CopyInv
  <1>6. QED
    BY <1>4, <1>5

LEMMA DownStartCopies ==
  ASSUME NoWrap, IInv, IInv', NEW s \in Session, CopyInv(s), clash = {},
         NEW c \in Content, NEW file \in {local[s], <<>>}, DownStart(s, c, file)
  PROVE  CopyInv(s)'
  <1>1. TypeOK /\ QuietInv(s) /\ file \in Seq(Blocks) /\ Begins(stored[c], c)
    <2>1. TypeOK /\ QuietInv(s) /\ Begins(stored[c], c)
      BY DEF IInv, SessionInv, StoredInv
    <2>2. local[s] \in Seq(Blocks) /\ <<>> \in Seq(Blocks)
      BY <2>1, Lengths, EmptySeq
    <2>3. QED
      BY <2>1, <2>2
  <1>2. InStore(file)
    <2>1. InStore(<<>>)
      BY EmptySeq DEF InStore
    <2>2. QED
      BY <2>1 DEF CopyInv
  <1>3. PICK have \in Nat, len \in Nat, offset \in Int, size \in Nat :
          /\ have = Len(file) /\ len = Len(stored[c]) /\ offset = Atoi(Len(file))
          /\ size = Size[c] /\ size < 2 * IntMax
    <2>1. Len(file) \in Nat /\ Len(stored[c]) \in Nat /\ Size[c] \in Nat
      BY <1>1, LenProperties, Lengths, SizeAssumption
    <2>2. Atoi(Len(file)) \in Int
      BY <2>1, AtoiRange
    <2>3. QED
      BY <2>1, <2>2 DEF NoWrap
  <1>4. PICK need, pos, place, next :
          /\ need = IF len - offset >= Big /\ offset < 0 THEN 0 ELSE len - offset
          /\ pos = IF offset < 0 THEN 0 ELSE offset
          /\ tr' = [tr EXCEPT ![s] = [op |-> "down", pc |-> place, c |-> c, pos |-> pos,
                                     need |-> need, next |-> next]]
    <2>1. PICK place, next :
            tr' = [tr EXCEPT ![s] = [op |-> "down", pc |-> place, c |-> c,
                     pos |-> Seek(offset),
                     need |-> IF len - offset >= Big /\ offset < 0 THEN 0 ELSE len - offset,
                     next |-> next]]
      BY <1>3 DEF DownStart
    <2>2. QED
      BY <2>1 DEF Seek
  <1>5. /\ tr[s].op = "none" /\ local' = [local EXCEPT ![s] = file]
        /\ mixed' = IF IsPrefix(file, Whole(c)) THEN mixed ELSE mixed \union {s}
        /\ stored' = stored /\ wire' = wire
    BY DEF DownStart
  <1>6. /\ tr'[s].op = "down" /\ tr'[s].c = c /\ tr'[s].pos = pos /\ tr'[s].need = need
        /\ local'[s] = file /\ wire'[s] = <<>> /\ Len(<<>>) = 0
    BY <1>1, <1>4, <1>5, EmptySeq DEF TypeOK, QuietInv
  <1>7. InStore(local[s])' /\ InStore(wire[s])'
    BY <1>2, <1>5, <1>6 DEF InStore
  <1>8. ASSUME s \notin mixed' PROVE Continues(s)'
    <2>1. Begins(file, c)
      BY <1>1, <1>5, <1>8, BeginsIsPrefix
    <2>2. Run(<<>>, c, have)
      BY <1>3, <1>6, <2>1 DEF Begins, Run
    <2>3. have <= size /\ have <= len
      <3>1. have <= size
        BY <1>3, <2>1 DEF Begins, Run
      <3>2. CASE have = 0
        BY <3>2
      <3>3. CASE have # 0
        <4>1. have \in 1..Len(file)
          BY <1>3, <3>3
        <4>2. file[have] = <<c, 0 + have>> /\ 0 + have = have
          BY <2>1, <4>1 DEF Begins, Run
        <4>3. file[have][2] <= Len(stored[file[have][1]])
          BY <1>2, <4>1 DEF InStore
        <4>4. file[have][1] = c /\ file[have][2] = have
          BY <4>2
        <4>5. QED
          BY <1>3, <3>1, <4>3, <4>4
      <3>4. QED
        BY <3>1, <3>2, <3>3
    <2>4. ASSUME need > 0 PROVE pos = have + 0
      <3>1. CASE have < IntMax
        BY <1>3, <1>4, <3>1, AtoiSmall
      <3>2. CASE have >= IntMax
        <4>1. offset = have - 2 * IntMax
          BY <1>3, <2>3, <3>2, AtoiWraps, WidthAssumption
        <4>2. Big <= 2 * IntMax /\ Big \in Nat /\ IntMax \in Nat
          BY WidthAssumption DEF NoWrap
        <4>3. offset < 0 /\ len - offset >= Big
          <5>1. have <= size /\ size < 2 * IntMax /\ have <= len
            BY <1>3, <2>3
          <5>2. PICK twice \in Nat : twice = 2 * IntMax
            BY <4>2
          <5>3. have < twice /\ have <= len /\ offset = have - twice /\ Big <= twice
            BY <4>1, <4>2, <5>1, <5>2
          <5>4. QED
            BY <4>2, <5>3
        <4>4. QED
          BY <1>4, <2>4, <4>3
      <3>3. QED
        BY <1>3, <3>1, <3>2, WidthAssumption
    <2>5. QED
      BY <1>3, <1>6, <2>1, <2>2, <2>4 DEF Continues, Begins, Run
  <1>9. QED
    BY <1>7, <1>8 DEF CopyInv

LEMMA DownSendCopies ==
  ASSUME IInv, NEW s \in Session, CopyInv(s), clash = {}, DownSend(s)
  PROVE  CopyInv(s)'
  <1>1. /\ TypeOK /\ DownInv(s) /\ tr \in [Session -> Transfers]
        /\ tr[s].op = "down" /\ tr[s].need > 0
    BY DEF IInv, SessionInv, DownSend, TypeOK
  <1>2. tr[s].pos <= Len(stored[tr[s].c])
    BY <1>1 DEF DownInv
  <1>3. PICK c \in Content, pos \in Nat, need \in Int, len \in Nat, n \in Nat :
          /\ c = tr[s].c /\ pos = tr[s].pos /\ need = tr[s].need /\ len = Len(stored[c])
          /\ n = Portion(s) /\ pos + n <= len
    BY <1>1, <1>2, Lengths, PortionIs
  <1>4. PICK q \in Seq(Blocks), w \in Seq(Blocks), file \in Seq(Blocks) :
          q = stored[c] /\ w = wire[s] /\ file = local[s]
    BY <1>1, Lengths
  <1>5. Begins(q, c)
    BY <1>4 DEF IInv, StoredInv
  <1>6. PICK sent \in Seq(Blocks) : sent = SubSeq(q, pos + 1, pos + n) /\ Len(sent) = n /\ Run(sent, c, pos)
    <2>1. pos + n \in Nat /\ pos <= pos + n /\ pos + n <= Len(q) /\ (pos + n) - pos = n
      BY <1>3, <1>4
    <2>2. /\ SubSeq(q, pos + 1, pos + n) \in Seq(Blocks) /\ Len(SubSeq(q, pos + 1, pos + n)) = n
          /\ \A k \in 1..n : SubSeq(q, pos + 1, pos + n)[k] = q[pos + k]
      <3>1. /\ SubSeq(q, pos + 1, pos + n) \in Seq(Blocks)
            /\ Len(SubSeq(q, pos + 1, pos + n)) = (pos + n) - pos
            /\ \A k \in 1..((pos + n) - pos) : SubSeq(q, pos + 1, pos + n)[k] = q[pos + k]
        BY <2>1, Part
      <3>2. QED
        BY <2>1, <3>1
    <2>3. ASSUME NEW k \in 1..n PROVE q[pos + k] = <<c, pos + k>>
      <3>1. pos + k \in 1..Len(q) /\ 0 + (pos + k) = pos + k
        BY <2>1
      <3>2. q[pos + k] = <<c, 0 + (pos + k)>>
        BY <1>5, <3>1 DEF Begins, Run
      <3>3. QED
        BY <3>1, <3>2
    <2>4. pos + n <= Size[c]
      BY <1>3, <1>4, <1>5, SizeAssumption DEF Begins, Run
    <2>5. QED
      BY <2>2, <2>3, <2>4 DEF Run
  <1>7. InStore(sent)
    <2>1. ASSUME NEW k \in 1..n PROVE sent[k][2] <= Len(stored[sent[k][1]])
      <3>1. sent[k] = <<c, pos + k>>
        BY <1>6 DEF Run
      <3>2. sent[k][1] = c /\ sent[k][2] = pos + k
        BY <3>1
      <3>3. pos + n <= len
        BY <1>3
      <3>4. pos + k <= len
        BY <3>3
      <3>5. QED
        BY <1>3, <3>2, <3>4
    <2>2. QED
      BY <1>6, <2>1 DEF InStore
  <1>8. /\ wire' = [wire EXCEPT ![s] = w \o sent]
        /\ tr' = [tr EXCEPT ![s] = [tr[s] EXCEPT !.pos = pos + n, !.need = need - n]]
        /\ stored' = stored /\ local' = local /\ mixed' = mixed
    BY <1>1, <1>3, <1>4, <1>6 DEF DownSend
  <1>9. /\ tr'[s].op = "down" /\ tr'[s].c = c /\ tr'[s].pos = pos + n /\ tr'[s].need = need - n
        /\ wire'[s] = w \o sent /\ local'[s] = file
    BY <1>1, <1>3, <1>4, <1>8 DEF Transfers, TypeOK
  <1>10. InStore(local[s])'
    BY <1>8 DEF CopyInv, InStore
  <1>11. InStore(wire[s])'
    <2>1. InStore(w)
      BY <1>1, <1>4 DEF CopyInv
    <2>2. InStore(w \o sent)
      BY <1>7, <2>1, InStoreJoined
    <2>3. QED
      BY <1>8, <1>9, <2>2 DEF InStore
  <1>12. ASSUME s \notin mixed PROVE Continues(s)'
    <2>1. Begins(file, c) /\ Run(w, c, Len(file)) /\ pos = Len(file) + Len(w)
      BY <1>1, <1>3, <1>4, <1>12 DEF CopyInv, Continues
    <2>2. Len(file) \in Nat /\ Len(w) \in Nat /\ Len(w \o sent) = Len(w) + n
      BY <1>6, LenProperties, Joined
    <2>3. Run(w \o sent, c, Len(file))
      BY <1>6, <2>1, <2>2, RunJoined
    <2>4. pos + n = Len(file) + Len(w \o sent)
      BY <2>1, <2>2
    <2>5. QED
      BY <1>9, <2>1, <2>3, <2>4 DEF Continues, Begins, Run
  <1>13. QED
    BY <1>8, <1>10, <1>11, <1>12 DEF CopyInv

LEMMA DownReceiveCopies ==
  ASSUME IInv, NEW s \in Session, CopyInv(s), NEW n \in 1..Chunk, DownReceive(s, n)
  PROVE  CopyInv(s)'
  <1>1. TypeOK /\ tr[s].op = "down" /\ n <= Len(wire[s])
    BY DEF IInv, DownReceive
  <1>2. PICK c \in Content, w \in Seq(Blocks), file \in Seq(Blocks) :
          c = tr[s].c /\ w = wire[s] /\ file = local[s]
    BY <1>1, Lengths
  <1>3. n \in 0..Len(w) /\ Len(w) \in Nat /\ Len(file) \in Nat
    BY <1>1, <1>2, Lengths, WidthAssumption
  <1>4. PICK got \in Seq(Blocks), rest \in Seq(Blocks) :
          got = SubSeq(w, 1, n) /\ rest = SubSeq(w, n + 1, Len(w))
    BY <1>3, First, Rest
  <1>5. Len(got) = n /\ Len(rest) = Len(w) - n /\ Len(file \o got) = Len(file) + n
    <2>1. Len(got) = n /\ Len(rest) = Len(w) - n
      BY <1>3, <1>4, First, Rest
    <2>2. QED
      BY <2>1, Joined
  <1>6. /\ local' = [local EXCEPT ![s] = file \o got] /\ wire' = [wire EXCEPT ![s] = rest]
        /\ stored' = stored /\ tr' = tr /\ mixed' = mixed
    BY <1>2, <1>4 DEF DownReceive
  <1>7. local'[s] = file \o got /\ wire'[s] = rest
    BY <1>1, <1>6 DEF TypeOK
  <1>8. InStore(w) /\ InStore(file)
    BY <1>1, <1>2 DEF CopyInv
  <1>9. InStore(got) /\ InStore(rest)
    BY <1>3, <1>4, <1>8, InStoreParts
  <1>10. InStore(file \o got)
    BY <1>8, <1>9, InStoreJoined
  <1>11. InStore(local[s])' /\ InStore(wire[s])'
    BY <1>6, <1>7, <1>9, <1>10 DEF InStore
  <1>12. ASSUME s \notin mixed PROVE Continues(s)'
    <2>1. Begins(file, c) /\ Run(w, c, Len(file)) /\ (tr[s].need > 0 => tr[s].pos = Len(file) + Len(w))
      BY <1>1, <1>2, <1>12 DEF CopyInv, Continues
    <2>2. Run(got, c, Len(file)) /\ Run(rest, c, Len(file) + n)
      BY <1>3, <1>4, <2>1, RunParts
    <2>3. Begins(file \o got, c)
      <3>1. Run(got, c, 0 + Len(file))
        BY <1>3, <2>2
      <3>2. QED
        BY <2>1, <3>1, RunJoined DEF Begins
    <2>4. Run(rest, c, Len(file \o got)) /\ Len(file) + Len(w) = Len(file \o got) + Len(rest)
      BY <1>3, <1>5, <2>2
    <2>5. QED
      BY <1>2, <1>6, <1>7, <2>1, <2>3, <2>4 DEF Continues, Begins, Run
  <1>13. QED
    BY <1>6, <1>11, <1>12 DEF CopyInv

LEMMA NextCopies ==
  ASSUME NoWrap, CInv
  PROVE  [Next]_vars => CInv'
  <1> SUFFICES ASSUME [Next]_vars PROVE CInv'
    OBVIOUS
  <1>1. /\ IInv /\ IInv' /\ clash \subseteq clash' /\ TypeOK /\ TypeOK'
        /\ \A c \in Content : Len(stored[c]) <= Len(stored'[c])
    BY NextKeeps DEF CInv, IInv
  <1>2. SUFFICES ASSUME clash' = {}, NEW u \in Session PROVE CopyInv(u)'
    BY <1>1 DEF CInv
  <1>3. clash = {} /\ CopyInv(u)
    BY <1>1, <1>2 DEF CInv
  <1>4. tr \in [Session -> Transfers] /\ Idle.op = "none" /\ Lost.op = "lost"
    BY <1>1 DEF TypeOK, Idle, Lost
  <1> DEFINE Other == /\ local'[u] = local[u]
                      /\ \/ tr'[u].op # "down"
                         \/ tr'[u] = tr[u] /\ wire'[u] = wire[u] /\ (u \in mixed => u \in mixed')
  <1>5. Other => CopyInv(u)'
    BY <1>1, <1>3, OthersCopy
  <1>6. ASSUME NEW s \in Session, NEW c \in Content, UpStart(s, c) PROVE CopyInv(u)'
    <2>1. Other
      BY <1>4, <1>6 DEF UpStart
    <2>2. QED
      BY <1>5, <2>1
  <1>7. ASSUME NEW s \in Session, UpSend(s) PROVE CopyInv(u)'
    <2>1. CASE u = s
      <3>1. local' = local /\ tr'[s].op = "up"
        BY <1>4, <1>7 DEF UpSend, Transfers
      <3>2. QED
        BY <1>5, <2>1, <3>1
    <2>2. CASE u # s
      <3>1. Other
        BY <1>4, <1>7, <2>2 DEF UpSend
      <3>2. QED
        BY <1>5, <3>1
    <2>3. QED
      BY <2>1, <2>2
  <1>8. ASSUME NEW s \in Session, UpSeek(s) PROVE CopyInv(u)'
    <2>1. CASE u = s
      <3>1. local' = local /\ tr'[s].op = "up"
        BY <1>4, <1>8 DEF UpSeek, At, Transfers
      <3>2. QED
        BY <1>5, <2>1, <3>1
    <2>2. CASE u # s
      <3>1. Other
        BY <1>4, <1>8, <2>2 DEF UpSeek
      <3>2. QED
        BY <1>5, <3>1
    <2>3. QED
      BY <2>1, <2>2
  <1>9. ASSUME NEW s \in Session, NEW n \in 1..Chunk, UpReceive(s, n) PROVE CopyInv(u)'
    <2>1. CASE u = s
      <3>1. local' = local /\ tr'[s].op = "up"
        BY <1>4, <1>9 DEF UpReceive, At, Transfers
      <3>2. QED
        BY <1>5, <2>1, <3>1
    <2>2. CASE u # s
      <3>1. Other
        BY <1>1, <1>4, <1>9, <2>2 DEF UpReceive, TypeOK
      <3>2. QED
        BY <1>5, <3>1
    <2>3. QED
      BY <2>1, <2>2
  <1>10. ASSUME NEW s \in Session, NEW c \in Content, NEW file \in {local[s], <<>>},
                DownStart(s, c, file)
         PROVE  CopyInv(u)'
    <2>1. CASE u = s
      BY <1>1, <1>3, <1>10, <2>1, DownStartCopies
    <2>2. CASE u # s
      <3>1. Other
        BY <1>4, <1>10, <2>2 DEF DownStart
      <3>2. QED
        BY <1>5, <3>1
    <2>3. QED
      BY <2>1, <2>2
  <1>11. ASSUME NEW s \in Session, DownSend(s) PROVE CopyInv(u)'
    <2>1. CASE u = s
      BY <1>1, <1>3, <1>11, <2>1, DownSendCopies
    <2>2. CASE u # s
      <3>1. Other
        BY <1>4, <1>11, <2>2 DEF DownSend
      <3>2. QED
        BY <1>5, <3>1
    <2>3. QED
      BY <2>1, <2>2
  <1>12. ASSUME NEW s \in Session, NEW n \in 1..Chunk, DownReceive(s, n) PROVE CopyInv(u)'
    <2>1. CASE u = s
      BY <1>1, <1>3, <1>12, <2>1, DownReceiveCopies
    <2>2. CASE u # s
      <3>1. Other
        BY <1>4, <1>12, <2>2 DEF DownReceive
      <3>2. QED
        BY <1>5, <3>1
    <2>3. QED
      BY <2>1, <2>2
  <1>13. ASSUME NEW s \in Session,
                UpEnd(s) \/ UpCut(s) \/ DownEnd(s) \/ DownCut(s) \/ Reconnect(s)
         PROVE  CopyInv(u)'
    <2>1. PICK l \in {Idle, Lost} : Leave(s, l)
      BY <1>13 DEF UpEnd, UpCut, DownEnd, DownCut, Reconnect, Finish, Hangup
    <2>2. local' = local
      BY <1>13 DEF UpEnd, UpCut, DownEnd, DownCut, Reconnect
    <2>3. Other
      BY <1>4, <2>1, <2>2 DEF Leave
    <2>4. QED
      BY <1>5, <2>3
  <1>14. ASSUME NEW s \in Session, NEW n \in 0..Len(wire[s]), ClientLeaves(s, n) PROVE CopyInv(u)'
    <2>1. Other
      BY <1>4, <1>14 DEF ClientLeaves
    <2>2. QED
      BY <1>5, <2>1
  <1>15. CASE ServerEnds
    <2>1. Other
      BY <1>4, <1>15 DEF ServerEnds
    <2>2. QED
      BY <1>5, <2>1
  <1>16. CASE UNCHANGED vars
    <2>1. Other
      BY <1>16 DEF vars
    <2>2. QED
      BY <1>5, <2>1
  <1>17. QED
    BY <1>6, <1>7, <1>8, <1>9, <1>10, <1>11, <1>12, <1>13, <1>14, <1>15, <1>16 DEF Next, Transferring

\* A local file is a beginning of the content that is downloaded into it,
\* while that is uploaded, after any number of interruptions and with an offset
\* that overflows an int: unless it was a file of another content, or the copy
\* is bad.  Files of more than twice an int are not covered.
THEOREM LocalBegins ==
  ASSUME NoWrap
  PROVE  Spec => []LocalIsPrefix
  <1>1. Init => CInv
    <2> SUFFICES ASSUME Init PROVE CInv
      OBVIOUS
    <2>1. IInv
      BY InitKeeps
    <2>2. ASSUME NEW s \in Session PROVE CopyInv(s)
      <3>1. local[s] = <<>> /\ tr[s].op = "none"
        BY DEF Init, Idle
      <3>2. QED
        BY <3>1, EmptySeq DEF CopyInv, InStore
    <2>3. QED
      BY <2>1, <2>2 DEF CInv
  <1>2. CInv /\ [Next]_vars => CInv'
    BY NextCopies
  <1>3. CInv => LocalIsPrefix
    <2> SUFFICES ASSUME CInv, NEW s \in Session \ mixed, tr[s].op = "down", clash = {}
        PROVE  IsPrefix(local[s] \o wire[s], Whole(tr[s].c))
      BY DEF LocalIsPrefix
    <2>1. TypeOK /\ s \in Session /\ s \notin mixed /\ CopyInv(s)
      BY DEF CInv, IInv
    <2>2. PICK c \in Content, q \in Seq(Blocks), r \in Seq(Blocks) :
            c = tr[s].c /\ q = local[s] /\ r = wire[s]
      BY <2>1, Lengths
    <2>3. Run(q, c, 0) /\ Run(r, c, Len(q))
      BY <2>1, <2>2 DEF CopyInv, Continues, Begins
    <2>4. Run(r, c, 0 + Len(q))
      BY <2>3, LenProperties
    <2>5. Begins(q \o r, c)
      BY <2>3, <2>4, RunJoined DEF Begins
    <2>6. q \o r \in Seq(Blocks)
      BY Joined
    <2>7. QED
      BY <2>2, <2>5, <2>6, BeginsIsPrefix
  <1>4. QED
    BY <1>1, <1>2, <1>3, PTL DEF Spec
=============================================================================
