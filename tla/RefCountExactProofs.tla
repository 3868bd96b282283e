------------------------- MODULE RefCountExactProofs -------------------------
(***************************************************************************)
(* The counts of file_real are exact, commands find the counts that they   *)
(* have lowered, and rows stay in the trees of their users: for every      *)
(* number of sessions, users, contents and rows, as long as no user has    *)
(* two sessions.                                                           *)
(*                                                                         *)
(* The bound of RefCountProofs becomes an equation for the contents that   *)
(* nothing has disturbed: a count is its credit and the copies ahead of    *)
(* their row.  A command keeps it because what it has read of its content  *)
(* is still so: whoever else would change it holds the content too, which  *)
(* spoils it.                                                              *)
(*                                                                         *)
(* For the trees, a row in its place is not enough: a directory may go     *)
(* only if its children go after it.  Fathers says below which rows a      *)
(* command may still insert, ListsOwn that a removal which has deleted a   *)
(* directory reaches all that is below it, and TreeInv that every other    *)
(* row has its place.                                                      *)
(***************************************************************************)
EXTENDS RefCountProofs

\* The count of m, 0 without a row in file_real.
Count(m) == IF m \in DOMAIN real THEN real[m] ELSE 0

\* The rows that a command works on still have the contents it has read.
RowsAsRead(l) ==
  /\ l.cmd = "rm" /\ l.pc \in {"dec", "select", "erase", "delete"} =>
       file[l.row].file_md5 = l.md5 /\ l.md5 # NoMd5
  /\ l.cmd \in {"over", "into"} =>
       /\ ~IsDir(l.row) /\ ~IsDir(l.src)
       /\ l.pc \in {"dec", "select", "erase"} => file[l.row].file_md5 = l.md5
       /\ l.pc = "update" => file[l.src].file_md5 = l.md5
       /\ l.cmd = "over" /\ l.pc = "add" => file[l.src].file_md5 = l.md5 /\ file[l.row].file_md5 = l.md5

\* What a command knows of the count of its content, if nothing has disturbed it.
CountAsRead(l) ==
  /\ l.pc = "select" => l.md5 \in DOMAIN real
  /\ l.pc = "erase" => l.md5 \in DOMAIN real /\ real[l.md5] = 0
  /\ l.cmd \in {"new", "tree"} /\ l.pc \in {"insert", "add"} => l.md5 \in DOMAIN real
  /\ l.cmd = "upload" =>
       /\ l.pc = "insert" => (l.found <=> l.md5 \in DOMAIN real)
       /\ l.pc = "add" => l.md5 \in DOMAIN real
       /\ l.pc = "enter" => l.md5 \notin DOMAIN real

Settled(m) == Count(m) = Cardinality(Credit(m)) + Cardinality(Ahead(m))

ExactInv ==
  /\ IInv
  /\ Clash \subseteq spoiled
  /\ \A s \in Session : /\ my[s].pc = "idle" => my[s] = Idle
                        /\ RowsAsRead(my[s])
                        /\ my[s].md5 \notin spoiled => CountAsRead(my[s])
  /\ \A m \in Md5 \ spoiled : Settled(m)

-----------------------------------------------------------------------------
(* Sizes.                                                                  *)

LEMMA Sizes ==
  ASSUME TypeOK, TypeOK', NEW m
  PROVE  /\ IsFiniteSet(Credit(m)) /\ IsFiniteSet(Credit(m)')
         /\ IsFiniteSet(Ahead(m)) /\ IsFiniteSet(Ahead(m)')
         /\ Cardinality(Credit(m)) \in Nat /\ Cardinality(Credit(m)') \in Nat
         /\ Cardinality(Ahead(m)) \in Nat /\ Cardinality(Ahead(m)') \in Nat
  <1>1. TablesOK'
    BY DEF TypeOK, TablesOK
  <1>2. QED
    BY <1>1, Finite

LEMMA CountType == ASSUME TypeOK, NEW m PROVE Count(m) \in Int
  BY DEF TypeOK, Count

\* A settled content with a row that nobody owes has a count.
LEMMA HasCount ==
  ASSUME TypeOK, NEW m, Settled(m), NEW i \in Credit(m)
  PROVE  m \in DOMAIN real
  <1>1. /\ IsFiniteSet(Credit(m)) /\ Cardinality(Credit(m)) \in Nat /\ Cardinality(Ahead(m)) \in Nat
    <2>1. IsFiniteSet(Id)
      BY FS_Interval, MaxIdAssumption DEF Id
    <2>2. Credit(m) \in SUBSET Id /\ Ahead(m) \in SUBSET Session
      BY MaxIdAssumption DEF Credit, Rows, Ahead, TypeOK, Id
    <2>3. QED
      BY <2>1, <2>2, SessionAssumption, FS_Subset, FS_CardinalityType
  <1>2. Cardinality(Credit(m)) # 0
    BY <1>1, FS_EmptySet
  <1>3. Count(m) # 0
    BY <1>1, <1>2 DEF Settled
  <1>4. QED
    BY <1>3 DEF Count

-----------------------------------------------------------------------------
(* The equation of a content over a step of one session.                   *)

Moves(s) ==
  /\ s \in Session
  /\ ExactInv /\ IInv' /\ OneSessionEach
  /\ OnlyOf(s) /\ OwnRows(s)
  /\ spoiled \subseteq spoiled' /\ Clash' \subseteq spoiled'

LEMMA MovesTypes ==
  ASSUME NEW s, Moves(s)
  PROVE  /\ s \in Session /\ IInv /\ TypeOK /\ TypeOK' /\ TablesOK'
         /\ my \in [Session -> Local] /\ my[s] \in Local /\ my' \in [Session -> Local] /\ my'[s] \in Local
         /\ LocalInv(my[s], UserOf[s]) /\ LocalInv(my[s], UserOf[s])'
         /\ DOMAIN file \subseteq 1..(next - 1) /\ next \in Int
  BY MaxIdAssumption DEF Moves, ExactInv, IInv, TypeOK, TablesOK, OnlyOf

\* Nobody but s owes the row i.
Free(s, i) == \A t \in Session \ {s} : ~Owing(t, i)

LEMMA CreditParts ==
  ASSUME NEW s, Moves(s), NEW m, NEW i
  PROVE  /\ i \in Credit(m) <=> i \in Rows(m) /\ ~Owing(s, i) /\ Free(s, i)
         /\ i \in Credit(m)' <=> i \in Rows(m)' /\ ~Owing(s, i)' /\ Free(s, i)
  BY DEF Moves, Credit, Free, Owing, OnlyOf

LEMMA AheadOthers ==
  ASSUME NEW s, Moves(s), NEW m, NEW t, t # s
  PROVE  t \in Ahead(m) <=> t \in Ahead(m)'
  <1>1. t \in Ahead(m) => t \in Ahead(m)'
    BY AheadKept DEF Moves, ExactInv
  <1>2. ASSUME t \in Ahead(m)' PROVE t \in Ahead(m)
    <2>1. t \in Session /\ my'[t] = my[t] /\ PastAdd(my[t])
      BY <1>2 DEF Ahead, PastAdd, Moves, OnlyOf
    <2>2. Has(my[t].src, UserOf[t]) /\ UserOf[t] # UserOf[s]
      BY <2>1, Others DEF Moves, ExactInv
    <2>3. my[t].src \in Rows(m)
      BY <1>2, <2>1, <2>2 DEF Ahead, Rows, Has, Moves, OwnRows
    <2>4. QED
      BY <2>1, <2>3 DEF Ahead, PastAdd
  <1>3. QED
    BY <1>1, <1>2

\* A row of a user of which the session owes nothing is owed by nobody.
LEMMA OwnCredit ==
  ASSUME NEW s, Moves(s), NEW m, NEW i, Has(i, UserOf[s])
  PROVE  Free(s, i) /\ (i \in Rows(m) /\ ~Owing(s, i) => i \in Credit(m))
  <1>1. Free(s, i)
    BY Others DEF Moves, ExactInv, Free, Owing, Has
  <1>2. QED
    BY <1>1, CreditParts

\* A step that has nothing to do with m.
Still(s, m) ==
  /\ \A i : (i \in Rows(m) /\ ~Owing(s, i)) <=> (i \in Rows(m) /\ ~Owing(s, i))'
  /\ s \in Ahead(m) <=> s \in Ahead(m)'
  /\ Count(m)' = Count(m)

LEMMA StillSettled ==
  ASSUME NEW s, Moves(s), NEW m, Settled(m), Still(s, m)
  PROVE  Settled(m)'
  <1>1. \A i : i \in Credit(m) <=> i \in Credit(m)'
    BY CreditParts DEF Still
  <1>2. \A t : t \in Ahead(m) <=> t \in Ahead(m)'
    BY AheadOthers DEF Still
  <1>3. Credit(m)' = Credit(m) /\ Ahead(m)' = Ahead(m)
    BY <1>1, <1>2
  <1>4. QED
    BY <1>3 DEF Settled, Still

\* The row i joins the credit of m, or leaves it.
Joins(s, m, i) ==
  /\ ~(i \in Rows(m) /\ ~Owing(s, i)) /\ (i \in Rows(m) /\ ~Owing(s, i))' /\ Free(s, i)
  /\ \A j : j # i => ((j \in Rows(m) /\ ~Owing(s, j)) <=> (j \in Rows(m) /\ ~Owing(s, j))')

Leaves(s, m, i) ==
  /\ (i \in Rows(m) /\ ~Owing(s, i)) /\ ~(i \in Rows(m) /\ ~Owing(s, i))' /\ Free(s, i)
  /\ \A j : j # i => ((j \in Rows(m) /\ ~Owing(s, j)) <=> (j \in Rows(m) /\ ~Owing(s, j))')

LEMMA CreditJoined ==
  ASSUME NEW s, Moves(s), NEW m, NEW i, Joins(s, m, i)
  PROVE  Cardinality(Credit(m)') = Cardinality(Credit(m)) + 1
  <1>1. i \notin Credit(m) /\ i \in Credit(m)' /\ \A j : j # i => (j \in Credit(m) <=> j \in Credit(m)')
    BY CreditParts DEF Joins
  <1>2. Credit(m)' = Credit(m) \union {i}
    BY <1>1
  <1>3. IsFiniteSet(Credit(m))
    BY MovesTypes, Sizes
  <1>4. QED
    BY <1>1, <1>2, <1>3, FS_AddElement

LEMMA CreditLeft ==
  ASSUME NEW s, Moves(s), NEW m, NEW i, Leaves(s, m, i)
  PROVE  Cardinality(Credit(m)') = Cardinality(Credit(m)) - 1
  <1>1. i \in Credit(m) /\ i \notin Credit(m)' /\ \A j : j # i => (j \in Credit(m) <=> j \in Credit(m)')
    BY CreditParts DEF Leaves
  <1>2. Credit(m)' = Credit(m) \ {i}
    BY <1>1
  <1>3. IsFiniteSet(Credit(m))
    BY MovesTypes, Sizes
  <1>4. QED
    BY <1>1, <1>2, <1>3, FS_RemoveElement

LEMMA AheadSame ==
  ASSUME NEW s, Moves(s), NEW m, s \in Ahead(m) <=> s \in Ahead(m)'
  PROVE  Ahead(m)' = Ahead(m)
  <1>1. \A t : t \in Ahead(m) <=> t \in Ahead(m)'
    BY AheadOthers
  <1>2. QED
    BY <1>1

LEMMA AheadJoined ==
  ASSUME NEW s, Moves(s), NEW m, s \notin Ahead(m), s \in Ahead(m)'
  PROVE  Cardinality(Ahead(m)') = Cardinality(Ahead(m)) + 1
  <1>1. \A t : t # s => (t \in Ahead(m) <=> t \in Ahead(m)')
    BY AheadOthers
  <1>2. Ahead(m)' = Ahead(m) \union {s}
    BY <1>1
  <1>3. QED
    BY <1>2, MovesTypes, Sizes, FS_AddElement

LEMMA AheadLeft ==
  ASSUME NEW s, Moves(s), NEW m, s \in Ahead(m), s \notin Ahead(m)'
  PROVE  Cardinality(Ahead(m)') = Cardinality(Ahead(m)) - 1
  <1>1. \A t : t # s => (t \in Ahead(m) <=> t \in Ahead(m)')
    BY AheadOthers
  <1>2. Ahead(m)' = Ahead(m) \ {s}
    BY <1>1
  <1>3. QED
    BY <1>2, MovesTypes, Sizes, FS_RemoveElement

-----------------------------------------------------------------------------
(* What the other sessions have read is still so.                          *)

\* A statement changes no count but that of its content.
RealOf(s) ==
  real' = real \/
    /\ my[s].pc # "receive" /\ my[s].md5 \in Md5
    /\ \A m : m # my[s].md5 => /\ m \in DOMAIN real <=> m \in DOMAIN real'
                               /\ m \in DOMAIN real => real'[m] = real[m]

LEMMA OthersRows ==
  ASSUME NEW s, Moves(s), NEW t \in Session \ {s}
  PROVE  RowsAsRead(my[t])'
  <1>1. PICK l \in Local : l = my[t] /\ l = my'[t]
    BY MovesTypes DEF Moves, OnlyOf
  <1>2. PICK u : u = UserOf[t] /\ u # UserOf[s]
    BY Others DEF Moves, ExactInv
  <1>3. RowsAsRead(l) /\ LocalInv(l, u)
    BY <1>1, <1>2 DEF Moves, ExactInv, IInv
  <1>4. \A i : Has(i, u) => file'[i] = file[i]
    BY <1>2 DEF Has, Moves, OwnRows
  <1>5. RowsAsRead(l)'
    <2>1. l.cmd = "rm" /\ l.pc \in {"dec", "select", "erase", "delete"} => file'[l.row] = file[l.row]
      BY <1>3, <1>4 DEF LocalInv, RmInv
    <2>2. l.cmd \in {"over", "into"} => file'[l.row] = file[l.row] /\ file'[l.src] = file[l.src]
      BY <1>3, <1>4 DEF LocalInv, OverInv, IntoInv
    <2>3. QED
      BY <1>3, <2>1, <2>2 DEF RowsAsRead, IsDir
  <1>6. QED
    BY <1>1, <1>5 DEF RowsAsRead, IsDir

LEMMA OthersCount ==
  ASSUME NEW s, Moves(s), NEW t \in Session \ {s}, RealOf(s), my'[t].md5 \notin spoiled'
  PROVE  CountAsRead(my[t])'
  <1>1. PICK l \in Local : l = my[t] /\ l = my'[t]
    BY MovesTypes DEF Moves, OnlyOf
  <1>2. CountAsRead(l)
    BY <1>1 DEF Moves, ExactInv
  <1>3. CASE l.pc = "receive"
    BY <1>1, <1>3 DEF CountAsRead
  <1>4. CASE l.pc # "receive" /\ real' # real
    <2>1. l.md5 # my[s].md5
      <3>1. SUFFICES ASSUME l.md5 = my[s].md5 PROVE FALSE
        OBVIOUS
      <3>2. l.md5 \in Md5 /\ l.md5 \in Held(s) /\ l.md5 \in Held(t)
        BY <1>1, <1>4, <3>1, Md5Assumption DEF RealOf, Held
      <3>3. l.md5 \in Clash
        BY <3>2 DEF Clash, Moves
      <3>4. QED
        BY <1>1, <3>3 DEF Moves, ExactInv
    <2>2. /\ l.md5 \in DOMAIN real <=> l.md5 \in DOMAIN real'
          /\ l.md5 \in DOMAIN real => real'[l.md5] = real[l.md5]
      BY <1>4, <2>1 DEF RealOf
    <2>3. QED
      BY <1>1, <1>2, <2>2 DEF CountAsRead
  <1>5. CASE real' = real
    BY <1>1, <1>2, <1>5 DEF CountAsRead
  <1>6. QED
    BY <1>3, <1>4, <1>5

-----------------------------------------------------------------------------
(* What a step keeps, action by action.                                    *)

\* The session that steps knows again what it has read.
Knows(s) ==
  /\ my'[s].pc = "idle" => my'[s] = Idle
  /\ RowsAsRead(my[s])'
  /\ my'[s].md5 \notin spoiled' => CountAsRead(my[s])'
  /\ RealOf(s)

AllSettled == \A m \in Md5 \ spoiled' : Settled(m)'

LEMMA Unspoiled ==
  ASSUME NEW s, Moves(s), NEW m \in Md5 \ spoiled'
  PROVE  m \in Md5 /\ m \notin spoiled /\ m \notin Clash /\ m \notin Clash' /\ Settled(m) /\ m # NoMd5
  BY Md5Assumption DEF Moves, ExactInv

LEMMA AllStill ==
  ASSUME NEW s, Moves(s), \A m \in Md5 \ spoiled' : Still(s, m)
  PROVE  AllSettled
  BY StillSettled, Unspoiled DEF AllSettled

\* A statement that reads.
LEMMA ReadsSettled ==
  ASSUME NEW s, Moves(s), UNCHANGED <<file, real>>,
         OwesRow(my'[s]) <=> OwesRow(my[s]), OwesRow(my[s]) => my'[s].row = my[s].row,
         PastAdd(my'[s]) <=> PastAdd(my[s]), PastAdd(my[s]) => my'[s].src = my[s].src
  PROVE  AllSettled
  <1>1. ASSUME NEW m \in Md5 \ spoiled' PROVE Still(s, m)
    BY DEF Still, Rows, Owing, Ahead, PastAdd, Count
  <1>2. QED
    BY <1>1, AllStill

LEMMA IdleLocal ==
  ASSUME NEW s, Moves(s), my[s].pc = "idle"
  PROVE  my[s] = Idle /\ my[s].cmd = "none" /\ ~OwesRow(my[s]) /\ ~PastAdd(my[s])
  <1>1. my[s] = Idle
    BY DEF Moves, ExactInv
  <1>2. my[s].cmd = "none"
    BY <1>1 DEF Idle
  <1>3. QED
    BY <1>1, <1>2 DEF OwesRow, PastAdd

LEMMA Ends ==
  ASSUME NEW s, Moves(s), RealOf(s), my'[s] = Idle
  PROVE  Knows(s) /\ ~OwesRow(my'[s]) /\ ~PastAdd(my'[s])
  BY DEF Knows, RowsAsRead, CountAsRead, Idle, OwesRow, PastAdd

LEMMA DoneKnows ==
  ASSUME NEW s, Moves(s), RealOf(s), Done(s)
  PROVE  Knows(s) /\ ~OwesRow(my'[s]) /\ ~PastAdd(my'[s])
  <1>1. my'[s] = Idle
    BY MovesTypes DEF Done
  <1>2. QED
    BY <1>1, Ends

LEMMA WalkKnows ==
  ASSUME NEW s, Moves(s), RealOf(s), NEW rest, Proceed(s, rest), my[s].cmd \in {"rm", "tree"}
  PROVE  Knows(s) /\ ~OwesRow(my'[s]) /\ ~PastAdd(my'[s])
  <1>1. CASE rest = {}
    <2>1. my'[s] = Idle
      BY <1>1, MovesTypes DEF Proceed
    <2>2. QED
      BY <2>1, Ends
  <1>2. CASE rest # {}
    <2>1. my'[s].cmd \in {"rm", "tree"} /\ my'[s].pc = "next"
      BY <1>2, MovesTypes DEF Proceed, Idle
    <2>2. QED
      BY <2>1 DEF Knows, RowsAsRead, CountAsRead, OwesRow, PastAdd
  <1>3. QED
    BY <1>1, <1>2

\* A row of its own that the session does not owe vouches for the count of its content.
LEMMA Vouched ==
  ASSUME NEW s, Moves(s), NEW m \in Md5 \ spoiled', NEW i, Has(i, UserOf[s]), ~Owing(s, i),
         file[i].file_md5 = m
  PROVE  m \in DOMAIN real
  <1>1. i \in Credit(m)
    BY OwnCredit DEF Has, Rows
  <1>2. QED
    BY <1>1, HasCount, MovesTypes, Unspoiled

-----------------------------------------------------------------------------
(* rm.                                                                     *)

LEMMA RmDirExact ==
  ASSUME NEW s, Moves(s), NEW i \in Id, RmDir(s, i)
  PROVE  Knows(s) /\ AllSettled
  <1>1. /\ my[s].cmd = "rm" /\ my[s].pc = "next" /\ real' = real
        /\ i \in DOMAIN file /\ file[i].file_md5 = NoMd5
        /\ DOMAIN file' = DOMAIN file \ {i} /\ \A j \in DOMAIN file' : file'[j] = file[j]
        /\ my'[s].cmd = "rm" /\ my'[s].pc = "list"
    BY MovesTypes DEF RmDir, At, IsDir, Local
  <1>2. ~OwesRow(my[s]) /\ ~OwesRow(my'[s]) /\ ~PastAdd(my[s]) /\ ~PastAdd(my'[s])
    BY <1>1 DEF OwesRow, PastAdd
  <1>3. Knows(s)
    BY <1>1 DEF Knows, RowsAsRead, CountAsRead, RealOf
  <1>4. ASSUME NEW m \in Md5 \ spoiled' PROVE Still(s, m)
    <2>1. \A j : j \in Rows(m) <=> j \in Rows(m)'
      BY <1>1, Unspoiled DEF Rows
    <2>2. QED
      BY <1>1, <1>2, <2>1 DEF Still, Owing, Ahead, PastAdd, Count
  <1>5. QED
    BY <1>3, <1>4, AllStill

LEMMA RmFileExact ==
  ASSUME NEW s, Moves(s), NEW i \in Id, RmFile(s, i)
  PROVE  Knows(s) /\ AllSettled
  <1>1. /\ my[s].cmd = "rm" /\ my[s].pc = "next" /\ UNCHANGED <<file, real>>
        /\ file[i].file_md5 # NoMd5
        /\ my'[s].cmd = "rm" /\ my'[s].pc = "dec" /\ my'[s].row = i /\ my'[s].md5 = file[i].file_md5
    BY MovesTypes DEF RmFile, At, IsDir, Local
  <1>2. Knows(s)
    BY <1>1 DEF Knows, RowsAsRead, CountAsRead, RealOf
  <1>3. QED
    BY <1>1, <1>2, ReadsSettled DEF OwesRow, PastAdd

\* A removal gives up a row only if its count was disturbed.
LEMMA RmUncountedExact ==
  ASSUME NEW s, Moves(s), RmUncounted(s)
  PROVE  Knows(s) /\ AllSettled
  <1>1. /\ my[s].cmd = "rm" /\ my[s].pc = "select" /\ UNCHANGED <<file, real>>
        /\ my[s].md5 \notin DOMAIN real /\ Proceed(s, my[s].todo)
    BY DEF RmUncounted, At
  <1>2. Knows(s) /\ ~OwesRow(my'[s]) /\ ~PastAdd(my'[s])
    BY <1>1, WalkKnows DEF RealOf
  <1>3. my[s].md5 \in spoiled /\ file[my[s].row].file_md5 = my[s].md5
    BY <1>1, MovesTypes DEF Moves, ExactInv, CountAsRead, RowsAsRead
  <1>4. ~PastAdd(my[s])
    BY <1>1 DEF PastAdd
  <1>5. ASSUME NEW m \in Md5 \ spoiled' PROVE Still(s, m)
    <2>1. my[s].row \notin Rows(m)
      BY <1>3, Unspoiled DEF Rows
    <2>2. \A i : (i \in Rows(m) /\ ~Owing(s, i)) <=> (i \in Rows(m) /\ ~Owing(s, i))'
      BY <1>1, <1>2, <2>1 DEF Rows, Owing
    <2>3. QED
      BY <1>1, <1>2, <1>4, <2>2 DEF Still, Ahead, PastAdd, Count
  <1>6. QED
    BY <1>2, <1>5, AllStill

LEMMA RmDeleteExact ==
  ASSUME NEW s, Moves(s), RmDelete(s)
  PROVE  Knows(s) /\ AllSettled
  <1>1. /\ my[s].cmd = "rm" /\ my[s].pc = "delete" /\ real' = real /\ Proceed(s, my[s].todo)
        /\ DOMAIN file' = DOMAIN file \ {my[s].row} /\ \A j \in DOMAIN file' : file'[j] = file[j]
    BY DEF RmDelete, At
  <1>2. Knows(s) /\ ~OwesRow(my'[s]) /\ ~PastAdd(my'[s])
    BY <1>1, WalkKnows DEF RealOf
  <1>3. OwesRow(my[s]) /\ ~PastAdd(my[s])
    BY <1>1 DEF OwesRow, PastAdd
  <1>4. ASSUME NEW m \in Md5 \ spoiled' PROVE Still(s, m)
    <2>1. \A i : (i \in Rows(m) /\ ~Owing(s, i)) <=> (i \in Rows(m) /\ ~Owing(s, i))'
      BY <1>1, <1>2, <1>3 DEF Rows, Owing
    <2>2. QED
      BY <1>1, <1>2, <1>3, <2>1 DEF Still, Ahead, PastAdd, Count
  <1>5. QED
    BY <1>2, <1>4, AllStill

LEMMA RmExact ==
  ASSUME NEW s, Moves(s), RmStep(s)
  PROVE  Knows(s) /\ AllSettled
  <1>1. ASSUME NEW i \in Id, StartRm(s, i) PROVE Knows(s) /\ AllSettled
    <2>1. my[s].pc = "idle" /\ UNCHANGED <<file, real>> /\ my'[s].cmd = "rm" /\ my'[s].pc = "next"
      BY <1>1, MovesTypes DEF StartRm, Local
    <2>2. Knows(s)
      BY <2>1 DEF Knows, RowsAsRead, CountAsRead, RealOf
    <2>3. QED
      BY <2>1, <2>2, IdleLocal, ReadsSettled DEF OwesRow, PastAdd
  <1>2. ASSUME NEW rest, At(s, {"rm"}, "next") \/ At(s, {"rm"}, "list"), Proceed(s, rest),
               UNCHANGED <<file, real>>
        PROVE  Knows(s) /\ AllSettled
    <2>1. Knows(s) /\ ~OwesRow(my'[s]) /\ ~PastAdd(my'[s])
      BY <1>2, WalkKnows DEF RealOf, At
    <2>2. ~OwesRow(my[s]) /\ ~PastAdd(my[s])
      BY <1>2 DEF At, OwesRow, PastAdd
    <2>3. QED
      BY <1>2, <2>1, <2>2, ReadsSettled
  <1>3. ASSUME NEW i \in Id, RmMissing(s, i) PROVE Knows(s) /\ AllSettled
    BY <1>2, <1>3 DEF RmMissing
  <1>4. CASE RmList(s)
    BY <1>2, <1>4 DEF RmList
  <1>5. QED
    BY <1>1, <1>3, <1>4, RmDirExact, RmFileExact, RmUncountedExact, RmDeleteExact DEF RmStep

-----------------------------------------------------------------------------
(* The statements on a count.                                              *)

LEMMA DecExact ==
  ASSUME NEW s, Moves(s), Dec(s)
  PROVE  Knows(s) /\ AllSettled
  <1>1. /\ my[s].cmd \in {"rm", "over", "into"} /\ my[s].pc = "dec" /\ Goto(s, "select")
        /\ real' = Counted(my[s].md5, -1) /\ file' = file
    BY DEF Dec, At
  <1>2. /\ my'[s].cmd = my[s].cmd /\ my'[s].pc = "select"
        /\ my'[s].row = my[s].row /\ my'[s].src = my[s].src /\ my'[s].md5 = my[s].md5
    BY <1>1, MovesTypes, GotoLocal
  <1>3. PICK r, c : r = my[s].row /\ c = my[s].md5
    OBVIOUS
  <1>4. Has(r, UserOf[s]) /\ file[r].file_md5 = c /\ c \in Md5
    <2>1. Has(r, UserOf[s]) /\ file[r].file_md5 = c
      BY <1>1, <1>3, MovesTypes DEF LocalInv, RmInv, OverInv, IntoInv
    <2>2. RowsAsRead(my[s]) /\ c \in Md5 \union {NoMd5}
      BY <1>3, MovesTypes DEF Moves, ExactInv, Local
    <2>3. QED
      BY <1>1, <1>3, <2>1, <2>2 DEF RowsAsRead, IsDir
  <1>5. /\ DOMAIN real' = DOMAIN real
        /\ \A k \in DOMAIN real : real'[k] = IF k = c THEN real[k] + (-1) ELSE real[k]
    BY <1>1, <1>3, MovesTypes, CountedIs
  <1>6. OwesRow(my'[s]) /\ ~OwesRow(my[s]) /\ (PastAdd(my'[s]) <=> PastAdd(my[s]))
    BY <1>1, <1>2 DEF OwesRow, PastAdd
  <1>7. Free(s, r)
    BY <1>4, OwnCredit
  <1>8. c \notin spoiled' => c \in DOMAIN real
    BY <1>4, <1>6, Vouched DEF Owing
  <1>9. Knows(s)
    <2>1. RealOf(s)
      BY <1>1, <1>3, <1>4, <1>5 DEF RealOf
    <2>2. RowsAsRead(my[s])'
      BY <1>1, <1>2, MovesTypes DEF Moves, ExactInv, RowsAsRead, IsDir
    <2>3. QED
      BY <1>1, <1>2, <1>3, <1>5, <1>8, <2>1, <2>2 DEF Knows, CountAsRead
  <1>10. ASSUME NEW m \in Md5 \ spoiled', m # c PROVE Still(s, m)
    BY <1>1, <1>2, <1>3, <1>4, <1>5, <1>6, <1>10 DEF Still, Rows, Owing, Ahead, PastAdd, Count
  <1>11. ASSUME NEW m \in Md5 \ spoiled', m = c PROVE Settled(m)'
    <2>1. Leaves(s, m, r)
      BY <1>1, <1>2, <1>3, <1>4, <1>6, <1>7, <1>11 DEF Leaves, Rows, Owing, Has
    <2>2. s \in Ahead(m) <=> s \in Ahead(m)'
      BY <1>1, <1>2, <1>6 DEF Ahead, PastAdd, Rows
    <2>3. Cardinality(Credit(m)') = Cardinality(Credit(m)) - 1 /\ Ahead(m)' = Ahead(m)
      BY <2>1, <2>2, CreditLeft, AheadSame
    <2>4. Count(m)' = Count(m) - 1
      BY <1>5, <1>8, <1>11, MovesTypes DEF Count, TypeOK
    <2>5. QED
      BY <2>3, <2>4, Unspoiled, MovesTypes, Sizes DEF Settled
  <1>12. QED
    BY <1>9, <1>10, <1>11, Unspoiled, StillSettled DEF AllSettled

LEMMA SelectExact ==
  ASSUME NEW s, Moves(s), Select(s)
  PROVE  Knows(s) /\ AllSettled
  <1>1. PICK place \in {"erase", "delete", "read"} :
          /\ my[s].cmd \in {"rm", "over", "into"} /\ my[s].pc = "select"
          /\ UNCHANGED <<file, real>> /\ Goto(s, place) /\ my[s].md5 \in DOMAIN real
          /\ place = "erase" => real[my[s].md5] = 0
          /\ place = "delete" => my[s].cmd = "rm"
          /\ place = "read" => my[s].cmd # "rm"
    BY DEF Select, At, AfterDec
  <1>2. /\ my'[s].cmd = my[s].cmd /\ my'[s].pc = place
        /\ my'[s].row = my[s].row /\ my'[s].src = my[s].src /\ my'[s].md5 = my[s].md5
    BY <1>1, MovesTypes, GotoLocal
  <1>3. RowsAsRead(my[s])'
    BY <1>1, <1>2, MovesTypes DEF Moves, ExactInv, RowsAsRead, IsDir
  <1>4. CountAsRead(my[s])'
    BY <1>1, <1>2 DEF CountAsRead
  <1>5. Knows(s)
    BY <1>1, <1>2, <1>3, <1>4 DEF Knows, RealOf
  <1>6. OwesRow(my'[s]) /\ OwesRow(my[s]) /\ (PastAdd(my'[s]) <=> PastAdd(my[s]))
    BY <1>1, <1>2 DEF OwesRow, PastAdd
  <1>7. QED
    BY <1>1, <1>2, <1>5, <1>6, ReadsSettled

\* The row of file_real goes when its count is 0: nothing else is counted by it.
LEMMA EraseExact ==
  ASSUME NEW s, Moves(s), Erase(s)
  PROVE  Knows(s) /\ AllSettled
  <1>1. PICK place \in {"delete", "read"} :
          /\ my[s].cmd \in {"rm", "over", "into"} /\ my[s].pc = "erase" /\ Goto(s, place)
          /\ real' = [m \in DOMAIN real \ {my[s].md5} |-> real[m]] /\ file' = file
          /\ place = "delete" => my[s].cmd = "rm"
          /\ place = "read" => my[s].cmd # "rm"
    BY DEF Erase, At, AfterDec
  <1>2. /\ my'[s].cmd = my[s].cmd /\ my'[s].pc = place
        /\ my'[s].row = my[s].row /\ my'[s].src = my[s].src /\ my'[s].md5 = my[s].md5
    BY <1>1, MovesTypes, GotoLocal
  <1>3. my[s].md5 \in Md5
    <2>1. RowsAsRead(my[s]) /\ my[s].md5 \in Md5 \union {NoMd5}
      BY MovesTypes DEF Moves, ExactInv, Local
    <2>2. QED
      BY <1>1, <2>1 DEF RowsAsRead, IsDir
  <1>4. Knows(s)
    <2>1. RowsAsRead(my[s])'
      BY <1>1, <1>2, MovesTypes DEF Moves, ExactInv, RowsAsRead, IsDir
    <2>2. CountAsRead(my[s])'
      BY <1>1, <1>2 DEF CountAsRead
    <2>3. RealOf(s)
      BY <1>1, <1>3 DEF RealOf
    <2>4. QED
      BY <1>1, <1>2, <2>1, <2>2, <2>3 DEF Knows
  <1>5. OwesRow(my'[s]) /\ OwesRow(my[s]) /\ (PastAdd(my'[s]) <=> PastAdd(my[s]))
    BY <1>1, <1>2 DEF OwesRow, PastAdd
  <1>6. ASSUME NEW m \in Md5 \ spoiled' PROVE Still(s, m)
    <2>1. Count(m)' = Count(m)
      <3>1. m = my[s].md5 => m \in DOMAIN real /\ real[m] = 0
        BY <1>1, Unspoiled, MovesTypes DEF Moves, ExactInv, CountAsRead
      <3>2. QED
        BY <1>1, <3>1 DEF Count
    <2>2. QED
      BY <1>1, <1>2, <1>5, <2>1 DEF Still, Rows, Owing, Ahead, PastAdd
  <1>7. QED
    BY <1>4, <1>6, AllStill

LEMMA OnwardKnows ==
  ASSUME NEW s, Moves(s), RealOf(s), Onward(s)
  PROVE  Knows(s) /\ ~OwesRow(my'[s]) /\ ~PastAdd(my'[s])
  BY WalkKnows, DoneKnows DEF Onward

\* A row that has been inserted or changed is counted.
LEMMA AddExact ==
  ASSUME NEW s, Moves(s), Add(s)
  PROVE  Knows(s) /\ AllSettled
  <1>1. /\ my[s].cmd \in {"new", "over", "tree", "upload"} /\ my[s].pc = "add" /\ Onward(s)
        /\ real' = Counted(my[s].md5, 1) /\ file' = file
    BY DEF Add, At
  <1>2. PICK r, c : r = my[s].row /\ c = my[s].md5
    OBVIOUS
  <1>3. Has(r, UserOf[s]) /\ file[r].file_md5 = c /\ OwesRow(my[s]) /\ ~PastAdd(my[s])
    BY <1>1, <1>2, MovesTypes DEF LocalInv, OverInv, InsertedInv, OwesRow, PastAdd
  <1>4. /\ DOMAIN real' = DOMAIN real
        /\ \A k \in DOMAIN real : real'[k] = IF k = c THEN real[k] + 1 ELSE real[k]
    BY <1>1, <1>2, MovesTypes, CountedIs
  <1>5. RealOf(s)
    <2>1. CASE c \in Md5
      BY <1>1, <1>2, <1>4, <2>1 DEF RealOf
    <2>2. CASE c \notin Md5
      <3>1. c \notin DOMAIN real
        BY <2>2, MovesTypes DEF TypeOK
      <3>2. QED
        BY <1>1, <1>2, <3>1 DEF RealOf, Counted
    <2>3. QED
      BY <2>1, <2>2
  <1>6. Knows(s) /\ ~OwesRow(my'[s]) /\ ~PastAdd(my'[s])
    BY <1>1, <1>5, OnwardKnows
  <1>7. Free(s, r)
    BY <1>3, OwnCredit
  <1>8. c \in Md5 \ spoiled' => c \in DOMAIN real
    <2>1. SUFFICES ASSUME c \in Md5 \ spoiled' PROVE c \in DOMAIN real
      OBVIOUS
    <2>2. CASE my[s].cmd = "over"
      <3>1. file[my[s].src].file_md5 = c /\ Has(my[s].src, UserOf[s])
        BY <1>1, <1>2, <2>2, MovesTypes DEF Moves, ExactInv, RowsAsRead, LocalInv, OverInv
      <3>2. my[s].src # r
        <4>1. c \in Held(s)
          BY <1>1, <1>2, <2>1, Md5Assumption DEF Held
        <4>2. QED
          BY <1>2, <2>1, <2>2, <4>1, Unspoiled, MovesTypes DEF Clash
      <3>3. QED
        BY <1>2, <2>1, <3>1, <3>2, Vouched DEF Owing
    <2>3. CASE my[s].cmd # "over"
      BY <1>1, <1>2, <2>1, <2>3, Unspoiled, MovesTypes DEF Moves, ExactInv, CountAsRead
    <2>4. QED
      BY <2>2, <2>3
  <1>9. ASSUME NEW m \in Md5 \ spoiled', m # c PROVE Still(s, m)
    BY <1>1, <1>2, <1>3, <1>4, <1>6, <1>9 DEF Still, Rows, Owing, Ahead, PastAdd, Count
  <1>10. ASSUME NEW m \in Md5 \ spoiled', m = c PROVE Settled(m)'
    <2>1. Joins(s, m, r)
      BY <1>1, <1>2, <1>3, <1>6, <1>7, <1>10 DEF Joins, Rows, Owing, Has
    <2>2. s \in Ahead(m) <=> s \in Ahead(m)'
      BY <1>3, <1>6 DEF Ahead, PastAdd
    <2>3. Cardinality(Credit(m)') = Cardinality(Credit(m)) + 1 /\ Ahead(m)' = Ahead(m)
      BY <2>1, <2>2, CreditJoined, AheadSame
    <2>4. Count(m)' = Count(m) + 1
      BY <1>4, <1>8, <1>10, MovesTypes DEF Count, TypeOK
    <2>5. QED
      BY <2>3, <2>4, Unspoiled, MovesTypes, Sizes DEF Settled
  <1>11. QED
    BY <1>6, <1>9, <1>10, Unspoiled, StillSettled DEF AllSettled

\* A copy into a directory counts its new row before it changes it.
LEMMA AddFirstExact ==
  ASSUME NEW s, Moves(s), AddFirst(s)
  PROVE  Knows(s) /\ AllSettled
  <1>1. /\ my[s].cmd = "into" /\ my[s].pc = "add" /\ Goto(s, "dest")
        /\ real' = Counted(my[s].md5, 1) /\ file' = file
    BY DEF AddFirst, At
  <1>2. /\ my'[s].cmd = my[s].cmd /\ my'[s].pc = "dest"
        /\ my'[s].row = my[s].row /\ my'[s].src = my[s].src /\ my'[s].md5 = my[s].md5
    BY <1>1, MovesTypes, GotoLocal
  <1>3. PICK i, c : i = my[s].src /\ c = my[s].md5
    OBVIOUS
  <1>4. Has(i, UserOf[s]) /\ file[i].file_md5 = c /\ c \in Md5
    <2>1. Has(i, UserOf[s]) /\ file[i].file_md5 = c
      BY <1>1, <1>3, MovesTypes DEF LocalInv, IntoInv
    <2>2. RowsAsRead(my[s]) /\ c \in Md5 \union {NoMd5}
      BY <1>3, MovesTypes DEF Moves, ExactInv, Local
    <2>3. QED
      BY <1>1, <1>3, <2>1, <2>2 DEF RowsAsRead, IsDir
  <1>5. /\ DOMAIN real' = DOMAIN real
        /\ \A k \in DOMAIN real : real'[k] = IF k = c THEN real[k] + 1 ELSE real[k]
    BY <1>1, <1>3, MovesTypes, CountedIs
  <1>6. ~OwesRow(my'[s]) /\ ~OwesRow(my[s]) /\ PastAdd(my'[s]) /\ ~PastAdd(my[s])
    BY <1>1, <1>2 DEF OwesRow, PastAdd
  <1>7. Knows(s)
    <2>1. RealOf(s)
      BY <1>1, <1>3, <1>4, <1>5 DEF RealOf
    <2>2. RowsAsRead(my[s])'
      BY <1>1, <1>2, MovesTypes DEF Moves, ExactInv, RowsAsRead, IsDir
    <2>3. QED
      BY <1>1, <1>2, <2>1, <2>2 DEF Knows, CountAsRead
  <1>8. ASSUME NEW m \in Md5 \ spoiled', m # c PROVE Still(s, m)
    BY <1>1, <1>2, <1>3, <1>4, <1>5, <1>6, <1>8 DEF Still, Rows, Owing, Ahead, PastAdd, Count
  <1>9. ASSUME NEW m \in Md5 \ spoiled', m = c PROVE Settled(m)'
    <2>1. Credit(m)' = Credit(m)
      <3>1. \A j : j \in Credit(m) <=> j \in Credit(m)'
        BY <1>1, <1>6, CreditParts DEF Rows, Owing
      <3>2. QED
        BY <3>1
    <2>2. s \notin Ahead(m) /\ s \in Ahead(m)'
      BY <1>1, <1>2, <1>3, <1>4, <1>6, <1>9, MovesTypes DEF Ahead, PastAdd, Rows, Has
    <2>3. Cardinality(Ahead(m)') = Cardinality(Ahead(m)) + 1
      BY <2>2, AheadJoined
    <2>4. m \in DOMAIN real
      BY <1>4, <1>6, <1>9, Vouched DEF Owing
    <2>5. Count(m)' = Count(m) + 1
      BY <1>5, <1>9, <2>4, MovesTypes DEF Count, TypeOK
    <2>6. QED
      BY <2>1, <2>3, <2>5, Unspoiled, MovesTypes, Sizes DEF Settled
  <1>10. QED
    BY <1>7, <1>8, <1>9, Unspoiled, StillSettled DEF AllSettled

LEMMA CountExact ==
  ASSUME NEW s, Moves(s), CountStep(s)
  PROVE  Knows(s) /\ AllSettled
  BY DecExact, SelectExact, EraseExact, AddExact, AddFirstExact DEF CountStep

-----------------------------------------------------------------------------
(* cp of a file.                                                           *)

LEMMA StartNewExact ==
  ASSUME NEW s, Moves(s), NEW i \in Id, NEW f \in 0..MaxId, StartNew(s, i, f)
  PROVE  Knows(s) /\ AllSettled
  <1>1. /\ my[s].pc = "idle" /\ UNCHANGED <<file, real>> /\ i \in Files(s)
        /\ my'[s].cmd = "new" /\ my'[s].pc = "insert" /\ my'[s].md5 = file[i].file_md5
    BY MovesTypes DEF StartNew, Local
  <1>2. Has(i, UserOf[s]) /\ file[i].file_md5 \in Md5
    BY <1>1, MovesTypes DEF Files, Found, Own, Has, IsDir, TypeOK, Row
  <1>3. my'[s].md5 \notin spoiled' => my'[s].md5 \in DOMAIN real
    BY <1>1, <1>2, IdleLocal, Vouched DEF Owing
  <1>4. Knows(s)
    BY <1>1, <1>3 DEF Knows, RowsAsRead, CountAsRead, RealOf
  <1>5. QED
    BY <1>1, <1>4, IdleLocal, ReadsSettled DEF OwesRow, PastAdd

LEMMA StartOnExact ==
  ASSUME NEW s, Moves(s), NEW i \in Id, NEW j \in Id, StartOver(s, i, j) \/ StartInto(s, i, j)
  PROVE  Knows(s) /\ AllSettled
  <1>1. /\ my[s].pc = "idle" /\ UNCHANGED <<file, real>> /\ i \in Files(s) /\ j \in Files(s)
        /\ my'[s].row = j /\ my'[s].src = i
        /\ \/ my'[s].cmd = "over" /\ my'[s].pc = "dec" /\ my'[s].md5 = file[j].file_md5
           \/ my'[s].cmd = "into" /\ my'[s].pc = "add" /\ my'[s].md5 = file[i].file_md5
    BY MovesTypes DEF StartOver, StartInto, Local
  <1>2. Knows(s)
    BY <1>1 DEF Knows, RowsAsRead, CountAsRead, RealOf, Files, IsDir
  <1>3. QED
    BY <1>1, <1>2, IdleLocal, ReadsSettled DEF OwesRow, PastAdd

LEMMA ReadsExact ==
  ASSUME NEW s, Moves(s), ReadDest(s) \/ ReadSrc(s)
  PROVE  Knows(s) /\ AllSettled
  <1>1. /\ my[s].cmd \in {"over", "into"} /\ UNCHANGED <<file, real>>
        /\ my'[s].cmd = my[s].cmd /\ my'[s].row = my[s].row /\ my'[s].src = my[s].src
        /\ \/ /\ my[s].cmd = "into" /\ my[s].pc = "dest" /\ my'[s].pc = "dec"
              /\ my'[s].md5 = file[my[s].row].file_md5
           \/ /\ my[s].pc = "read" /\ my'[s].pc = "update"
              /\ my'[s].md5 = file[my[s].src].file_md5
    BY MovesTypes DEF ReadDest, ReadSrc, At, Local
  <1>2. RowsAsRead(my[s])'
    BY <1>1, MovesTypes DEF Moves, ExactInv, RowsAsRead, IsDir
  <1>3. Knows(s)
    BY <1>1, <1>2 DEF Knows, CountAsRead, RealOf
  <1>4. QED
    BY <1>1, <1>3, ReadsSettled DEF OwesRow, PastAdd

LEMMA UpdateExact ==
  ASSUME NEW s, Moves(s), Update(s)
  PROVE  Knows(s) /\ AllSettled
  <1>1. /\ my[s].cmd \in {"over", "into"} /\ my[s].pc = "update" /\ real' = real
        /\ file' = [i \in DOMAIN file |-> IF i = my[s].row
                      THEN [file[i] EXCEPT !.file_md5 = my[s].md5] ELSE file[i]]
        /\ IF my[s].cmd = "over" THEN Goto(s, "add") ELSE Done(s)
    BY DEF Update, At
  <1>2. PICK r, c : r = my[s].row /\ c = my[s].md5
    OBVIOUS
  <1>3. /\ Has(r, UserOf[s]) /\ OwesRow(my[s]) /\ file[my[s].src].file_md5 = c /\ c # NoMd5
        /\ Has(my[s].src, UserOf[s])
    BY <1>1, <1>2, MovesTypes
       DEF Moves, ExactInv, RowsAsRead, IsDir, LocalInv, OverInv, IntoInv, OwesRow
  <1>4. /\ DOMAIN file' = DOMAIN file
        /\ \A i \in DOMAIN file : i # r => file'[i] = file[i]
        /\ file'[r].file_md5 = c
    BY <1>1, <1>2, <1>3, MovesTypes DEF TypeOK, Row, Has
  <1>5. Free(s, r)
    BY <1>3, OwnCredit
  <1>6. CASE my[s].cmd = "over"
    <2>1. /\ my'[s].cmd = "over" /\ my'[s].pc = "add" /\ my'[s].row = r
          /\ my'[s].src = my[s].src /\ my'[s].md5 = c
      BY <1>1, <1>2, <1>6, MovesTypes, GotoLocal
    <2>2. file'[my[s].src].file_md5 = c
      BY <1>3, <1>4 DEF Has
    <2>3. Knows(s)
      BY <1>1, <1>3, <1>4, <2>1, <2>2 DEF Knows, RowsAsRead, CountAsRead, RealOf, IsDir
    <2>4. OwesRow(my'[s]) /\ ~PastAdd(my[s]) /\ ~PastAdd(my'[s])
      BY <1>6, <2>1 DEF OwesRow, PastAdd
    <2>5. ASSUME NEW m \in Md5 \ spoiled' PROVE Still(s, m)
      BY <1>1, <1>2, <1>3, <1>4, <2>1, <2>4 DEF Still, Rows, Owing, Ahead, PastAdd, Count
    <2>6. QED
      BY <2>3, <2>5, AllStill
  <1>7. CASE my[s].cmd = "into"
    <2>1. Knows(s) /\ ~OwesRow(my'[s]) /\ ~PastAdd(my'[s])
      BY <1>1, <1>7, DoneKnows DEF RealOf
    <2>2. PastAdd(my[s])
      BY <1>1, <1>7 DEF PastAdd
    <2>3. \A m : s \notin Ahead(m)' /\ (s \in Ahead(m) <=> m = c)
      BY <1>3, <2>1, <2>2, MovesTypes DEF Ahead, PastAdd, Rows, Has
    <2>4. ASSUME NEW m \in Md5 \ spoiled', m # c PROVE Still(s, m)
      BY <1>1, <1>2, <1>3, <1>4, <2>1, <2>3, <2>4 DEF Still, Rows, Owing, Count
    <2>5. ASSUME NEW m \in Md5 \ spoiled', m = c PROVE Settled(m)'
      <3>1. Joins(s, m, r)
        BY <1>1, <1>2, <1>3, <1>4, <1>5, <2>1, <2>5 DEF Joins, Rows, Owing, Has
      <3>2. Cardinality(Credit(m)') = Cardinality(Credit(m)) + 1
        BY <3>1, CreditJoined
      <3>3. Cardinality(Ahead(m)') = Cardinality(Ahead(m)) - 1
        BY <2>3, <2>5, AheadLeft
      <3>4. Count(m)' = Count(m)
        BY <1>1 DEF Count
      <3>5. QED
        BY <3>2, <3>3, <3>4, Unspoiled, MovesTypes, Sizes DEF Settled
    <2>6. QED
      BY <2>1, <2>4, <2>5, Unspoiled, StillSettled DEF AllSettled
  <1>8. QED
    BY <1>1, <1>6, <1>7

LEMMA CopyExact ==
  ASSUME NEW s, Moves(s), CopyStep(s)
  PROVE  Knows(s) /\ AllSettled
  BY StartNewExact, StartOnExact, ReadsExact, UpdateExact DEF CopyStep

-----------------------------------------------------------------------------
(* mkdir, and cp of a directory.                                           *)

\* An inserted row is the row of a directory, or owed by the session.
LEMMA InsertExact ==
  ASSUME NEW s, Moves(s), NEW row, Insert(row), real' = real,
         ~OwesRow(my[s]), ~PastAdd(my[s]), ~PastAdd(my'[s]),
         OwesRow(my'[s]) => my'[s].row = next,
         row.file_md5 = NoMd5 \/ OwesRow(my'[s])
  PROVE  AllSettled
  <1>1. /\ next \notin DOMAIN file /\ DOMAIN file' = DOMAIN file \union {next} /\ file'[next] = row
        /\ \A i \in DOMAIN file : file'[i] = file[i]
    BY MovesTypes DEF Insert
  <1>2. ASSUME NEW m \in Md5 \ spoiled' PROVE Still(s, m)
    <2>1. m # NoMd5
      BY Unspoiled
    <2>2. \A i : (i \in Rows(m) /\ ~Owing(s, i)) <=> (i \in Rows(m) /\ ~Owing(s, i))'
      BY <1>1, <2>1 DEF Rows, Owing
    <2>3. QED
      BY <2>2 DEF Still, Ahead, PastAdd, Count
  <1>3. QED
    BY <1>2, AllStill

LEMMA TreeFileExact ==
  ASSUME NEW s, Moves(s), NEW t \in my[s].todo, TreeFile(s, t)
  PROVE  Knows(s) /\ AllSettled
  <1>1. PICK c : c = file[t[1]].file_md5
    OBVIOUS
  <1>2. /\ my[s].cmd = "tree" /\ my[s].pc = "next" /\ UNCHANGED <<file, real>>
        /\ t[1] \in DOMAIN file /\ c \in Md5
        /\ my'[s].cmd = "tree" /\ my'[s].pc = "insert" /\ my'[s].md5 = c
    BY <1>1, MovesTypes DEF TreeFile, At, IsDir, Local, TypeOK, Row
  <1>3. c \notin spoiled' => c \in DOMAIN real
    <2>1. SUFFICES ASSUME c \notin spoiled' PROVE c \in DOMAIN real
      OBVIOUS
    <2>2. ASSUME NEW q \in Session \ {s}, Owing(q, t[1]) PROVE FALSE
      <3>1. my'[q] = my[q] /\ my[q].pc # "receive" /\ my[q].row = t[1]
        BY <2>2 DEF Moves, OnlyOf, Owing, OwesRow
      <3>2. c \in Held(q)' /\ c \in Held(s)'
        BY <1>1, <1>2, <3>1, Md5Assumption DEF Held
      <3>3. c \in Clash'
        BY <1>2, <3>2, MovesTypes DEF Clash
      <3>4. QED
        BY <2>1, <3>3 DEF Moves
    <2>3. ~Owing(s, t[1])
      BY <1>2 DEF Owing, OwesRow
    <2>4. t[1] \in Credit(c)
      BY <1>1, <1>2, <2>2, <2>3, CreditParts DEF Free, Rows
    <2>5. QED
      BY <1>2, <2>1, <2>4, HasCount, Unspoiled, MovesTypes
  <1>4. Knows(s)
    BY <1>2, <1>3 DEF Knows, RowsAsRead, CountAsRead, RealOf
  <1>5. QED
    BY <1>2, <1>4, ReadsSettled DEF OwesRow, PastAdd

LEMMA TreeExact ==
  ASSUME NEW s, Moves(s), TreeStep(s)
  PROVE  Knows(s) /\ AllSettled
  <1>1. ASSUME NEW f \in 0..MaxId, Mkdir(s, f) PROVE Knows(s) /\ AllSettled
    <2>1. PICK row : Insert(row) /\ row.file_md5 = NoMd5
      BY <1>1 DEF Mkdir, NewRow
    <2>2. my[s].pc = "idle" /\ my'[s] = my[s] /\ real' = real
      BY <1>1 DEF Mkdir
    <2>3. my'[s] = Idle /\ RealOf(s)
      BY <2>2, IdleLocal DEF RealOf
    <2>4. QED
      BY <2>1, <2>2, <2>3, IdleLocal, Ends, InsertExact
  <1>2. ASSUME NEW i \in Id, NEW f \in 0..MaxId, StartTree(s, i, f) PROVE Knows(s) /\ AllSettled
    <2>1. my[s].pc = "idle" /\ UNCHANGED <<file, real>> /\ my'[s].cmd = "tree" /\ my'[s].pc = "next"
      BY <1>2, MovesTypes DEF StartTree, Local
    <2>2. Knows(s)
      BY <2>1 DEF Knows, RowsAsRead, CountAsRead, RealOf
    <2>3. QED
      BY <2>1, <2>2, IdleLocal, ReadsSettled DEF OwesRow, PastAdd
  <1>3. ASSUME NEW t \in my[s].todo, TreeDir(s, t) PROVE Knows(s) /\ AllSettled
    <2>1. PICK row : Insert(row) /\ row.file_md5 = NoMd5
      BY <1>3 DEF TreeDir, NewRow
    <2>2. /\ my[s].cmd = "tree" /\ my[s].pc = "next" /\ real' = real
          /\ my'[s].cmd = "tree" /\ my'[s].pc = "max"
      BY <1>3, MovesTypes DEF TreeDir, At, Local
    <2>3. Knows(s)
      BY <2>2 DEF Knows, RowsAsRead, CountAsRead, RealOf
    <2>4. QED
      BY <2>1, <2>2, <2>3, InsertExact DEF OwesRow, PastAdd
  <1>4. ASSUME NEW i \in Id, TreeMax(s, i) PROVE Knows(s) /\ AllSettled
    <2>1. /\ my[s].cmd = "tree" /\ my[s].pc = "max" /\ UNCHANGED <<file, real>>
          /\ my'[s].cmd = "tree" /\ my'[s].pc = "list"
      BY <1>4, MovesTypes DEF TreeMax, At, Local
    <2>2. Knows(s)
      BY <2>1 DEF Knows, RowsAsRead, CountAsRead, RealOf
    <2>3. QED
      BY <2>1, <2>2, ReadsSettled DEF OwesRow, PastAdd
  <1>5. CASE TreeList(s)
    <2>1. PICK rest : /\ my[s].cmd = "tree" /\ my[s].pc = "list" /\ UNCHANGED <<file, real>>
                      /\ Proceed(s, rest)
      BY <1>5 DEF TreeList, At
    <2>2. Knows(s) /\ ~OwesRow(my'[s]) /\ ~PastAdd(my'[s])
      BY <2>1, WalkKnows DEF RealOf
    <2>3. QED
      BY <2>1, <2>2, ReadsSettled DEF OwesRow, PastAdd
  <1>6. QED
    BY <1>1, <1>2, <1>3, <1>4, <1>5, TreeFileExact DEF TreeStep

-----------------------------------------------------------------------------
(* upload.                                                                 *)

LEMMA InsertFileExact ==
  ASSUME NEW s, Moves(s), InsertFile(s)
  PROVE  Knows(s) /\ AllSettled
  <1>1. PICK row : Insert(row)
    BY DEF InsertFile
  <1>2. /\ my[s].cmd \in {"new", "tree", "upload"} /\ my[s].pc = "insert" /\ real' = real
        /\ my'[s].cmd = my[s].cmd /\ my'[s].row = next /\ my'[s].md5 = my[s].md5
        /\ my'[s].found = my[s].found
        /\ \/ my'[s].pc = "enter" /\ my[s].cmd = "upload" /\ ~my[s].found
           \/ my'[s].pc = "add" /\ (my[s].cmd = "upload" => my[s].found)
    BY MovesTypes DEF InsertFile, At, Local
  <1>3. ~OwesRow(my[s]) /\ OwesRow(my'[s]) /\ ~PastAdd(my[s]) /\ ~PastAdd(my'[s])
    BY <1>2 DEF OwesRow, PastAdd
  <1>4. my'[s].md5 \notin spoiled' => CountAsRead(my[s])'
    BY <1>2, MovesTypes DEF Moves, ExactInv, CountAsRead
  <1>5. Knows(s)
    BY <1>2, <1>4 DEF Knows, RowsAsRead, RealOf
  <1>6. QED
    BY <1>1, <1>2, <1>3, <1>5, InsertExact

LEMMA EnterExact ==
  ASSUME NEW s, Moves(s), Enter(s)
  PROVE  Knows(s) /\ AllSettled
  <1>1. /\ my[s].cmd = "upload" /\ my[s].pc = "enter" /\ file' = file
        /\ real' = [m \in DOMAIN real \union {my[s].md5} |-> IF m \in DOMAIN real THEN real[m] ELSE 1]
        /\ IF my[s].full THEN Done(s) ELSE Goto(s, "receive")
    BY DEF Enter, At
  <1>2. PICK r, c : r = my[s].row /\ c = my[s].md5
    OBVIOUS
  <1>3. Has(r, UserOf[s]) /\ file[r].file_md5 = c /\ c \in Md5 /\ OwesRow(my[s]) /\ ~PastAdd(my[s])
    BY <1>1, <1>2, MovesTypes DEF IInv, UploadInv, LocalInv, InsertedInv, OwesRow, PastAdd
  <1>4. RealOf(s)
    BY <1>1, <1>2, <1>3 DEF RealOf
  <1>5. Knows(s) /\ ~OwesRow(my'[s]) /\ ~PastAdd(my'[s])
    <2>1. CASE my[s].full
      BY <1>1, <1>4, <2>1, DoneKnows
    <2>2. CASE ~my[s].full
      <3>1. my'[s].cmd = "upload" /\ my'[s].pc = "receive"
        BY <1>1, <2>2, GotoLocal, MovesTypes
      <3>2. QED
        BY <1>4, <3>1 DEF Knows, RowsAsRead, CountAsRead, OwesRow, PastAdd
    <2>3. QED
      BY <2>1, <2>2
  <1>6. Free(s, r)
    BY <1>3, OwnCredit
  <1>7. ASSUME NEW m \in Md5 \ spoiled', m # c PROVE Still(s, m)
    BY <1>1, <1>2, <1>3, <1>5, <1>7 DEF Still, Rows, Owing, Ahead, PastAdd, Count
  <1>8. ASSUME NEW m \in Md5 \ spoiled', m = c PROVE Settled(m)'
    <2>1. Joins(s, m, r)
      BY <1>1, <1>2, <1>3, <1>5, <1>6, <1>8 DEF Joins, Rows, Owing, Has
    <2>2. s \in Ahead(m) <=> s \in Ahead(m)'
      BY <1>3, <1>5 DEF Ahead, PastAdd
    <2>3. Cardinality(Credit(m)') = Cardinality(Credit(m)) + 1 /\ Ahead(m)' = Ahead(m)
      BY <2>1, <2>2, CreditJoined, AheadSame
    <2>4. m \notin DOMAIN real
      BY <1>1, <1>2, <1>8, Unspoiled, MovesTypes DEF Moves, ExactInv, CountAsRead
    <2>5. Count(m) = 0 /\ Count(m)' = 1
      BY <1>1, <1>2, <1>8, <2>4 DEF Count
    <2>6. QED
      BY <2>3, <2>5, Unspoiled, MovesTypes, Sizes DEF Settled
  <1>9. QED
    BY <1>5, <1>7, <1>8, Unspoiled, StillSettled DEF AllSettled

LEMMA UploadExact ==
  ASSUME NEW s, Moves(s), UploadStep(s)
  PROVE  Knows(s) /\ AllSettled
  <1>1. ASSUME NEW m \in Md5, NEW f \in 0..MaxId, StartUpload(s, m, f) PROVE Knows(s) /\ AllSettled
    <2>1. my[s].pc = "idle" /\ UNCHANGED <<file, real>> /\ my'[s].cmd = "upload" /\ my'[s].pc = "lookup"
      BY <1>1, MovesTypes DEF StartUpload, Local
    <2>2. Knows(s)
      BY <2>1 DEF Knows, RowsAsRead, CountAsRead, RealOf
    <2>3. QED
      BY <2>1, <2>2, IdleLocal, ReadsSettled DEF OwesRow, PastAdd
  <1>2. CASE Lookup(s)
    <2>1. /\ my[s].cmd = "upload" /\ my[s].pc = "lookup" /\ UNCHANGED <<file, real>>
          /\ my'[s].cmd = "upload" /\ my'[s].pc \in {"receive", "insert"} /\ my'[s].md5 = my[s].md5
          /\ my'[s].found <=> my[s].md5 \in DOMAIN real
      BY <1>2, MovesTypes DEF Lookup, At, Local
    <2>2. Knows(s)
      BY <2>1 DEF Knows, RowsAsRead, CountAsRead, RealOf
    <2>3. QED
      BY <2>1, <2>2, ReadsSettled DEF OwesRow, PastAdd
  <1>3. CASE Receive(s)
    <2>1. my[s].cmd = "upload" /\ my[s].pc = "receive" /\ UNCHANGED <<file, real>> /\ Done(s)
      BY <1>3 DEF Receive, At
    <2>2. Knows(s) /\ ~OwesRow(my'[s]) /\ ~PastAdd(my'[s])
      BY <2>1, DoneKnows DEF RealOf
    <2>3. QED
      BY <2>1, <2>2, ReadsSettled DEF OwesRow, PastAdd
  <1>4. QED
    BY <1>1, <1>2, <1>3, InsertFileExact, EnterExact DEF UploadStep

-----------------------------------------------------------------------------
(* The theorems on the counts.                                             *)

LEMMA StepMoves ==
  ASSUME ExactInv, OneSessionEach, SessionStep
  PROVE  IInv' /\ \E s \in Session : Step(s) /\ Moves(s)
  <1>1. PICK s \in Session : Step(s)
    BY DEF SessionStep
  <1>2. IInv /\ IInv'
    BY SessionCounts DEF ExactInv
  <1>3. leaked' = leaked /\ spoiled \subseteq spoiled' /\ Clash' \subseteq spoiled'
    BY DEF SessionStep
  <1>4. TablesOK' /\ OnlyOf(s)
    BY <1>1, <1>2, StepTypes DEF IInv
  <1>5. OwnRows(s)
    BY <1>1, <1>2, <1>3, <1>4, RmKeeps, CountKeeps, CopyKeeps, TreeKeeps, UploadKeeps DEF Step, Kept
  <1>6. QED
    BY <1>1, <1>2, <1>3, <1>4, <1>5 DEF Moves

LEMMA StepExact ==
  ASSUME NEW s, Moves(s), Step(s)
  PROVE  ExactInv'
  <1>1. Knows(s) /\ AllSettled
    BY RmExact, CountExact, CopyExact, TreeExact, UploadExact DEF Step
  <1>2. ASSUME NEW t \in Session
        PROVE  /\ my'[t].pc = "idle" => my'[t] = Idle
               /\ RowsAsRead(my[t])'
               /\ my'[t].md5 \notin spoiled' => CountAsRead(my[t])'
    <2>1. CASE t = s
      BY <1>1, <2>1 DEF Knows
    <2>2. CASE t # s
      <3>1. my'[t].pc = "idle" => my'[t] = Idle
        BY <2>2 DEF Moves, OnlyOf, ExactInv
      <3>2. QED
        BY <1>1, <2>2, <3>1, OthersRows, OthersCount DEF Knows
    <2>3. QED
      BY <2>1, <2>2
  <1>3. IInv' /\ Clash' \subseteq spoiled'
    BY DEF Moves
  <1>4. QED
    BY <1>1, <1>2, <1>3 DEF ExactInv, AllSettled

\* An end of the server spoils the contents that a command was working on.
LEMMA EndExact ==
  ASSUME ExactInv, ServerEnds
  PROVE  ExactInv'
  <1>1. IInv /\ IInv' /\ TypeOK /\ TypeOK' /\ 0 \notin DOMAIN file
    BY EndCounts, MaxIdAssumption DEF ExactInv, IInv, TypeOK
  <1>2. /\ file' = file /\ real' = real /\ my' = [s \in Session |-> Idle]
        /\ spoiled' = spoiled \union Clash \union UNION {Held(s) : s \in Session}
    BY DEF ServerEnds
  <1>3. \A s \in Session : my'[s] = Idle
    BY <1>2
  <1>4. \A s \in Session : Held(s)' = {}
    BY <1>1, <1>2, <1>3 DEF Held, Idle
  <1>5. Clash' = {}
    BY <1>4 DEF Clash
  <1>6. \A s \in Session : RowsAsRead(my[s])' /\ CountAsRead(my[s])'
    BY <1>3 DEF RowsAsRead, CountAsRead, Idle
  <1>7. ASSUME NEW m \in Md5 \ spoiled' PROVE Settled(m)'
    <2>1. Settled(m) /\ m # NoMd5 /\ \A s \in Session : m \notin Held(s)
      BY <1>2, <1>7, Md5Assumption DEF ExactInv
    <2>2. \A s \in Session : \A i : ~(Owing(s, i) /\ i \in Rows(m))
      BY <2>1 DEF Owing, OwesRow, Rows, Held
    <2>3. \A s \in Session : \A i : ~Owing(s, i)'
      BY <1>3 DEF Owing, OwesRow, Idle
    <2>4. Credit(m)' = Credit(m)
      BY <1>2, <2>2, <2>3 DEF Credit, Rows
    <2>5. Ahead(m) = {}
      BY <2>1 DEF Ahead, Rows, Held
    <2>6. Ahead(m)' = {}
      BY <1>3 DEF Ahead, Idle
    <2>7. QED
      BY <1>2, <2>1, <2>4, <2>5, <2>6 DEF Settled, Count
  <1>8. QED
    BY <1>1, <1>3, <1>5, <1>6, <1>7 DEF ExactInv

LEMMA InitExact == Init => ExactInv
  <1> SUFFICES ASSUME Init PROVE ExactInv
    OBVIOUS
  <1>1. IInv /\ \A s \in Session : my[s] = Idle
    BY InitCounts DEF Init
  <1>2. DOMAIN file = {} /\ DOMAIN real = {}
    BY DEF Init
  <1>3. Clash = {}
    BY <1>1, <1>2 DEF Clash, Held, Idle
  <1>4. \A s \in Session : RowsAsRead(my[s]) /\ CountAsRead(my[s])
    BY <1>1 DEF RowsAsRead, CountAsRead, Idle
  <1>5. ASSUME NEW m \in Md5 PROVE Settled(m)
    <2>1. Credit(m) = {} /\ Ahead(m) = {}
      BY <1>1, <1>2 DEF Credit, Rows, Ahead, Idle
    <2>2. QED
      BY <1>2, <2>1, FS_EmptySet DEF Settled, Count
  <1>6. QED
    BY <1>1, <1>3, <1>4, <1>5 DEF ExactInv

LEMMA KeptExact ==
  ASSUME ExactInv, IInv', UNCHANGED vars
  PROVE  ExactInv'
  <1>1. /\ file' = file /\ next' = next /\ real' = real /\ my' = my /\ spoiled' = spoiled
    BY DEF vars
  <1>2. Clash' = Clash
    BY <1>1 DEF Clash, Held
  <1>3. \A l : (RowsAsRead(l)' <=> RowsAsRead(l)) /\ (CountAsRead(l)' <=> CountAsRead(l))
    BY <1>1 DEF RowsAsRead, CountAsRead, IsDir
  <1>4. \A m : Settled(m)' <=> Settled(m)
    BY <1>1 DEF Settled, Count, Credit, Rows, Owing, Ahead
  <1>5. \A s \in Session : RowsAsRead(my[s])' /\ (my'[s].md5 \notin spoiled' => CountAsRead(my[s])')
    BY <1>1, <1>3 DEF ExactInv, RowsAsRead, CountAsRead, IsDir
  <1>6. QED
    BY <1>1, <1>2, <1>4, <1>5 DEF ExactInv

\* The equation behind the counts, and what a command relies on for it: while
\* no user has two sessions, the count of a content that nothing disturbed is
\* the number of its rows that no command owes, and of the copies ahead.
THEOREM Exactness == OneSessionEach => (Spec => []ExactInv)
  <1> SUFFICES ASSUME \A s, t \in Session : UserOf[s] = UserOf[t] => s = t
      PROVE  Spec => []ExactInv
    BY DEF OneSessionEach
  <1>o. OneSessionEach
    BY DEF OneSessionEach
  <1>1. Spec => []IInv
    BY <1>o, Invariance
  <1>2. ExactInv /\ IInv' /\ [Next]_vars => ExactInv'
    <2> SUFFICES ASSUME ExactInv, IInv', [Next]_vars PROVE ExactInv'
      OBVIOUS
    <2>1. CASE SessionStep
      BY <1>o, <2>1, StepMoves, StepExact
    <2>2. CASE ServerEnds
      BY <2>2, EndExact
    <2>3. CASE UNCHANGED vars
      BY <2>3, KeptExact
    <2>4. QED
      BY <2>1, <2>2, <2>3 DEF Next, Exit, NullPointer
  <1>3. QED
    BY InitExact, <1>1, <1>2, PTL DEF Spec

\* While no command is at work on a content, its count is the number of its
\* rows, unless two commands on it overlapped, the server ended within one, or
\* a file was copied over itself: for every number of sessions and contents.
THEOREM CountsAreExact == OneSessionEach => (Spec => []ExactUnlessDisturbed)
  <1>1. ExactInv => ExactUnlessDisturbed
    <2> SUFFICES ASSUME ExactInv, NEW m \in Md5 \ spoiled, \A s \in Session : m \notin Held(s)
        PROVE  Cardinality(Rows(m)) = IF m \in DOMAIN real THEN real[m] ELSE 0
      BY DEF ExactUnlessDisturbed
    <2>1. Settled(m) /\ m # NoMd5 /\ TypeOK
      BY Md5Assumption DEF ExactInv, IInv
    <2>2. \A s \in Session : \A i : ~(Owing(s, i) /\ i \in Rows(m))
      BY <2>1 DEF Owing, OwesRow, Rows, Held
    <2>3. Credit(m) = Rows(m)
      BY <2>2 DEF Credit
    <2>4. Ahead(m) = {}
      BY <2>1 DEF Ahead, Rows, Held
    <2>5. Cardinality(Ahead(m)) = 0
      BY <2>4, FS_EmptySet
    <2>6. Cardinality(Rows(m)) \in Nat
      <3>1. IsFiniteSet(1..MaxId)
        BY FS_Interval, MaxIdAssumption
      <3>2. Rows(m) \in SUBSET (1..MaxId)
        BY <2>1, MaxIdAssumption DEF TypeOK, Rows
      <3>3. QED
        BY <3>1, <3>2, FS_Subset, FS_CardinalityType
    <2>7. QED
      BY <2>1, <2>3, <2>5, <2>6 DEF Settled, Count
  <1>2. QED
    BY Exactness, <1>1, PTL

\* A command that has lowered an undisturbed count finds it again: a removal
\* does not return with the row still in file, a copy does not end the server.
THEOREM CountsAreFound == OneSessionEach => (Spec => []CountStillThere)
  <1>1. ExactInv => CountStillThere
    BY DEF ExactInv, CountAsRead, CountStillThere
  <1>2. QED
    BY Exactness, <1>1, PTL

-----------------------------------------------------------------------------
(* The trees.                                                              *)

OwnDir(i, u) == Has(i, u) /\ IsDir(i)
Placed(i, u) == i = 0 \/ OwnDir(i, u)

\* A command inserts below directories of its user, as long as no copy took the
\* row of another; a removal lists the children of a row that is gone.
Fathers(l, u) ==
  /\ l.cmd \in {"new", "upload"} /\ l.pc \in {"lookup", "insert"} => Placed(l.father, u)
  /\ l.cmd = "tree" /\ u \notin raced =>
       /\ \A t \in l.todo : Placed(t[2], u)
       /\ l.pc \in {"max", "list"} => OwnDir(l.row, u)
       /\ l.pc = "list" => l.father = l.row
       /\ l.pc = "insert" => Placed(l.father, u)
  /\ l.cmd \in {"over", "into"} => Placed(file[l.row].father_id, u)
  /\ l.cmd = "rm" /\ l.pc \in {"next", "list"} => l.row = 0
  /\ l.cmd = "rm" /\ l.pc = "list" => l.src \in 1..(next - 1) \ DOMAIN file

\* The row i is one that the removal l has found and not yet removed.
Visits(l, i) == l.cmd = "rm" /\ (<<i, 0>> \in l.todo \/ l.row = i)
Lists(l, i) == l.cmd = "rm" /\ l.pc = "list" /\ l.src = i

Reached == {i \in DOMAIN file : \E s \in Session : Visits(my[s], i)}
Excused(i) == file[i].file_md5 \in spoiled \/ file[i].user_id \in raced

\* A removal lists the rows of its user only: all the children are, unless
\* something has disturbed them.
ListsOwn(l, u) ==
  l.cmd = "rm" /\ l.pc = "list" =>
    \A i \in DOMAIN file \ Reached : file[i].father_id = l.src /\ ~Excused(i) => file[i].user_id = u

Trees ==
  /\ \A s \in Session : Fathers(my[s], UserOf[s]) /\ ListsOwn(my[s], UserOf[s])
  /\ \A i \in DOMAIN file \ Doomed : Excused(i) \/ Placed(file[i].father_id, file[i].user_id)

TreeInv == exits = 0 => Trees

TreeMoves(s) ==
  /\ Moves(s) /\ Trees
  /\ raced \subseteq raced'
  /\ TookAnother(s)' => UserOf[s] \in raced'

\* What a step of s does to the rows: it inserts below a directory of its user,
\* changes the content of a file that has a place, and removes a directory only
\* to list its children; a row it was to remove is gone, left, or excused.
Inserted(s) ==
  \A i \in DOMAIN file' \ DOMAIN file :
    /\ file'[i].user_id = UserOf[s]
    /\ \/ UserOf[s] \in raced'
       \/ \E f : f = file'[i].father_id /\ Placed(f, UserOf[s]) /\ Placed(f, UserOf[s])'

Changed(s) ==
  \A i \in DOMAIN file \intersect DOMAIN file' :
    /\ file'[i].father_id = file[i].father_id /\ file'[i].user_id = file[i].user_id
    /\ \/ file'[i].file_md5 = file[i].file_md5
       \/ /\ ~IsDir(i) /\ ~IsDir(i)' /\ file[i].user_id = UserOf[s]
          /\ Placed(file[i].father_id, UserOf[s])

Removed(s) ==
  /\ \A i \in DOMAIN file \ DOMAIN file' : IsDir(i) => Lists(my'[s], i)
  /\ \A i \in DOMAIN file' : Visits(my[s], i) => Visits(my'[s], i) \/ Excused(i)'
  /\ \A i \in DOMAIN file' :
       Lists(my[s], file'[i].father_id) /\ file'[i].user_id = UserOf[s] => Visits(my'[s], i)

Keeps(s) ==
  /\ Inserted(s) /\ Changed(s) /\ Removed(s)
  /\ Fathers(my[s], UserOf[s])' /\ ListsOwn(my[s], UserOf[s])'

LEMMA TreeMovesTypes ==
  ASSUME NEW s, TreeMoves(s)
  PROVE  /\ Moves(s) /\ s \in Session /\ TypeOK /\ TypeOK'
         /\ my[s] \in Local /\ my' \in [Session -> Local] /\ my'[s] \in Local
         /\ LocalInv(my[s], UserOf[s]) /\ LocalInv(my[s], UserOf[s])'
         /\ Fathers(my[s], UserOf[s]) /\ ListsOwn(my[s], UserOf[s])
         /\ DOMAIN file \subseteq 1..(next - 1) /\ next \in Int /\ 0 \notin DOMAIN file
  <1>1. Moves(s) /\ s \in Session
    BY DEF TreeMoves, Moves
  <1>2. Fathers(my[s], UserOf[s]) /\ ListsOwn(my[s], UserOf[s])
    BY <1>1 DEF TreeMoves, Trees
  <1>3. QED
    BY <1>1, <1>2, MovesTypes

LEMMA OthersFathers ==
  ASSUME NEW s, TreeMoves(s), NEW t \in Session \ {s}
  PROVE  Fathers(my[t], UserOf[t])'
  <1>1. PICK l \in Local : l = my[t] /\ l = my'[t]
    BY TreeMovesTypes DEF Moves, OnlyOf
  <1>2. PICK u : u = UserOf[t] /\ u # UserOf[s]
    BY TreeMovesTypes, Others DEF Moves, ExactInv
  <1>3. Fathers(l, u) /\ LocalInv(l, u)
    BY <1>1, <1>2, TreeMovesTypes DEF TreeMoves, Trees, Moves, ExactInv, IInv
  <1>4. \A i : Has(i, u) => Has(i, u)' /\ file'[i] = file[i]
    BY <1>2, TreeMovesTypes DEF Has, Moves, OwnRows
  <1>5. \A i : (OwnDir(i, u) => OwnDir(i, u)') /\ (Placed(i, u) => Placed(i, u)')
    BY <1>4 DEF OwnDir, Placed, IsDir
  <1>6. u \notin raced' => u \notin raced
    BY DEF TreeMoves
  <1>7. next \in Int /\ next' \in Int /\ next' >= next
        /\ \A i \in DOMAIN file' : i < next => i \in DOMAIN file
    BY TreeMovesTypes, MovesTypes, MaxIdAssumption DEF Moves, OwnRows, TypeOK
  <1>8. l.cmd \in {"over", "into"} => file'[l.row] = file[l.row]
    BY <1>3, <1>4 DEF LocalInv, OverInv, IntoInv
  <1>9. Fathers(l, u)'
    BY <1>3, <1>5, <1>6, <1>7, <1>8 DEF Fathers
  <1>10. QED
    BY <1>1, <1>2, <1>9 DEF Fathers

\* A row that a removal has found stays found, unless it is excused.
LEMMA StillReached ==
  ASSUME NEW s, TreeMoves(s), Removed(s), NEW i \in Reached, i \in DOMAIN file'
  PROVE  i \in Reached' \/ Excused(i)'
  <1>1. PICK t \in Session : Visits(my[t], i)
    BY DEF Reached
  <1>2. CASE t = s
    <2>1. Visits(my'[s], i) \/ Excused(i)'
      BY <1>1, <1>2 DEF Removed
    <2>2. QED
      BY <2>1, TreeMovesTypes DEF Reached, Visits
  <1>3. CASE t # s
    <2>1. my'[t] = my[t]
      BY <1>3, TreeMovesTypes DEF Moves, OnlyOf
    <2>2. QED
      BY <1>1, <2>1 DEF Reached, Visits
  <1>4. QED
    BY <1>2, <1>3

\* A row stays excused, unless it is the row of a copy, which has a place.
LEMMA StillExcused ==
  ASSUME NEW s, TreeMoves(s), Changed(s), NEW i \in DOMAIN file \intersect DOMAIN file', Excused(i)
  PROVE  Excused(i)' \/ Placed(file[i].father_id, file[i].user_id)
  <1>1. spoiled \subseteq spoiled' /\ raced \subseteq raced'
    BY DEF TreeMoves, Moves
  <1>2. QED
    BY <1>1 DEF Excused, Changed

LEMMA OthersList ==
  ASSUME NEW s, TreeMoves(s), Inserted(s), Changed(s), Removed(s), NEW t \in Session \ {s}
  PROVE  ListsOwn(my[t], UserOf[t])'
  <1>1. PICK l : l = my[t] /\ l = my'[t]
    BY TreeMovesTypes DEF Moves, OnlyOf
  <1>2. SUFFICES ASSUME l.cmd = "rm", l.pc = "list", NEW i \in DOMAIN file', i \notin Reached',
                        file'[i].father_id = l.src, ~Excused(i)'
                 PROVE  file'[i].user_id = UserOf[t]
    BY <1>1 DEF ListsOwn
  <1>3. Fathers(l, UserOf[t]) /\ ListsOwn(l, UserOf[t])
    BY <1>1 DEF TreeMoves, Trees
  <1>4. l.src \in 1..(next - 1) /\ l.src \notin DOMAIN file
    BY <1>2, <1>3 DEF Fathers
  <1>5. \A u : ~Placed(l.src, u)
    BY <1>4, TreeMovesTypes DEF Placed, OwnDir, Has
  <1>6. i \in DOMAIN file
    BY <1>2, <1>5 DEF Inserted, Excused
  <1>7. file[i].father_id = l.src /\ file'[i].user_id = file[i].user_id
    BY <1>2, <1>6 DEF Changed
  <1>8. i \notin Reached /\ ~Excused(i)
    BY <1>2, <1>5, <1>6, <1>7, StillReached, StillExcused
  <1>9. QED
    BY <1>2, <1>3, <1>6, <1>7, <1>8 DEF ListsOwn

\* A row that was not about to be removed keeps its place.
LEMMA RowsKept ==
  ASSUME NEW s, TreeMoves(s), Inserted(s), Changed(s), Removed(s),
         NEW i \in DOMAIN file', i \notin Doomed'
  PROVE  Excused(i)' \/ Placed(file[i].father_id, file[i].user_id)'
  <1>1. CASE i \notin DOMAIN file
    BY <1>1 DEF Inserted, Excused
  <1>2. CASE i \in DOMAIN file
    <2>1. PICK f, u : /\ f = file[i].father_id /\ f = file'[i].father_id
                      /\ u = file[i].user_id /\ u = file'[i].user_id
      BY <1>2 DEF Changed
    <2>2. SUFFICES ASSUME ~Excused(i)' PROVE Placed(f, u)'
      BY <2>1
    <2>3. \A t \in Session : ~Visits(my'[t], i) /\ ~Lists(my'[t], f)
      BY <2>1 DEF Doomed, Visits, Lists
    <2>4. i \notin Reached
      BY <1>2, <2>2, <2>3, StillReached DEF Reached, Visits
    <2>5. Placed(f, u)
      <3>1. CASE Excused(i)
        BY <1>2, <2>1, <2>2, <3>1, StillExcused
      <3>2. CASE ~Excused(i) /\ i \in Doomed
        <4>1. PICK t \in Session : Lists(my[t], f)
          BY <1>2, <2>1, <2>4, <3>2 DEF Doomed, Reached, Visits, Lists
        <4>2. t = s
          BY <2>3, <4>1 DEF TreeMoves, Moves, OnlyOf
        <4>3. u = UserOf[s]
          BY <1>2, <2>1, <2>4, <3>2, <4>1, <4>2, TreeMovesTypes DEF ListsOwn, Lists
        <4>4. Visits(my'[s], i)
          BY <2>1, <4>1, <4>2, <4>3 DEF Removed
        <4>5. QED
          BY <2>3, <4>4, TreeMovesTypes
      <3>3. CASE ~Excused(i) /\ i \notin Doomed
        BY <1>2, <2>1, <3>3 DEF TreeMoves, Trees
      <3>4. QED
        BY <3>1, <3>2, <3>3
    <2>6. CASE f = 0
      BY <2>6 DEF Placed
    <2>7. CASE f # 0
      <3>1. Has(f, u) /\ IsDir(f)
        BY <2>5, <2>7 DEF Placed, OwnDir
      <3>2. f \in DOMAIN file'
        BY <2>3, <3>1, TreeMovesTypes DEF Removed, Has
      <3>3. Has(f, u)' /\ IsDir(f)'
        BY <3>1, <3>2 DEF Has, IsDir, Changed
      <3>4. QED
        BY <3>3 DEF Placed, OwnDir
    <2>8. QED
      BY <2>6, <2>7
  <1>3. QED
    BY <1>1, <1>2

LEMMA TreesKept ==
  ASSUME NEW s, TreeMoves(s), Keeps(s)
  PROVE  Trees'
  <1>1. ASSUME NEW t \in Session PROVE Fathers(my[t], UserOf[t])' /\ ListsOwn(my[t], UserOf[t])'
    <2>1. CASE t = s
      BY <2>1 DEF Keeps
    <2>2. CASE t # s
      BY <2>2, OthersFathers, OthersList DEF Keeps
    <2>3. QED
      BY <2>1, <2>2
  <1>2. \A i \in DOMAIN file' \ Doomed' : Excused(i)' \/ Placed(file[i].father_id, file[i].user_id)'
    BY RowsKept DEF Keeps
  <1>3. QED
    BY <1>1, <1>2 DEF Trees

-----------------------------------------------------------------------------
(* What a step does to the trees, action by action.                        *)

LEMMA SameRows ==
  ASSUME NEW s, TreeMoves(s), file' = file
  PROVE  /\ Inserted(s) /\ Changed(s)
         /\ my[s].cmd # "rm" => Removed(s)
         /\ \A i, u : Placed(i, u)' <=> Placed(i, u)
         /\ \A i, u : OwnDir(i, u)' <=> OwnDir(i, u)
  BY DEF Inserted, Changed, Removed, Visits, Lists, Placed, OwnDir, Has, IsDir

LEMMA RacedGrows == ASSUME NEW s, TreeMoves(s) PROVE \A u : u \notin raced' => u \notin raced
  BY DEF TreeMoves

LEMMA IdleFathers ==
  ASSUME NEW s, TreeMoves(s), my'[s] = Idle
  PROVE  Fathers(my[s], UserOf[s])' /\ ListsOwn(my[s], UserOf[s])'
  BY DEF Fathers, ListsOwn, Idle

LEMMA DoneFathers ==
  ASSUME NEW s, TreeMoves(s), Done(s)
  PROVE  Fathers(my[s], UserOf[s])' /\ ListsOwn(my[s], UserOf[s])'
  <1>1. my'[s] = Idle
    BY TreeMovesTypes DEF Done, TypeOK
  <1>2. QED
    BY <1>1, IdleFathers

LEMMA RmWalks ==
  ASSUME NEW s, TreeMoves(s), NEW rest, Proceed(s, rest), my[s].cmd = "rm"
  PROVE  /\ Fathers(my[s], UserOf[s])' /\ ListsOwn(my[s], UserOf[s])'
         /\ \A i : <<i, 0>> \in rest => Visits(my'[s], i)
  <1>1. CASE rest = {}
    <2>1. my'[s] = Idle
      BY <1>1, TreeMovesTypes DEF Proceed, TypeOK
    <2>2. QED
      BY <1>1, <2>1, IdleFathers
  <1>2. CASE rest # {}
    <2>1. my'[s].cmd = "rm" /\ my'[s].pc = "next" /\ my'[s].row = 0 /\ my'[s].todo = rest
      BY <1>2, TreeMovesTypes DEF Proceed, Idle, TypeOK
    <2>2. QED
      BY <2>1 DEF Fathers, ListsOwn, Visits
  <1>3. QED
    BY <1>1, <1>2

LEMMA TreeWalks ==
  ASSUME NEW s, TreeMoves(s), NEW rest, Proceed(s, rest), my[s].cmd = "tree",
         UserOf[s] \notin raced' => \A t \in rest : Placed(t[2], UserOf[s])'
  PROVE  Fathers(my[s], UserOf[s])' /\ ListsOwn(my[s], UserOf[s])'
  <1>1. CASE rest = {}
    <2>1. my'[s] = Idle
      BY <1>1, TreeMovesTypes DEF Proceed, TypeOK
    <2>2. QED
      BY <2>1, IdleFathers
  <1>2. CASE rest # {}
    <2>1. my'[s].cmd = "tree" /\ my'[s].pc = "next" /\ my'[s].todo = rest
      BY <1>2, TreeMovesTypes DEF Proceed, Idle, TypeOK
    <2>2. QED
      BY <2>1 DEF Fathers, ListsOwn
  <1>3. QED
    BY <1>1, <1>2

\* A directory is removed before its children: they are listed from then on.
LEMMA RmDirTree ==
  ASSUME NEW s, TreeMoves(s), NEW i \in Id, RmDir(s, i)
  PROVE  Keeps(s)
  <1>1. /\ my[s].cmd = "rm" /\ my[s].pc = "next" /\ next' = next
        /\ i \in DOMAIN file /\ IsDir(i) /\ <<i, 0>> \in my[s].todo
        /\ DOMAIN file' = DOMAIN file \ {i} /\ \A j \in DOMAIN file' : file'[j] = file[j]
        /\ my'[s].cmd = "rm" /\ my'[s].pc = "list" /\ my'[s].src = i /\ my'[s].row = my[s].row
        /\ my'[s].todo = my[s].todo \ {<<i, 0>>}
    BY TreeMovesTypes DEF RmDir, At, Local
  <1>2. my[s].row = 0 /\ file[i].user_id = UserOf[s]
    BY <1>1, TreeMovesTypes DEF Fathers, LocalInv, RmInv
  <1>3. Inserted(s) /\ Changed(s)
    BY <1>1 DEF Inserted, Changed
  <1>4. Removed(s)
    <2>1. \A j \in DOMAIN file' : Visits(my[s], j) => Visits(my'[s], j)
      BY <1>1, <1>2, TreeMovesTypes DEF Visits
    <2>2. QED
      BY <1>1, <2>1 DEF Removed, Lists
  <1>5. Fathers(my[s], UserOf[s])'
    BY <1>1, <1>2, TreeMovesTypes DEF Fathers
  <1>6. ASSUME NEW j \in DOMAIN file', j \notin Reached', file'[j].father_id = i, ~Excused(j)'
        PROVE  file'[j].user_id = UserOf[s]
    <2>1. j \in DOMAIN file /\ file'[j] = file[j]
      BY <1>1
    <2>2. j \notin Reached
      BY <1>4, <1>6, StillReached
    <2>3. ~Excused(j)
      BY <1>6, <2>1 DEF Excused, TreeMoves, Moves
    <2>4. j \notin Doomed
      <3>1. SUFFICES ASSUME NEW t \in Session, Lists(my[t], i) PROVE FALSE
        BY <1>6, <2>1, <2>2 DEF Doomed, Reached, Visits, Lists
      <3>2. my[t].src = i /\ my[t].src \notin DOMAIN file
        BY <3>1 DEF Lists, TreeMoves, Trees, Fathers
      <3>3. QED
        BY <1>1, <3>2
    <2>5. Placed(i, file[j].user_id)
      BY <1>6, <2>1, <2>3, <2>4 DEF TreeMoves, Trees
    <2>6. QED
      BY <1>1, <1>2, <2>1, <2>5, TreeMovesTypes DEF Placed, OwnDir, Has
  <1>7. ListsOwn(my[s], UserOf[s])'
    BY <1>1, <1>6 DEF ListsOwn
  <1>8. QED
    BY <1>3, <1>4, <1>5, <1>7 DEF Keeps

LEMMA RmTree ==
  ASSUME NEW s, TreeMoves(s), RmStep(s)
  PROVE  Keeps(s)
  <1>1. ASSUME NEW i \in Id, StartRm(s, i) PROVE Keeps(s)
    <2>1. /\ my[s].pc = "idle" /\ file' = file
          /\ my'[s].cmd = "rm" /\ my'[s].pc = "next" /\ my'[s].row = my[s].row
      BY <1>1, TreeMovesTypes DEF StartRm, Local
    <2>2. my[s] = Idle /\ my[s].cmd = "none"
      BY <2>1, TreeMovesTypes, IdleLocal
    <2>3. my[s].row = 0
      BY <2>2 DEF Idle
    <2>4. QED
      BY <2>1, <2>2, <2>3, SameRows DEF Keeps, Fathers, ListsOwn
  <1>2. ASSUME NEW i \in Id, RmMissing(s, i) PROVE Keeps(s)
    <2>1. PICK rest : /\ my[s].cmd = "rm" /\ my[s].pc = "next" /\ file' = file /\ i \notin DOMAIN file
                      /\ Proceed(s, rest) /\ rest = my[s].todo \ {<<i, 0>>}
      BY <1>2 DEF RmMissing, At
    <2>2. /\ Fathers(my[s], UserOf[s])' /\ ListsOwn(my[s], UserOf[s])'
          /\ \A j : <<j, 0>> \in rest => Visits(my'[s], j)
      BY <2>1, RmWalks
    <2>3. my[s].row = 0
      BY <2>1, TreeMovesTypes DEF Fathers
    <2>4. Removed(s)
      BY <2>1, <2>2, <2>3, TreeMovesTypes DEF Removed, Visits, Lists
    <2>5. QED
      BY <2>1, <2>2, <2>4, SameRows DEF Keeps
  <1>3. ASSUME NEW i \in Id, RmFile(s, i) PROVE Keeps(s)
    <2>1. /\ my[s].cmd = "rm" /\ my[s].pc = "next" /\ file' = file
          /\ my'[s].cmd = "rm" /\ my'[s].pc = "dec" /\ my'[s].row = i
          /\ my'[s].todo = my[s].todo \ {<<i, 0>>}
      BY <1>3, TreeMovesTypes DEF RmFile, At, Local
    <2>2. my[s].row = 0
      BY <2>1, TreeMovesTypes DEF Fathers
    <2>3. Removed(s)
      BY <2>1, <2>2, TreeMovesTypes DEF Removed, Visits, Lists
    <2>4. QED
      BY <2>1, <2>3, SameRows DEF Keeps, Fathers, ListsOwn
  <1>4. CASE RmList(s)
    <2>1. PICK rest : /\ my[s].cmd = "rm" /\ my[s].pc = "list" /\ file' = file /\ Proceed(s, rest)
                      /\ rest = my[s].todo \union
                           {<<j, 0>> : j \in {k \in Own(s) : file[k].father_id = my[s].src}}
      BY <1>4 DEF RmList, At
    <2>2. /\ Fathers(my[s], UserOf[s])' /\ ListsOwn(my[s], UserOf[s])'
          /\ \A j : <<j, 0>> \in rest => Visits(my'[s], j)
      BY <2>1, RmWalks
    <2>3. my[s].row = 0
      BY <2>1, TreeMovesTypes DEF Fathers
    <2>4. Removed(s)
      <3>1. \A i \in DOMAIN file' : Visits(my[s], i) => Visits(my'[s], i)
        BY <2>1, <2>2, <2>3, TreeMovesTypes DEF Visits
      <3>2. ASSUME NEW i \in DOMAIN file', Lists(my[s], file'[i].father_id), file'[i].user_id = UserOf[s]
            PROVE  Visits(my'[s], i)
        <4>1. <<i, 0>> \in rest
          BY <2>1, <3>2 DEF Lists, Own
        <4>2. QED
          BY <2>2, <4>1
      <3>3. QED
        BY <2>1, <3>1, <3>2 DEF Removed
    <2>5. QED
      BY <2>1, <2>2, <2>4, SameRows DEF Keeps
  <1>5. CASE RmUncounted(s)
    <2>1. PICK rest : /\ my[s].cmd = "rm" /\ my[s].pc = "select" /\ file' = file
                      /\ Proceed(s, rest) /\ rest = my[s].todo /\ my[s].md5 \notin DOMAIN real
      BY <1>5 DEF RmUncounted, At
    <2>2. /\ Fathers(my[s], UserOf[s])' /\ ListsOwn(my[s], UserOf[s])'
          /\ \A j : <<j, 0>> \in rest => Visits(my'[s], j)
      BY <2>1, RmWalks
    <2>3. my[s].md5 \in spoiled' /\ file[my[s].row].file_md5 = my[s].md5
      BY <2>1, TreeMovesTypes DEF Moves, ExactInv, CountAsRead, RowsAsRead
    <2>4. Removed(s)
      BY <2>1, <2>2, <2>3 DEF Removed, Visits, Lists, Excused
    <2>5. QED
      BY <2>1, <2>2, <2>4, SameRows DEF Keeps
  <1>6. CASE RmDelete(s)
    <2>1. PICK rest : /\ my[s].cmd = "rm" /\ my[s].pc = "delete"
                      /\ Proceed(s, rest) /\ rest = my[s].todo
                      /\ DOMAIN file' = DOMAIN file \ {my[s].row}
                      /\ \A j \in DOMAIN file' : file'[j] = file[j]
      BY <1>6 DEF RmDelete, At
    <2>2. /\ Fathers(my[s], UserOf[s])' /\ ListsOwn(my[s], UserOf[s])'
          /\ \A j : <<j, 0>> \in rest => Visits(my'[s], j)
      BY <2>1, RmWalks
    <2>3. ~IsDir(my[s].row)
      BY <2>1, TreeMovesTypes DEF Moves, ExactInv, RowsAsRead, IsDir
    <2>4. Inserted(s) /\ Changed(s)
      BY <2>1 DEF Inserted, Changed
    <2>5. Removed(s)
      BY <2>1, <2>2, <2>3 DEF Removed, Visits, Lists
    <2>6. QED
      BY <2>2, <2>4, <2>5 DEF Keeps
  <1>7. QED
    BY <1>1, <1>2, <1>3, <1>4, <1>5, <1>6, RmDirTree DEF RmStep

\* A statement on a count leaves the command at its row.
LEMMA GotoTree ==
  ASSUME NEW s, TreeMoves(s), NEW place, Goto(s, place), file' = file,
         my[s].cmd \in {"rm", "over", "into"}, my[s].pc # "list", place \notin {"next", "list"}
  PROVE  Keeps(s)
  <1>1. /\ my'[s].cmd = my[s].cmd /\ my'[s].pc = place /\ my'[s].todo = my[s].todo
        /\ my'[s].row = my[s].row /\ my'[s].src = my[s].src
    BY TreeMovesTypes, GotoLocal
  <1>2. Inserted(s) /\ Changed(s)
    BY SameRows
  <1>3. Removed(s)
    BY <1>1 DEF Removed, Visits, Lists
  <1>4. Placed(file[my[s].row].father_id, UserOf[s])' <=> Placed(file[my[s].row].father_id, UserOf[s])
    BY <1>1 DEF Placed, OwnDir, Has, IsDir
  <1>5. Fathers(my[s], UserOf[s])'
    BY <1>1, <1>4, TreeMovesTypes DEF Fathers
  <1>6. QED
    BY <1>1, <1>2, <1>3, <1>5 DEF Keeps, ListsOwn

LEMMA CountTree ==
  ASSUME NEW s, TreeMoves(s), CountStep(s)
  PROVE  Keeps(s)
  <1>1. CASE Dec(s)
    BY <1>1, GotoTree DEF Dec, At
  <1>2. CASE Select(s)
    BY <1>2, GotoTree DEF Select, At, AfterDec
  <1>3. CASE Erase(s)
    BY <1>3, GotoTree DEF Erase, At, AfterDec
  <1>4. CASE AddFirst(s)
    BY <1>4, GotoTree DEF AddFirst, At
  <1>5. CASE Add(s)
    <2>1. my[s].cmd \in {"new", "over", "tree", "upload"} /\ file' = file /\ Onward(s)
      BY <1>5 DEF Add, At
    <2>2. Fathers(my[s], UserOf[s])' /\ ListsOwn(my[s], UserOf[s])'
      <3>1. CASE my[s].cmd = "tree"
        <4>1. UserOf[s] \notin raced' => \A t \in my[s].todo : Placed(t[2], UserOf[s])'
          BY <2>1, <3>1, TreeMovesTypes, RacedGrows, SameRows DEF Fathers
        <4>2. QED
          BY <2>1, <3>1, <4>1, TreeWalks DEF Onward
      <3>2. CASE my[s].cmd # "tree"
        BY <2>1, <3>2, DoneFathers DEF Onward
      <3>3. QED
        BY <3>1, <3>2
    <2>3. QED
      BY <2>1, <2>2, SameRows DEF Keeps
  <1>6. QED
    BY <1>1, <1>2, <1>3, <1>4, <1>5 DEF CountStep

\* A row that a path of the user leads to has a place.
LEMMA FoundPlaced ==
  ASSUME NEW s
  PROVE  /\ \A i \in Found(s) : Placed(file[i].father_id, UserOf[s])
         /\ \A i \in Dirs(s) : Placed(i, UserOf[s])
  BY DEF Found, Dirs, Own, Placed, OwnDir, Has

\* A command that begins or reads changes no row.
LEMMA ReadsTree ==
  ASSUME NEW s, TreeMoves(s), file' = file, my[s].cmd # "rm", my'[s].cmd # "rm", Fathers(my[s], UserOf[s])'
  PROVE  Keeps(s)
  BY SameRows DEF Keeps, ListsOwn

LEMMA UpdateTree ==
  ASSUME NEW s, TreeMoves(s), Update(s)
  PROVE  Keeps(s)
  <1>1. /\ my[s].cmd \in {"over", "into"} /\ my[s].pc = "update"
        /\ file' = [i \in DOMAIN file |-> IF i = my[s].row
                      THEN [file[i] EXCEPT !.file_md5 = my[s].md5] ELSE file[i]]
        /\ IF my[s].cmd = "over" THEN Goto(s, "add") ELSE Done(s)
    BY DEF Update, At
  <1>2. PICK r, f : r = my[s].row /\ f = file[r].father_id
    OBVIOUS
  <1>3. /\ Has(r, UserOf[s]) /\ ~IsDir(r) /\ my[s].md5 # NoMd5 /\ Placed(f, UserOf[s])
    <2>1. Has(r, UserOf[s]) /\ Placed(f, UserOf[s])
      BY <1>1, <1>2, TreeMovesTypes DEF LocalInv, OverInv, IntoInv, Fathers
    <2>2. RowsAsRead(my[s])
      BY TreeMovesTypes DEF Moves, ExactInv
    <2>3. QED
      BY <1>1, <1>2, <2>1, <2>2 DEF RowsAsRead, IsDir
  <1>4. /\ DOMAIN file' = DOMAIN file
        /\ \A i \in DOMAIN file : i # r => file'[i] = file[i]
        /\ file'[r].father_id = f /\ file'[r].user_id = file[r].user_id
        /\ file'[r].file_md5 = my[s].md5
    BY <1>1, <1>2, <1>3, TreeMovesTypes DEF TypeOK, Row, Has
  <1>5. Inserted(s) /\ Changed(s) /\ Removed(s)
    BY <1>1, <1>2, <1>3, <1>4 DEF Inserted, Changed, Removed, Visits, Lists, IsDir, Has
  <1>6. Fathers(my[s], UserOf[s])' /\ ListsOwn(my[s], UserOf[s])'
    <2>1. CASE my[s].cmd = "over"
      <3>1. my'[s].cmd = "over" /\ my'[s].row = r
        BY <1>1, <1>2, <2>1, TreeMovesTypes, GotoLocal
      <3>2. Placed(f, UserOf[s])'
        BY <1>3, <1>4 DEF Placed, OwnDir, Has, IsDir
      <3>3. QED
        BY <1>4, <3>1, <3>2 DEF Fathers, ListsOwn
    <2>2. CASE my[s].cmd = "into"
      BY <1>1, <2>2, DoneFathers
    <2>3. QED
      BY <1>1, <2>1, <2>2
  <1>7. QED
    BY <1>5, <1>6 DEF Keeps

LEMMA CopyTree ==
  ASSUME NEW s, TreeMoves(s), CopyStep(s)
  PROVE  Keeps(s)
  <1>1. ASSUME NEW i \in Id, NEW f \in 0..MaxId, StartNew(s, i, f) PROVE Keeps(s)
    <2>1. /\ my[s].pc = "idle" /\ file' = file /\ f \in Dirs(s) \union {0}
          /\ my'[s].cmd = "new" /\ my'[s].father = f
      BY <1>1, TreeMovesTypes DEF StartNew, Local
    <2>2. Placed(f, UserOf[s])'
      BY <2>1, FoundPlaced, SameRows DEF Placed
    <2>3. my[s].cmd = "none"
      BY <2>1, TreeMovesTypes, IdleLocal
    <2>4. QED
      BY <2>1, <2>2, <2>3, ReadsTree DEF Fathers
  <1>2. ASSUME NEW i \in Id, NEW j \in Id, StartOver(s, i, j) \/ StartInto(s, i, j) PROVE Keeps(s)
    <2>1. /\ my[s].pc = "idle" /\ file' = file /\ j \in Files(s)
          /\ my'[s].cmd \in {"over", "into"} /\ my'[s].row = j
      BY <1>2, TreeMovesTypes DEF StartOver, StartInto, Local
    <2>2. PICK f : f = file[j].father_id
      OBVIOUS
    <2>3. Placed(f, UserOf[s])'
      BY <2>1, <2>2, FoundPlaced, SameRows DEF Files
    <2>4. Fathers(my[s], UserOf[s])'
      BY <2>1, <2>2, <2>3 DEF Fathers
    <2>5. my[s].cmd = "none"
      BY <2>1, TreeMovesTypes, IdleLocal
    <2>6. QED
      BY <2>1, <2>4, <2>5, ReadsTree
  <1>3. CASE ReadDest(s) \/ ReadSrc(s)
    <2>1. /\ my[s].cmd \in {"over", "into"} /\ file' = file
          /\ my'[s].cmd = my[s].cmd /\ my'[s].row = my[s].row
      BY <1>3, TreeMovesTypes DEF ReadDest, ReadSrc, At, Local
    <2>2. PICK f : f = file[my[s].row].father_id
      OBVIOUS
    <2>3. Placed(f, UserOf[s])'
      BY <2>1, <2>2, TreeMovesTypes, SameRows DEF Fathers
    <2>4. Fathers(my[s], UserOf[s])'
      BY <2>1, <2>2, <2>3 DEF Fathers
    <2>5. QED
      BY <2>1, <2>4, ReadsTree
  <1>4. QED
    BY <1>1, <1>2, <1>3, UpdateTree DEF CopyStep

LEMMA InsertTree ==
  ASSUME NEW s, TreeMoves(s), NEW m, NEW f, Insert(NewRow(s, m, f)), my[s].cmd # "rm",
         UserOf[s] \notin raced' => Placed(f, UserOf[s])
  PROVE  /\ Inserted(s) /\ Changed(s) /\ Removed(s)
         /\ \A k, u : Placed(k, u) => Placed(k, u)'
         /\ m = NoMd5 => \E k : k = next /\ OwnDir(k, UserOf[s])'
  <1>1. PICK row : row = NewRow(s, m, f)
    OBVIOUS
  <1>2. row.father_id = f /\ row.user_id = UserOf[s] /\ row.file_md5 = m
    BY <1>1 DEF NewRow
  <1>3. /\ next \notin DOMAIN file /\ DOMAIN file' = DOMAIN file \union {next} /\ file'[next] = row
        /\ \A i \in DOMAIN file : file'[i] = file[i]
    BY <1>1, TreeMovesTypes DEF Insert
  <1>4. \A k, u : Placed(k, u) => Placed(k, u)'
    BY <1>3 DEF Placed, OwnDir, Has, IsDir
  <1>5. Inserted(s)
    BY <1>2, <1>3, <1>4 DEF Inserted
  <1>6. Changed(s) /\ Removed(s)
    BY <1>3 DEF Changed, Removed, Visits, Lists
  <1>7. m = NoMd5 => \E k : k = next /\ OwnDir(k, UserOf[s])'
    BY <1>2, <1>3 DEF OwnDir, Has, IsDir
  <1>8. QED
    BY <1>4, <1>5, <1>6, <1>7

LEMMA TreeTree ==
  ASSUME NEW s, TreeMoves(s), TreeStep(s)
  PROVE  Keeps(s)
  <1>1. ASSUME NEW f \in 0..MaxId, Mkdir(s, f) PROVE Keeps(s)
    <2>1. /\ my[s].pc = "idle" /\ my'[s] = my[s] /\ f \in Dirs(s) \union {0}
          /\ Insert(NewRow(s, NoMd5, f))
      BY <1>1 DEF Mkdir
    <2>2. my[s] = Idle /\ my[s].cmd = "none"
      BY <2>1, TreeMovesTypes, IdleLocal
    <2>3. Placed(f, UserOf[s])
      BY <2>1, FoundPlaced DEF Placed
    <2>4. QED
      BY <2>1, <2>2, <2>3, InsertTree, IdleFathers DEF Keeps
  <1>2. ASSUME NEW i \in Id, NEW f \in 0..MaxId, StartTree(s, i, f) PROVE Keeps(s)
    <2>1. /\ my[s].pc = "idle" /\ file' = file /\ f \in Dirs(s) \union {0}
          /\ my'[s].cmd = "tree" /\ my'[s].pc = "next" /\ my'[s].todo = {<<i, f>>}
      BY <1>2, TreeMovesTypes DEF StartTree, Local
    <2>2. Placed(f, UserOf[s])'
      BY <2>1, FoundPlaced, SameRows DEF Placed
    <2>3. \A t \in my'[s].todo : Placed(t[2], UserOf[s])'
      BY <2>1, <2>2
    <2>4. my[s].cmd = "none"
      BY <2>1, TreeMovesTypes, IdleLocal
    <2>5. QED
      BY <2>1, <2>3, <2>4, ReadsTree DEF Fathers
  <1>3. ASSUME NEW t \in my[s].todo, TreeDir(s, t) PROVE Keeps(s)
    <2>1. /\ my[s].cmd = "tree" /\ my[s].pc = "next" /\ Insert(NewRow(s, NoMd5, t[2]))
          /\ my'[s].cmd = "tree" /\ my'[s].pc = "max" /\ my'[s].row = next
          /\ my'[s].todo = my[s].todo \ {t}
      BY <1>3, TreeMovesTypes DEF TreeDir, At, Local
    <2>2. UserOf[s] \notin raced' => \A q \in my[s].todo : Placed(q[2], UserOf[s])
      BY <2>1, TreeMovesTypes, RacedGrows DEF Fathers
    <2>3. /\ Inserted(s) /\ Changed(s) /\ Removed(s)
          /\ \A k, u : Placed(k, u) => Placed(k, u)'
          /\ \E k : k = next /\ OwnDir(k, UserOf[s])'
      BY <2>1, <2>2, InsertTree
    <2>4. UserOf[s] \notin raced' => \A q \in my'[s].todo : Placed(q[2], UserOf[s])'
      BY <2>1, <2>2, <2>3
    <2>5. Fathers(my[s], UserOf[s])'
      BY <2>1, <2>3, <2>4 DEF Fathers
    <2>6. QED
      BY <2>1, <2>3, <2>5 DEF Keeps, ListsOwn
  <1>4. ASSUME NEW t \in my[s].todo, TreeFile(s, t) PROVE Keeps(s)
    <2>1. /\ my[s].cmd = "tree" /\ my[s].pc = "next" /\ file' = file
          /\ my'[s].cmd = "tree" /\ my'[s].pc = "insert" /\ my'[s].father = t[2]
          /\ my'[s].todo = my[s].todo \ {t}
      BY <1>4, TreeMovesTypes DEF TreeFile, At, Local
    <2>2. UserOf[s] \notin raced' => \A q \in my[s].todo : Placed(q[2], UserOf[s])'
      BY <2>1, TreeMovesTypes, RacedGrows, SameRows DEF Fathers
    <2>3. Fathers(my[s], UserOf[s])'
      BY <2>1, <2>2 DEF Fathers
    <2>4. QED
      BY <2>1, <2>3, ReadsTree
  <1>5. ASSUME NEW i \in Id, TreeMax(s, i) PROVE Keeps(s)
    <2>1. /\ my[s].cmd = "tree" /\ my[s].pc = "max" /\ file' = file
          /\ my'[s].cmd = "tree" /\ my'[s].pc = "list" /\ my'[s].row = my[s].row
          /\ my'[s].father = i /\ my'[s].todo = my[s].todo
      BY <1>5, TreeMovesTypes DEF TreeMax, At, Local
    <2>2. UserOf[s] \notin raced' => my'[s].father = my'[s].row
      BY <2>1, TreeMovesTypes DEF TreeMoves, TookAnother, At
    <2>3. UserOf[s] \notin raced' =>
            /\ \A q \in my'[s].todo : Placed(q[2], UserOf[s])'
            /\ OwnDir(my[s].row, UserOf[s])'
      <3>1. PICK r : r = my[s].row /\ r = my'[s].row
        BY <2>1
      <3>2. UserOf[s] \notin raced' => OwnDir(r, UserOf[s])'
        BY <2>1, <3>1, TreeMovesTypes, RacedGrows, SameRows DEF Fathers
      <3>3. OwnDir(r, UserOf[s])' => OwnDir(my[s].row, UserOf[s])'
        BY <3>1
      <3>4. QED
        BY <2>1, <3>2, <3>3, TreeMovesTypes, RacedGrows, SameRows DEF Fathers
    <2>4. Fathers(my[s], UserOf[s])'
      BY <2>1, <2>2, <2>3 DEF Fathers
    <2>5. QED
      BY <2>1, <2>4, ReadsTree
  <1>6. CASE TreeList(s)
    <2>1. PICK rest : /\ my[s].cmd = "tree" /\ my[s].pc = "list" /\ file' = file /\ Proceed(s, rest)
                      /\ rest = my[s].todo \union
                           {<<j, my[s].father>> : j \in {k \in DOMAIN file : file[k].father_id = my[s].src}}
      BY <1>6 DEF TreeList, At
    <2>2. UserOf[s] \notin raced' =>
            (\A q \in my[s].todo : Placed(q[2], UserOf[s])) /\ Placed(my[s].father, UserOf[s])
      BY <2>1, TreeMovesTypes, RacedGrows DEF Fathers, Placed
    <2>3. UserOf[s] \notin raced' => \A q \in rest : Placed(q[2], UserOf[s])'
      BY <2>1, <2>2, SameRows
    <2>4. Fathers(my[s], UserOf[s])' /\ ListsOwn(my[s], UserOf[s])'
      BY <2>1, <2>3, TreeWalks
    <2>5. QED
      BY <2>1, <2>4, SameRows DEF Keeps
  <1>7. QED
    BY <1>1, <1>2, <1>3, <1>4, <1>5, <1>6 DEF TreeStep

LEMMA UploadTree ==
  ASSUME NEW s, TreeMoves(s), UploadStep(s)
  PROVE  Keeps(s)
  <1>1. ASSUME NEW m \in Md5, NEW f \in 0..MaxId, StartUpload(s, m, f) PROVE Keeps(s)
    <2>1. /\ my[s].pc = "idle" /\ file' = file /\ f \in Dirs(s) \union {0}
          /\ my'[s].cmd = "upload" /\ my'[s].father = f
      BY <1>1, TreeMovesTypes DEF StartUpload, Local
    <2>2. Placed(f, UserOf[s])'
      BY <2>1, FoundPlaced, SameRows DEF Placed
    <2>3. my[s].cmd = "none"
      BY <2>1, TreeMovesTypes, IdleLocal
    <2>4. QED
      BY <2>1, <2>2, <2>3, ReadsTree DEF Fathers
  <1>2. CASE Lookup(s)
    <2>1. /\ my[s].cmd = "upload" /\ my[s].pc = "lookup" /\ file' = file
          /\ my'[s].cmd = "upload" /\ my'[s].father = my[s].father
      BY <1>2, TreeMovesTypes DEF Lookup, At, Local
    <2>2. PICK f : f = my[s].father
      OBVIOUS
    <2>3. Placed(f, UserOf[s])'
      BY <2>1, <2>2, TreeMovesTypes, SameRows DEF Fathers
    <2>4. Fathers(my[s], UserOf[s])'
      BY <2>1, <2>2, <2>3 DEF Fathers
    <2>5. QED
      BY <2>1, <2>4, ReadsTree
  <1>3. CASE InsertFile(s)
    <2>1. /\ my[s].cmd \in {"new", "tree", "upload"} /\ my[s].pc = "insert"
          /\ Insert(NewRow(s, my[s].md5, my[s].father))
          /\ my'[s].cmd = my[s].cmd /\ my'[s].pc \in {"enter", "add"} /\ my'[s].todo = my[s].todo
      BY <1>3, TreeMovesTypes DEF InsertFile, At, Local
    <2>2. UserOf[s] \notin raced' => Placed(my[s].father, UserOf[s])
      BY <2>1, TreeMovesTypes, RacedGrows DEF Fathers
    <2>3. /\ Inserted(s) /\ Changed(s) /\ Removed(s)
          /\ \A k, u : Placed(k, u) => Placed(k, u)'
      BY <2>1, <2>2, InsertTree
    <2>4. my[s].cmd = "tree" /\ UserOf[s] \notin raced' =>
            \A q \in my'[s].todo : Placed(q[2], UserOf[s])'
      BY <2>1, <2>3, TreeMovesTypes, RacedGrows DEF Fathers
    <2>5. Fathers(my[s], UserOf[s])'
      BY <2>1, <2>4 DEF Fathers
    <2>6. QED
      BY <2>1, <2>3, <2>5 DEF Keeps, ListsOwn
  <1>4. CASE Enter(s)
    <2>1. /\ my[s].cmd = "upload" /\ file' = file
          /\ IF my[s].full THEN Done(s) ELSE Goto(s, "receive")
      BY <1>4 DEF Enter, At
    <2>2. Fathers(my[s], UserOf[s])' /\ ListsOwn(my[s], UserOf[s])'
      <3>1. CASE my[s].full
        BY <2>1, <3>1, DoneFathers
      <3>2. CASE ~my[s].full
        <4>1. my'[s].cmd = "upload" /\ my'[s].pc = "receive"
          BY <2>1, <3>2, TreeMovesTypes, GotoLocal
        <4>2. QED
          BY <4>1 DEF Fathers, ListsOwn
      <3>3. QED
        BY <3>1, <3>2
    <2>3. QED
      BY <2>1, <2>2, SameRows DEF Keeps
  <1>5. CASE Receive(s)
    <2>1. my[s].cmd = "upload" /\ file' = file /\ Done(s)
      BY <1>5 DEF Receive, At
    <2>2. QED
      BY <2>1, DoneFathers, SameRows DEF Keeps
  <1>6. QED
    BY <1>1, <1>2, <1>3, <1>4, <1>5 DEF UploadStep

-----------------------------------------------------------------------------
(* The theorems on the trees.                                              *)

LEMMA SessionTrees ==
  ASSUME ExactInv, OneSessionEach, SessionStep, TreeInv
  PROVE  TreeInv'
  <1>1. PICK s \in Session : Step(s) /\ Moves(s)
    BY StepMoves
  <1>2. SUFFICES ASSUME exits = 0 PROVE Trees'
    BY DEF TreeInv, SessionStep
  <1>3. raced \subseteq raced' /\ (TookAnother(s)' => UserOf[s] \in raced')
    BY DEF SessionStep
  <1>4. TreeMoves(s)
    BY <1>1, <1>2, <1>3 DEF TreeMoves, TreeInv
  <1>5. QED
    BY <1>1, <1>4, RmTree, CountTree, CopyTree, TreeTree, UploadTree, TreesKept DEF Step

LEMMA InitTrees == Init => TreeInv
  <1> SUFFICES ASSUME Init PROVE Trees
    BY DEF TreeInv
  <1>1. \A s \in Session : Fathers(my[s], UserOf[s]) /\ ListsOwn(my[s], UserOf[s])
    BY DEF Init, Idle, Fathers, ListsOwn
  <1>2. DOMAIN file = {}
    BY DEF Init
  <1>3. QED
    BY <1>1, <1>2 DEF Trees

\* While no user has two sessions and the server has not ended: a command
\* inserts below directories of its user, a removal reaches the children of the
\* directories it removes, and every other row has its place in a tree.
THEOREM TreesHold == OneSessionEach => (Spec => []TreeInv)
  <1> SUFFICES ASSUME \A s, t \in Session : UserOf[s] = UserOf[t] => s = t
      PROVE  Spec => []TreeInv
    BY DEF OneSessionEach
  <1>o. OneSessionEach
    BY DEF OneSessionEach
  <1>1. Spec => []ExactInv
    BY <1>o, Exactness
  <1>2. ExactInv /\ TreeInv /\ [Next]_vars => TreeInv'
    <2> SUFFICES ASSUME ExactInv, TreeInv, [Next]_vars PROVE TreeInv'
      OBVIOUS
    <2>1. CASE SessionStep
      BY <1>o, <2>1, SessionTrees
    <2>2. CASE ServerEnds
      BY <2>2 DEF ServerEnds, TreeInv, ExactInv, IInv, TypeOK
    <2>3. CASE UNCHANGED vars
      <3>1. /\ file' = file /\ next' = next /\ my' = my /\ exits' = exits
            /\ spoiled' = spoiled /\ raced' = raced
        BY <2>3 DEF vars
      <3>2. SUFFICES ASSUME exits = 0 PROVE Trees'
        BY <3>1 DEF TreeInv
      <3>3. Reached' = Reached /\ Doomed' = Doomed /\ \A i : Excused(i)' <=> Excused(i)
        BY <3>1 DEF Reached, Doomed, Excused, Visits
      <3>4. \A i, u : Placed(i, u)' <=> Placed(i, u)
        BY <3>1 DEF Placed, OwnDir, Has, IsDir
      <3>5. Trees
        BY <3>2 DEF TreeInv
      <3>6. \A s \in Session : Fathers(my[s], UserOf[s])'
        BY <3>1, <3>5 DEF Trees, Fathers, Placed, OwnDir, Has, IsDir
      <3>7. \A s \in Session : ListsOwn(my[s], UserOf[s])'
        BY <3>1, <3>3, <3>5 DEF Trees, ListsOwn
      <3>8. \A i \in DOMAIN file' \ Doomed' : Excused(i)' \/ Placed(file[i].father_id, file[i].user_id)'
        BY <3>1, <3>3, <3>5 DEF Trees, Placed, OwnDir, Has, IsDir
      <3>9. QED
        BY <3>6, <3>7, <3>8 DEF Trees
    <2>4. QED
      BY <2>1, <2>2, <2>3 DEF Next, Exit, NullPointer
  <1>3. QED
    BY InitTrees, <1>1, <1>2, PTL DEF Spec

\* A row that is not at the root is below a directory of its owner or about to
\* be removed, until the server ends, a count is disturbed or a copy takes the
\* row of another: for every number of sessions, users and rows.
THEOREM RowsInOwnTree == OneSessionEach => (Spec => []InOwnTree)
  <1>1. TreeInv => InOwnTree
    BY DEF TreeInv, Trees, InOwnTree, Excused, Placed, OwnDir, Has
  <1>2. QED
    BY TreesHold, <1>1, PTL
=============================================================================
