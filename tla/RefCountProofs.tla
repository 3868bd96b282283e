--------------------------- MODULE RefCountProofs ---------------------------
(***************************************************************************)
(* The bound on the counts of file_real, for every number of sessions,     *)
(* users, contents and rows, as long as no user has two sessions.          *)
(*                                                                         *)
(* A row whose content a command has counted down and which it has not yet *)
(* removed or changed, and a row that it has inserted and not yet counted, *)
(* is owed by the session.  The rows that nobody owes are the credit of    *)
(* their content: a count is covered by this credit, by the copies ahead   *)
(* of their row, and by what ends of the server have leaked.  CountsBounded*)
(* alone is not inductive: an inserted row raises its right-hand side      *)
(* before the count, a removed one lowers it after.                        *)
(***************************************************************************)
EXTENDS RefCount, FiniteSetTheorems, TLAPS

\* The command of l has settled the count of the old content, or has still to
\* count the new one, of its row.
OwesRow(l) ==
  \/ l.cmd = "rm" /\ l.pc \in {"select", "erase", "delete"}
  \/ l.cmd = "over" /\ l.pc \in {"select", "erase", "read", "update", "add"}
  \/ l.cmd = "into" /\ l.pc \in {"select", "erase", "read", "update"}
  \/ l.cmd \in {"new", "tree", "upload"} /\ l.pc \in {"add", "enter"}

Owing(s, i) == OwesRow(my[s]) /\ my[s].row = i

Credit(m) == {i \in Rows(m) : \A s \in Session : ~Owing(s, i)}

\* The copies into a directory between their two counts.
PastAdd(l) == l.cmd = "into" /\ l.pc \in {"dest", "dec", "select", "erase", "read", "update"}

AheadInv ==
  \A m \in DOMAIN real : real[m] <= Cardinality(Credit(m)) + Cardinality(Ahead(m)) + leaked[m]

-----------------------------------------------------------------------------
(* What a session knows of the rows that it works on.                      *)

Has(i, u) == i \in DOMAIN file /\ file[i].user_id = u

\* rm: what is left to visit was there when it was found, and is the user's.
RmInv(l, u) ==
  l.cmd = "rm" =>
    /\ \A t \in l.todo : t[1] < next /\ (t[1] \in DOMAIN file => file[t[1]].user_id = u)
    /\ l.pc \in {"dec", "select", "erase", "delete"} => Has(l.row, u)
    /\ l.pc = "dec" => file[l.row].file_md5 = l.md5
    /\ l.pc \in {"next", "list", "dec", "select", "erase", "delete"}

OverInv(l, u) ==
  l.cmd = "over" =>
    /\ Has(l.row, u) /\ Has(l.src, u)
    /\ l.pc \in {"dec", "add"} => file[l.row].file_md5 = l.md5
    /\ l.pc \in {"dec", "select", "erase", "read", "update", "add"}

IntoInv(l, u) ==
  l.cmd = "into" =>
    /\ Has(l.row, u) /\ Has(l.src, u)
    /\ l.pc = "dec" => file[l.row].file_md5 = l.md5
    /\ l.pc \in {"add", "update"} => file[l.src].file_md5 = l.md5
    /\ l.pc \in {"add", "dest", "dec", "select", "erase", "read", "update"}

\* new, tree and upload: the row inserted is still as it was.
InsertedInv(l, u) ==
  l.cmd \in {"new", "tree", "upload"} /\ l.pc \in {"add", "enter"} =>
    Has(l.row, u) /\ file[l.row].file_md5 = l.md5

LocalInv(l, u) ==
  RmInv(l, u) /\ OverInv(l, u) /\ IntoInv(l, u) /\ InsertedInv(l, u)

UploadInv(l) == l.cmd = "upload" => l.md5 \in Md5

IInv ==
  /\ TypeOK
  /\ \A s \in Session : UploadInv(my[s]) /\ LocalInv(my[s], UserOf[s])
  /\ AheadInv

-----------------------------------------------------------------------------
(* Types.                                                                  *)

TablesOK ==
  /\ next \in 1..(MaxId + 1)
  /\ DOMAIN file \subseteq 1..(next - 1)
  /\ \A i \in DOMAIN file : file[i] \in Row
  /\ DOMAIN real \subseteq Md5
  /\ \A m \in DOMAIN real : real[m] \in Int
  /\ whole \subseteq Md5

\* A step of session s changes no variable of another session.
OnlyOf(s) == my' \in [Session -> Local] /\ \A t \in Session \ {s} : my'[t] = my[t]

\* Local variables that a statement sets to values of their types.
LEMMA LocalExcept ==
  ASSUME NEW l \in Local, NEW p \in Place
  PROVE  /\ [l EXCEPT !.pc = p] \in Local
         /\ \A m \in Md5 \union {NoMd5} : [l EXCEPT !.pc = p, !.md5 = m] \in Local
         /\ \A i \in 0..MaxId : [l EXCEPT !.pc = p, !.father = i] \in Local
         /\ \A i \in 0..MaxId : [l EXCEPT !.row = i, !.pc = p] \in Local
         /\ \A b \in BOOLEAN : [l EXCEPT !.found = b, !.pc = p] \in Local
  BY DEF Local

LEMMA LocalWalk ==
  ASSUME NEW l \in Local, NEW rest \in SUBSET (Id \X (0..MaxId))
  PROVE  /\ Idle \in Local
         /\ [Idle EXCEPT !.cmd = l.cmd, !.pc = "next", !.todo = rest] \in Local
  <1>1. Idle \in Local
    BY MaxIdAssumption DEF Local, Place, Idle
  <1>2. l.cmd \in {"none", "rm", "new", "over", "into", "tree", "upload"}
    BY DEF Local
  <1>3. "next" \in Place
    BY DEF Place
  <1>4. QED
    BY <1>1, <1>2, <1>3 DEF Local

LEMMA OneLocal ==
  ASSUME TypeOK, NEW s \in Session, NEW l \in Local, my' = [my EXCEPT ![s] = l]
  PROVE  OnlyOf(s) /\ my'[s] = l
  BY DEF TypeOK, OnlyOf

\* The walks of rmDirFunc and digui.
LEMMA ProceedTypes ==
  ASSUME TypeOK, NEW s \in Session, NEW rest \in SUBSET (Id \X (0..MaxId)), Proceed(s, rest)
  PROVE  OnlyOf(s)
  <1> DEFINE l == [Idle EXCEPT !.cmd = my[s].cmd, !.pc = "next", !.todo = rest]
  <1>1. Idle \in Local /\ l \in Local
    BY LocalWalk DEF TypeOK
  <1>2. my' = [my EXCEPT ![s] = IF rest = {} THEN Idle ELSE l]
    BY DEF Proceed
  <1>3. QED
    BY <1>1, <1>2, OneLocal

LEMMA DoneTypes == ASSUME TypeOK, NEW s \in Session, Done(s) PROVE OnlyOf(s)
  BY MaxIdAssumption DEF Done, OnlyOf, TypeOK, Local, Place, Idle

LEMMA GotoTypes == ASSUME TypeOK, NEW s \in Session, NEW place \in Place, Goto(s, place) PROVE OnlyOf(s)
  BY DEF Goto, OnlyOf, TypeOK, Local

\* The tables after an insert of a row.
LEMMA InsertTypes ==
  ASSUME TypeOK, NEW row \in Row, Insert(row)
  PROVE  /\ next \in Id /\ next' = next + 1 /\ next' \in 1..(MaxId + 1)
         /\ DOMAIN file' \subseteq 1..(next' - 1)
         /\ \A i \in DOMAIN file' : file'[i] \in Row
  BY MaxIdAssumption DEF Insert, TypeOK, Id

LEMMA NewRowType ==
  ASSUME NEW s \in Session, NEW m \in Md5 \union {NoMd5}, NEW father \in 0..MaxId
  PROVE  NewRow(s, m, father) \in Row
  BY UserOfAssumption DEF NewRow, Row

LEMMA RmTypes ==
  ASSUME TypeOK, NEW s \in Session
  PROVE  RmStep(s) => TablesOK' /\ OnlyOf(s)
  <1> USE MaxIdAssumption
  <1>1. ASSUME NEW i \in Id, StartRm(s, i) PROVE TablesOK' /\ OnlyOf(s)
    BY <1>1 DEF StartRm, TypeOK, TablesOK, OnlyOf, Local, Place, Found, Own, Id
  <1>2. ASSUME NEW i \in Id, RmMissing(s, i) PROVE TablesOK' /\ OnlyOf(s)
    BY <1>2, ProceedTypes DEF RmMissing, TypeOK, TablesOK, Local
  <1>3. ASSUME NEW i \in Id, RmDir(s, i) PROVE TablesOK' /\ OnlyOf(s)
    BY <1>3 DEF RmDir, TypeOK, TablesOK, OnlyOf, Local, Place, Id
  <1>4. ASSUME NEW i \in Id, RmFile(s, i) PROVE TablesOK' /\ OnlyOf(s)
    BY <1>4 DEF RmFile, TypeOK, TablesOK, OnlyOf, Local, Place, Id, IsDir, Row
  <1>5. CASE RmList(s)
    BY <1>5, ProceedTypes DEF RmList, TypeOK, TablesOK, Local, Own, Id
  <1>6. CASE RmUncounted(s)
    BY <1>6, ProceedTypes DEF RmUncounted, TypeOK, TablesOK, Local
  <1>7. CASE RmDelete(s)
    BY <1>7, ProceedTypes DEF RmDelete, TypeOK, TablesOK, Local
  <1>8. QED
    BY <1>1, <1>2, <1>3, <1>4, <1>5, <1>6, <1>7 DEF RmStep

LEMMA CountTypes ==
  ASSUME TypeOK, NEW s \in Session
  PROVE  CountStep(s) => TablesOK' /\ OnlyOf(s)
  <1> USE MaxIdAssumption
  <1>1. CASE Dec(s)
    BY <1>1, GotoTypes DEF Dec, Counted, Place, TypeOK, TablesOK
  <1>2. CASE Select(s)
    BY <1>2, GotoTypes DEF Select, AfterDec, Place, TypeOK, TablesOK
  <1>3. CASE Erase(s)
    BY <1>3, GotoTypes DEF Erase, AfterDec, Place, TypeOK, TablesOK
  <1>4. CASE Add(s)
    BY <1>4, ProceedTypes, DoneTypes DEF Add, Onward, Counted, TypeOK, TablesOK, Local
  <1>5. CASE AddFirst(s)
    BY <1>5, GotoTypes DEF AddFirst, Counted, Place, TypeOK, TablesOK
  <1>6. QED
    BY <1>1, <1>2, <1>3, <1>4, <1>5 DEF CountStep

LEMMA CopyTypes ==
  ASSUME TypeOK, NEW s \in Session
  PROVE  CopyStep(s) => TablesOK' /\ OnlyOf(s)
  <1> USE MaxIdAssumption
  <1>1. ASSUME NEW i \in Id, NEW f \in 0..MaxId, StartNew(s, i, f) PROVE TablesOK' /\ OnlyOf(s)
    BY <1>1 DEF StartNew, TypeOK, TablesOK, OnlyOf, Local, Place, Files, Found, Own, Row
  <1>2. ASSUME NEW i \in Id, NEW j \in Id, StartOver(s, i, j) PROVE TablesOK' /\ OnlyOf(s)
    BY <1>2 DEF StartOver, TypeOK, TablesOK, OnlyOf, Local, Place, Files, Found, Own, Row, Id
  <1>3. ASSUME NEW i \in Id, NEW j \in Id, StartInto(s, i, j) PROVE TablesOK' /\ OnlyOf(s)
    BY <1>3 DEF StartInto, TypeOK, TablesOK, OnlyOf, Local, Place, Files, Found, Own, Row, Id
  <1>4. CASE ReadDest(s)
    <2>1. file[my[s].row].file_md5 \in Md5 \union {NoMd5}
      BY <1>4 DEF ReadDest, TypeOK, Row
    <2>2. my' = [my EXCEPT ![s] = [my[s] EXCEPT !.pc = "dec", !.md5 = file[my[s].row].file_md5]]
      BY <1>4 DEF ReadDest, TypeOK
    <2>3. OnlyOf(s)
      <3>1. my[s] \in Local /\ "dec" \in Place
        BY DEF TypeOK, Place
      <3>2. QED
        BY <2>1, <2>2, <3>1, LocalExcept, OneLocal
    <2>4. QED
      BY <1>4, <2>3 DEF ReadDest, TypeOK, TablesOK
  <1>5. CASE ReadSrc(s)
    <2>1. file[my[s].src].file_md5 \in Md5 \union {NoMd5}
      BY <1>5 DEF ReadSrc, TypeOK, Row
    <2>2. my' = [my EXCEPT ![s] = [my[s] EXCEPT !.pc = "update", !.md5 = file[my[s].src].file_md5]]
      BY <1>5 DEF ReadSrc, TypeOK
    <2>3. OnlyOf(s)
      <3>1. my[s] \in Local /\ "update" \in Place
        BY DEF TypeOK, Place
      <3>2. QED
        BY <2>1, <2>2, <3>1, LocalExcept, OneLocal
    <2>4. QED
      BY <1>5, <2>3 DEF ReadSrc, TypeOK, TablesOK
  <1>6. CASE Update(s)
    <2>1. OnlyOf(s)
      BY <1>6, GotoTypes, DoneTypes DEF Update, Place
    <2>2. my[s].md5 \in Md5 \union {NoMd5}
      BY DEF TypeOK, Local
    <2>3. TablesOK'
      BY <1>6, <2>2 DEF Update, TypeOK, TablesOK, Row
    <2>4. QED
      BY <2>1, <2>3
  <1>7. QED
    BY <1>1, <1>2, <1>3, <1>4, <1>5, <1>6 DEF CopyStep

LEMMA TreeTypes ==
  ASSUME TypeOK, NEW s \in Session
  PROVE  TreeStep(s) => TablesOK' /\ OnlyOf(s)
  <1> USE MaxIdAssumption
  <1>1. ASSUME NEW f \in 0..MaxId, Mkdir(s, f) PROVE TablesOK' /\ OnlyOf(s)
    BY <1>1, NewRowType, InsertTypes DEF Mkdir, TypeOK, TablesOK, OnlyOf
  <1>2. ASSUME NEW i \in Id, NEW f \in 0..MaxId, StartTree(s, i, f) PROVE TablesOK' /\ OnlyOf(s)
    BY <1>2 DEF StartTree, TypeOK, TablesOK, OnlyOf, Local, Place
  <1>t. ASSUME NEW t \in my[s].todo
        PROVE  t[1] \in Id /\ t[2] \in 0..MaxId /\ my[s].todo \ {t} \in SUBSET (Id \X (0..MaxId))
    BY DEF TypeOK, Local
  <1>3. ASSUME NEW t \in my[s].todo, TreeDir(s, t) PROVE TablesOK' /\ OnlyOf(s)
    <2>1. Insert(NewRow(s, NoMd5, t[2])) /\ NewRow(s, NoMd5, t[2]) \in Row
      BY <1>3, <1>t, NewRowType DEF TreeDir
    <2>2. TablesOK' /\ next \in Id
      BY <1>3, <2>1, InsertTypes DEF TreeDir, TypeOK, TablesOK
    <2>3. OnlyOf(s)
      BY <1>3, <1>t, <2>2 DEF TreeDir, TypeOK, OnlyOf, Local, Place, Id
    <2>4. QED
      BY <2>2, <2>3
  <1>4. ASSUME NEW t \in my[s].todo, TreeFile(s, t) PROVE TablesOK' /\ OnlyOf(s)
    BY <1>4, <1>t DEF TreeFile, TypeOK, TablesOK, OnlyOf, Local, Place, Row
  <1>5. ASSUME NEW i \in Id, TreeMax(s, i) PROVE TablesOK' /\ OnlyOf(s)
    <2>1. i \in 0..MaxId
      BY DEF Id
    <2>2. my' = [my EXCEPT ![s] = [my[s] EXCEPT !.pc = "list", !.father = i]]
      BY <1>5 DEF TreeMax, TypeOK
    <2>3. OnlyOf(s)
      BY <2>1, <2>2, LocalExcept, OneLocal DEF TypeOK, Place
    <2>4. QED
      BY <1>5, <2>3 DEF TreeMax, TypeOK, TablesOK
  <1>6. CASE TreeList(s)
    <2>1. my[s].father \in 0..MaxId /\ my[s].todo \subseteq Id \X (0..MaxId)
      BY DEF TypeOK, Local
    <2>2. DOMAIN file \subseteq Id
      BY DEF TypeOK, Id
    <2>3. QED
      BY <1>6, <2>1, <2>2, ProceedTypes DEF TreeList, TypeOK, TablesOK
  <1>7. QED
    BY <1>1, <1>2, <1>3, <1>4, <1>5, <1>6 DEF TreeStep

LEMMA UploadTypes ==
  ASSUME TypeOK, NEW s \in Session, UploadInv(my[s])
  PROVE  UploadStep(s) => TablesOK' /\ OnlyOf(s)
  <1> USE MaxIdAssumption
  <1>1. ASSUME NEW m \in Md5, NEW f \in 0..MaxId, StartUpload(s, m, f)
        PROVE TablesOK' /\ OnlyOf(s)
    BY <1>1 DEF StartUpload, TypeOK, TablesOK, OnlyOf, Local, Place
  <1>2. CASE Lookup(s)
    <2> DEFINE found == my[s].md5 \in DOMAIN real
               place == IF found /\ ~my[s].full THEN "receive" ELSE "insert"
    <2>1. my' = [my EXCEPT ![s] = [my[s] EXCEPT !.found = found, !.pc = place]]
      BY <1>2 DEF Lookup, TypeOK
    <2>2. found \in BOOLEAN /\ place \in Place /\ my[s] \in Local
      BY DEF TypeOK, Place
    <2> HIDE DEF found, place
    <2>4. OnlyOf(s)
      BY <2>1, <2>2, LocalExcept, OneLocal
    <2>5. QED
      BY <1>2, <2>4 DEF Lookup, TypeOK, TablesOK
  <1>3. CASE InsertFile(s)
    <2>1. NewRow(s, my[s].md5, my[s].father) \in Row
      BY NewRowType DEF TypeOK, Local
    <2>2. TablesOK' /\ next \in Id
      BY <1>3, <2>1, InsertTypes DEF InsertFile, TypeOK, TablesOK
    <2>3. PICK place \in Place : my' = [my EXCEPT ![s] = [my[s] EXCEPT !.row = next, !.pc = place]]
      BY <1>3 DEF InsertFile, TypeOK, Place
    <2>4. OnlyOf(s)
      <3>1. my[s] \in Local /\ next \in 0..MaxId
        BY <2>2 DEF TypeOK, Id
      <3>2. QED
        BY <2>3, <3>1, LocalExcept, OneLocal
    <2>5. QED
      BY <2>2, <2>4
  <1>4. CASE Enter(s)
    BY <1>4, DoneTypes, GotoTypes DEF Enter, At, UploadInv, Place, TypeOK, TablesOK
  <1>5. CASE Receive(s)
    BY <1>5, DoneTypes DEF Receive, At, UploadInv, TypeOK, TablesOK
  <1>6. QED
    BY <1>1, <1>2, <1>3, <1>4, <1>5 DEF UploadStep

\* Every step of a session keeps the types, and the variables of the others.
LEMMA StepTypes ==
  ASSUME TypeOK, NEW s \in Session, UploadInv(my[s]), Step(s)
  PROVE  TablesOK' /\ OnlyOf(s)
  BY RmTypes, CountTypes, CopyTypes, TreeTypes, UploadTypes DEF Step

-----------------------------------------------------------------------------
(* Sizes of finite sets.                                                   *)

LEMMA SizeKept ==
  ASSUME NEW T, IsFiniteSet(T), NEW S \in SUBSET T
  PROVE  Cardinality(S) \in Nat /\ Cardinality(T) \in Nat /\ Cardinality(S) <= Cardinality(T)
  BY FS_Subset, FS_CardinalityType

LEMMA SizeGained ==
  ASSUME NEW T, IsFiniteSet(T), NEW S \in SUBSET T, NEW x \in T, x \notin S
  PROVE  Cardinality(S) + 1 <= Cardinality(T)
  <1>1. IsFiniteSet(S) /\ Cardinality(S) \in Nat
    BY FS_Subset, FS_CardinalityType
  <1>2. Cardinality(S \union {x}) = Cardinality(S) + 1
    BY <1>1, FS_AddElement
  <1>3. S \union {x} \in SUBSET T
    OBVIOUS
  <1>4. QED
    BY <1>2, <1>3, SizeKept

LEMMA SizeLost ==
  ASSUME NEW S, IsFiniteSet(S), NEW T, IsFiniteSet(T), NEW x, S \ {x} \subseteq T
  PROVE  Cardinality(S) <= Cardinality(T) + 1
  <1>1. Cardinality(S) \in Nat /\ Cardinality(T) \in Nat
    BY FS_CardinalityType
  <1>2. CASE x \in S
    <2>1. IsFiniteSet(S \ {x}) /\ Cardinality(S \ {x}) = Cardinality(S) - 1
      BY <1>2, FS_RemoveElement
    <2>2. Cardinality(S \ {x}) <= Cardinality(T)
      BY SizeKept
    <2>3. QED
      BY <1>1, <2>1, <2>2
  <1>3. CASE x \notin S
    <2>1. S \in SUBSET T
      BY <1>3
    <2>2. QED
      BY <1>1, <2>1, SizeKept
  <1>4. QED
    BY <1>2, <1>3

\* The sets of the bound are finite, before and after a step.
LEMMA Finite ==
  ASSUME TypeOK, TablesOK', NEW m
  PROVE  /\ IsFiniteSet(Credit(m)) /\ IsFiniteSet(Credit(m)')
         /\ IsFiniteSet(Ahead(m)) /\ IsFiniteSet(Ahead(m)')
         /\ Cardinality(Credit(m)) \in Nat /\ Cardinality(Credit(m)') \in Nat
         /\ Cardinality(Ahead(m)) \in Nat /\ Cardinality(Ahead(m)') \in Nat
  <1>1. IsFiniteSet(Id)
    BY FS_Interval, MaxIdAssumption DEF Id
  <1>2. DOMAIN file \subseteq Id /\ DOMAIN file' \subseteq Id
    BY MaxIdAssumption DEF TypeOK, TablesOK, Id
  <1>3. Credit(m) \in SUBSET Id /\ Credit(m)' \in SUBSET Id
    BY <1>2 DEF Credit, Rows
  <1>4. Ahead(m) \in SUBSET Session /\ Ahead(m)' \in SUBSET Session
    BY DEF Ahead
  <1>5. QED
    BY <1>1, <1>3, <1>4, SessionAssumption, FS_Subset, FS_CardinalityType

-----------------------------------------------------------------------------
(* The bound.                                                              *)

Covered(m) ==
  m \in DOMAIN real => real[m] <= Cardinality(Credit(m)) + Cardinality(Ahead(m)) + leaked[m]

\* A content that no step of the session concerns stays covered.
LEMMA CoverKept ==
  ASSUME TypeOK, TablesOK', AheadInv, leaked' = leaked, NEW m \in Md5,
         m \in DOMAIN real' => m \in DOMAIN real /\ real'[m] <= real[m],
         Credit(m) \subseteq Credit(m)', Ahead(m) \subseteq Ahead(m)'
  PROVE  Covered(m)'
  <1>1. Cardinality(Credit(m)) <= Cardinality(Credit(m)')
    BY Finite, SizeKept
  <1>2. Cardinality(Ahead(m)) <= Cardinality(Ahead(m)')
    BY Finite, SizeKept
  <1>3. SUFFICES ASSUME m \in DOMAIN real'
        PROVE  real'[m] <= Cardinality(Credit(m)') + Cardinality(Ahead(m)') + leaked[m]
    BY DEF Covered
  <1>4. /\ real'[m] <= real[m] /\ real'[m] \in Int /\ real[m] \in Int /\ leaked[m] \in Nat
        /\ real[m] <= Cardinality(Credit(m)) + Cardinality(Ahead(m)) + leaked[m]
    BY <1>3 DEF AheadInv, TypeOK, TablesOK
  <1>5. QED
    BY <1>1, <1>2, <1>4, Finite

\* A row is counted that was owed before.
LEMMA CoverCounted ==
  ASSUME TypeOK, TablesOK', AheadInv, leaked' = leaked, NEW m \in Md5,
         m \in DOMAIN real' => m \in DOMAIN real /\ real'[m] <= real[m] + 1,
         Credit(m) \subseteq Credit(m)', Ahead(m) \subseteq Ahead(m)',
         NEW i \in Credit(m)', i \notin Credit(m)
  PROVE  Covered(m)'
  <1>1. Cardinality(Credit(m)) + 1 <= Cardinality(Credit(m)')
    BY Finite, SizeGained
  <1>2. Cardinality(Ahead(m)) <= Cardinality(Ahead(m)')
    BY Finite, SizeKept
  <1>3. SUFFICES ASSUME m \in DOMAIN real'
        PROVE  real'[m] <= Cardinality(Credit(m)') + Cardinality(Ahead(m)') + leaked[m]
    BY DEF Covered
  <1>4. /\ real'[m] <= real[m] + 1 /\ real'[m] \in Int /\ real[m] \in Int /\ leaked[m] \in Nat
        /\ real[m] <= Cardinality(Credit(m)) + Cardinality(Ahead(m)) + leaked[m]
    BY <1>3 DEF AheadInv, TypeOK, TablesOK
  <1>5. QED
    BY <1>1, <1>2, <1>4, Finite

\* A copy counts ahead of its row.
LEMMA CoverAhead ==
  ASSUME TypeOK, TablesOK', AheadInv, leaked' = leaked, NEW m \in Md5,
         m \in DOMAIN real' => m \in DOMAIN real /\ real'[m] <= real[m] + 1,
         Credit(m) \subseteq Credit(m)', Ahead(m) \subseteq Ahead(m)',
         NEW s \in Ahead(m)', s \notin Ahead(m)
  PROVE  Covered(m)'
  <1>1. Cardinality(Credit(m)) <= Cardinality(Credit(m)')
    BY Finite, SizeKept
  <1>2. Cardinality(Ahead(m)) + 1 <= Cardinality(Ahead(m)')
    BY Finite, SizeGained
  <1>3. SUFFICES ASSUME m \in DOMAIN real'
        PROVE  real'[m] <= Cardinality(Credit(m)') + Cardinality(Ahead(m)') + leaked[m]
    BY DEF Covered
  <1>4. /\ real'[m] <= real[m] + 1 /\ real'[m] \in Int /\ real[m] \in Int /\ leaked[m] \in Nat
        /\ real[m] <= Cardinality(Credit(m)) + Cardinality(Ahead(m)) + leaked[m]
    BY <1>3 DEF AheadInv, TypeOK, TablesOK
  <1>5. QED
    BY <1>1, <1>2, <1>4, Finite

\* A copy that was ahead changes its row.
LEMMA CoverCaughtUp ==
  ASSUME TypeOK, TablesOK', AheadInv, leaked' = leaked, NEW m \in Md5, real' = real,
         Credit(m) \subseteq Credit(m)', NEW i \in Credit(m)', i \notin Credit(m),
         NEW s, Ahead(m) \ {s} \subseteq Ahead(m)'
  PROVE  Covered(m)'
  <1>1. Cardinality(Credit(m)) + 1 <= Cardinality(Credit(m)')
    BY Finite, SizeGained
  <1>2. Cardinality(Ahead(m)) <= Cardinality(Ahead(m)') + 1
    BY Finite, SizeLost
  <1>3. SUFFICES ASSUME m \in DOMAIN real
        PROVE  real[m] <= Cardinality(Credit(m)') + Cardinality(Ahead(m)') + leaked[m]
    BY DEF Covered
  <1>4. /\ real[m] \in Int /\ leaked[m] \in Nat
        /\ real[m] <= Cardinality(Credit(m)) + Cardinality(Ahead(m)) + leaked[m]
    BY <1>3 DEF AheadInv, TypeOK
  <1>5. QED
    BY <1>1, <1>2, <1>4, Finite

\* A command counts its row down, and owes it from then on.
LEMMA CoverOwed ==
  ASSUME TypeOK, TablesOK', AheadInv, leaked' = leaked, NEW m \in Md5,
         m \in DOMAIN real' => m \in DOMAIN real /\ real'[m] <= real[m] - 1,
         NEW i, Credit(m) \ {i} \subseteq Credit(m)', Ahead(m) \subseteq Ahead(m)'
  PROVE  Covered(m)'
  <1>1. Cardinality(Credit(m)) <= Cardinality(Credit(m)') + 1
    BY Finite, SizeLost
  <1>2. Cardinality(Ahead(m)) <= Cardinality(Ahead(m)')
    BY Finite, SizeKept
  <1>3. SUFFICES ASSUME m \in DOMAIN real'
        PROVE  real'[m] <= Cardinality(Credit(m)') + Cardinality(Ahead(m)') + leaked[m]
    BY DEF Covered
  <1>4. /\ real'[m] <= real[m] - 1 /\ real'[m] \in Int /\ real[m] \in Int /\ leaked[m] \in Nat
        /\ real[m] <= Cardinality(Credit(m)) + Cardinality(Ahead(m)) + leaked[m]
    BY <1>3 DEF AheadInv, TypeOK, TablesOK
  <1>5. QED
    BY <1>1, <1>2, <1>4, Finite

-----------------------------------------------------------------------------
(* What a step of one session leaves to the others.                        *)

\* A step of s inserts rows with new ids, and touches rows of its user only.
OwnRows(s) ==
  /\ next' >= next
  /\ \A i \in DOMAIN file :
       file[i].user_id # UserOf[s] => i \in DOMAIN file' /\ file'[i] = file[i]
  /\ \A i \in DOMAIN file' :
       i < next => i \in DOMAIN file /\ file'[i].user_id = file[i].user_id

LEMMA Others ==
  ASSUME IInv, OneSessionEach, NEW s \in Session, NEW t \in Session \ {s}
  PROVE  /\ UserOf[t] # UserOf[s]
         /\ OwesRow(my[t]) => Has(my[t].row, UserOf[t])
         /\ PastAdd(my[t]) => Has(my[t].src, UserOf[t])
  BY DEF IInv, OneSessionEach, LocalInv, RmInv, OverInv, IntoInv, InsertedInv, OwesRow, PastAdd

LEMMA LocalKept ==
  ASSUME NEW l \in Local, NEW u, LocalInv(l, u), next \in Int, next' \in Int, next' >= next,
         \A i : Has(i, u) => Has(i, u)' /\ file'[i] = file[i],
         \A i \in DOMAIN file' : i < next => i \in DOMAIN file /\ file'[i].user_id = file[i].user_id
  PROVE  LocalInv(l, u)'
  <1>1. RmInv(l, u)'
    <2>1. SUFFICES ASSUME l.cmd = "rm" PROVE RmInv(l, u)'
      BY DEF RmInv
    <2>2. ASSUME NEW t \in l.todo
          PROVE  t[1] < next' /\ (t[1] \in DOMAIN file' => file'[t[1]].user_id = u)
      <3>1. t[1] \in Int
        BY DEF Local, Id
      <3>2. t[1] < next /\ (t[1] \in DOMAIN file => file[t[1]].user_id = u)
        BY <2>1 DEF LocalInv, RmInv
      <3>3. QED
        BY <3>1, <3>2
    <2>3. QED
      BY <2>1, <2>2 DEF LocalInv, RmInv
  <1>2. OverInv(l, u)' /\ IntoInv(l, u)' /\ InsertedInv(l, u)'
    BY DEF LocalInv, OverInv, IntoInv, InsertedInv
  <1>3. QED
    BY <1>1, <1>2 DEF LocalInv

LEMMA OthersKeep ==
  ASSUME IInv, OneSessionEach, NEW s \in Session, TablesOK', OnlyOf(s), OwnRows(s),
         NEW t \in Session \ {s}
  PROVE  UploadInv(my[t])' /\ LocalInv(my[t], UserOf[t])'
  <1>1. PICK l \in Local : l = my[t] /\ l = my'[t]
    BY DEF IInv, OnlyOf, TypeOK
  <1>2. PICK u : u = UserOf[t]
    OBVIOUS
  <1>3. UploadInv(l) /\ LocalInv(l, u) /\ u # UserOf[s]
    BY <1>1, <1>2, Others DEF IInv
  <1>4. next \in Int /\ next' \in Int /\ next' >= next
    BY MaxIdAssumption DEF IInv, TypeOK, TablesOK, OwnRows
  <1>5. \A i : Has(i, u) => Has(i, u)' /\ file'[i] = file[i]
    BY <1>3 DEF Has, OwnRows
  <1>6. LocalInv(l, u)'
    BY <1>3, <1>4, <1>5, LocalKept DEF OwnRows
  <1>7. QED
    BY <1>1, <1>2, <1>3, <1>6 DEF UploadInv, LocalInv, RmInv, OverInv, IntoInv, InsertedInv

LEMMA AheadKept ==
  ASSUME IInv, OneSessionEach, NEW s \in Session, OnlyOf(s), OwnRows(s), NEW m,
         NEW t \in Ahead(m) \ {s}
  PROVE  t \in Ahead(m)'
  BY Others DEF Ahead, Rows, OnlyOf, OwnRows, PastAdd, Has

LEMMA CreditKept ==
  ASSUME NEW s \in Session, OnlyOf(s), NEW m, NEW i \in Credit(m), i \in Rows(m)', ~Owing(s, i)'
  PROVE  i \in Credit(m)'
  BY DEF Credit, Owing, OnlyOf

\* A row of its own that the session does not owe is owed by nobody.
LEMMA CreditOwn ==
  ASSUME IInv, OneSessionEach, NEW s \in Session, OnlyOf(s), NEW m, NEW i \in Rows(m)',
         ~Owing(s, i)', Has(i, UserOf[s])
  PROVE  i \in Credit(m)'
  BY Others DEF Credit, Owing, OnlyOf, Has

\* The counts of m, its rows and its copies, as far as session s has to do with them.
Quiet(s, m) ==
  /\ \A i \in Rows(m) : ~Owing(s, i) => i \in Rows(m)' /\ ~Owing(s, i)'
  /\ s \in Ahead(m) => s \in Ahead(m)'

Uncounted(m) == m \in DOMAIN real' => m \in DOMAIN real /\ real'[m] <= real[m]

LEMMA QuietKeeps ==
  ASSUME IInv, OneSessionEach, NEW s \in Session, OnlyOf(s), OwnRows(s), NEW m, Quiet(s, m)
  PROVE  Credit(m) \subseteq Credit(m)' /\ Ahead(m) \subseteq Ahead(m)'
  <1>1. ASSUME NEW i \in Credit(m) PROVE i \in Credit(m)'
    <2>1. i \in Rows(m) /\ ~Owing(s, i)
      BY DEF Credit
    <2>2. QED
      BY <2>1, CreditKept DEF Quiet
  <1>2. ASSUME NEW t \in Ahead(m) PROVE t \in Ahead(m)'
    BY AheadKept DEF Quiet
  <1>3. QED
    BY <1>1, <1>2

LEMMA QuietCovers ==
  ASSUME IInv, OneSessionEach, NEW s \in Session, TablesOK', OnlyOf(s), OwnRows(s),
         leaked' = leaked, NEW m \in Md5, Quiet(s, m), Uncounted(m)
  PROVE  Covered(m)'
  BY QuietKeeps, CoverKept DEF IInv, Uncounted

-----------------------------------------------------------------------------
(* The invariant of the session that steps, and the counts, action by      *)
(* action.                                                                 *)

Kept(s) == OwnRows(s) /\ UploadInv(my[s])' /\ LocalInv(my[s], UserOf[s])'

Bounded == \A m \in Md5 : Covered(m)'

\* A statement that reads: the session owes no other row than before.
LEMMA Reads ==
  ASSUME IInv, OneSessionEach, NEW s \in Session, TablesOK', OnlyOf(s), leaked' = leaked,
         UNCHANGED <<file, next, real>>,
         OwesRow(my'[s]) => OwesRow(my[s]) /\ my'[s].row = my[s].row,
         PastAdd(my[s]) => PastAdd(my'[s]) /\ my'[s].src = my[s].src
  PROVE  OwnRows(s) /\ Bounded
  <1>1. OwnRows(s)
    BY MaxIdAssumption DEF OwnRows, IInv, TypeOK
  <1>2. ASSUME NEW m \in Md5 PROVE Covered(m)'
    <2>1. Quiet(s, m)
      BY DEF Quiet, Rows, Owing, Ahead, PastAdd
    <2>2. Uncounted(m)
      BY DEF Uncounted, IInv, TypeOK
    <2>3. QED
      BY <1>1, <2>1, <2>2, QuietCovers
  <1>3. QED
    BY <1>1, <1>2 DEF Bounded

LEMMA ProceedLocal ==
  ASSUME TypeOK, NEW s \in Session, NEW rest, Proceed(s, rest)
  PROVE  \/ my'[s].cmd = "none"
         \/ my'[s].cmd = my[s].cmd /\ my'[s].pc = "next" /\ my'[s].todo = rest
  BY DEF Proceed, Idle, TypeOK

LEMMA DoneLocal == ASSUME TypeOK, NEW s \in Session, Done(s) PROVE my'[s].cmd = "none"
  BY DEF Done, Idle, TypeOK

\* A session between two commands owes nothing and is not ahead.
LEMMA Fresh ==
  ASSUME IInv, NEW s \in Session, my[s].pc = "idle"
  PROVE  ~OwesRow(my[s]) /\ ~PastAdd(my[s])
  BY DEF OwesRow, PastAdd

\* After a command, or between two rows of a walk.
LEMMA WalkLocal ==
  ASSUME IInv, NEW s \in Session, NEW rest, Proceed(s, rest), my[s].cmd = "rm",
         \A t \in rest : t[1] < next' /\ (t[1] \in DOMAIN file' => file'[t[1]].user_id = UserOf[s])
  PROVE  /\ ~OwesRow(my'[s]) /\ UploadInv(my[s])' /\ LocalInv(my[s], UserOf[s])'
  <1>1. \/ my'[s].cmd = "none"
        \/ my'[s].cmd = "rm" /\ my'[s].pc = "next" /\ my'[s].todo = rest
    BY ProceedLocal DEF IInv
  <1>2. QED
    BY <1>1 DEF OwesRow, UploadInv, LocalInv, RmInv, OverInv, IntoInv, InsertedInv

LEMMA RmKeeps ==
  ASSUME IInv, OneSessionEach, NEW s \in Session, TablesOK', OnlyOf(s), leaked' = leaked
  PROVE  RmStep(s) => Kept(s) /\ Bounded
  <1> DEFINE u == UserOf[s]
  <1>i. /\ TypeOK /\ my \in [Session -> Local] /\ my[s] \in Local /\ LocalInv(my[s], u)
        /\ DOMAIN file \subseteq 1..(next - 1) /\ next \in Int
    BY MaxIdAssumption DEF IInv, TypeOK
  <1>t. ASSUME my[s].cmd = "rm", NEW t \in my[s].todo
        PROVE  t[1] < next /\ (t[1] \in DOMAIN file => file[t[1]].user_id = u)
    BY <1>i, <1>t DEF LocalInv, RmInv
  <1>1. ASSUME NEW i \in Id, StartRm(s, i) PROVE Kept(s) /\ Bounded
    <2>1. ~OwesRow(my'[s]) /\ ~PastAdd(my[s])
      BY <1>1, <1>i, Fresh DEF StartRm, OwesRow, Local
    <2>2. UploadInv(my[s])' /\ LocalInv(my[s], UserOf[s])'
      BY <1>1, <1>i DEF StartRm, Found, Own, UploadInv, LocalInv, RmInv, OverInv, IntoInv, InsertedInv, Local
    <2>3. QED
      BY <1>1, <2>1, <2>2, Reads DEF StartRm, Kept
  <1>2. ASSUME NEW i \in Id, RmMissing(s, i) PROVE Kept(s) /\ Bounded
    <2>1. ~OwesRow(my'[s]) /\ UploadInv(my[s])' /\ LocalInv(my[s], UserOf[s])'
      BY <1>2, <1>t, WalkLocal DEF RmMissing, At
    <2>2. ~PastAdd(my[s])
      BY <1>2 DEF RmMissing, At, PastAdd
    <2>3. QED
      BY <1>2, <2>1, <2>2, Reads DEF RmMissing, Kept
  <1>3. ASSUME NEW i \in Id, RmDir(s, i) PROVE Kept(s) /\ Bounded
    <2>1. /\ my[s].cmd = "rm" /\ my[s].pc = "next" /\ <<i, 0>> \in my[s].todo /\ i \in DOMAIN file
          /\ file' = [j \in DOMAIN file \ {i} |-> file[j]] /\ next' = next /\ real' = real
          /\ my'[s].cmd = "rm" /\ my'[s].pc = "list" /\ my'[s].todo = my[s].todo \ {<<i, 0>>}
          /\ file[i].file_md5 = NoMd5
      BY <1>3, <1>i DEF RmDir, At, IsDir, Local
    <2>2. file[i].user_id = u
      BY <2>1, <1>t
    <2>3. OwnRows(s)
      BY <2>1, <2>2, <1>i DEF OwnRows
    <2>4. UploadInv(my[s])' /\ LocalInv(my[s], UserOf[s])'
      BY <2>1, <1>t DEF UploadInv, LocalInv, RmInv, OverInv, IntoInv, InsertedInv
    <2>5. ASSUME NEW m \in Md5 PROVE Quiet(s, m) /\ Uncounted(m)
      BY <2>1, <1>i, Md5Assumption DEF Quiet, Uncounted, Rows, Owing, OwesRow, Ahead, TypeOK
    <2>6. QED
      BY <2>3, <2>4, <2>5, QuietCovers DEF Kept, Bounded
  <1>4. ASSUME NEW i \in Id, RmFile(s, i) PROVE Kept(s) /\ Bounded
    <2>1. /\ my[s].cmd = "rm" /\ my[s].pc = "next" /\ <<i, 0>> \in my[s].todo /\ i \in DOMAIN file
          /\ UNCHANGED <<file, next, real>>
          /\ my'[s].cmd = "rm" /\ my'[s].pc = "dec" /\ my'[s].todo = my[s].todo \ {<<i, 0>>}
          /\ my'[s].row = i /\ my'[s].md5 = file[i].file_md5
      BY <1>4, <1>i DEF RmFile, At, Local
    <2>2. UploadInv(my[s])' /\ LocalInv(my[s], UserOf[s])'
      BY <2>1, <1>t DEF UploadInv, LocalInv, RmInv, OverInv, IntoInv, InsertedInv, Has
    <2>3. QED
      BY <2>1, <2>2, Reads DEF Kept, OwesRow, PastAdd
  <1>5. CASE RmList(s)
    <2> DEFINE rest == my[s].todo \union {<<j, 0>> : j \in {k \in Own(s) : file[k].father_id = my[s].src}}
    <2>1. my[s].cmd = "rm" /\ Proceed(s, rest) /\ UNCHANGED <<file, next, real>>
      BY <1>5 DEF RmList, At
    <2>2. ASSUME NEW t \in rest
          PROVE  t[1] < next /\ (t[1] \in DOMAIN file => file[t[1]].user_id = u)
      <3>1. CASE t \in my[s].todo
        BY <2>1, <3>1, <1>t
      <3>2. CASE t \notin my[s].todo
        <4>1. PICK j \in Own(s) : t = <<j, 0>>
          BY <3>2
        <4>2. QED
          BY <4>1, <1>i DEF Own
      <3>3. QED
        BY <3>1, <3>2
    <2> HIDE DEF rest
    <2>3. ~OwesRow(my'[s]) /\ UploadInv(my[s])' /\ LocalInv(my[s], UserOf[s])'
      BY <2>1, <2>2, WalkLocal
    <2>4. QED
      BY <2>1, <2>3, Reads DEF Kept, PastAdd
  <1>6. CASE RmUncounted(s)
    <2>1. my[s].cmd = "rm" /\ Proceed(s, my[s].todo) /\ UNCHANGED <<file, next, real>>
      BY <1>6 DEF RmUncounted, At
    <2>2. ~OwesRow(my'[s]) /\ UploadInv(my[s])' /\ LocalInv(my[s], UserOf[s])'
      BY <2>1, <1>t, WalkLocal
    <2>3. QED
      BY <2>1, <2>2, Reads DEF Kept, PastAdd
  <1>7. CASE RmDelete(s)
    <2>1. /\ my[s].cmd = "rm" /\ my[s].pc = "delete" /\ Proceed(s, my[s].todo)
          /\ file' = [j \in DOMAIN file \ {my[s].row} |-> file[j]] /\ next' = next /\ real' = real
      BY <1>7 DEF RmDelete, At
    <2>2. Has(my[s].row, u)
      BY <2>1, <1>i DEF LocalInv, RmInv
    <2>3. OwnRows(s)
      BY <2>1, <2>2, <1>i DEF OwnRows, Has
    <2>4. ~OwesRow(my'[s]) /\ UploadInv(my[s])' /\ LocalInv(my[s], UserOf[s])'
      BY <2>1, <1>t, WalkLocal
    <2>5. ASSUME NEW m \in Md5 PROVE Quiet(s, m) /\ Uncounted(m)
      BY <2>1, <2>4, <1>i DEF Quiet, Uncounted, Rows, Owing, OwesRow, Ahead, TypeOK
    <2>6. QED
      BY <2>3, <2>4, <2>5, QuietCovers DEF Kept, Bounded
  <1>8. QED
    BY <1>1, <1>2, <1>3, <1>4, <1>5, <1>6, <1>7 DEF RmStep

LEMMA GotoLocal ==
  ASSUME TypeOK, NEW s \in Session, NEW place, Goto(s, place)
  PROVE  /\ my'[s].cmd = my[s].cmd /\ my'[s].pc = place /\ my'[s].todo = my[s].todo
         /\ my'[s].row = my[s].row /\ my'[s].src = my[s].src /\ my'[s].md5 = my[s].md5
  BY DEF Goto, TypeOK, Local

LEMMA CountedIs ==
  ASSUME TypeOK, NEW m, NEW n \in Int, real' = Counted(m, n)
  PROVE  /\ DOMAIN real' = DOMAIN real
         /\ \A k \in DOMAIN real : real'[k] = IF k = m THEN real[k] + n ELSE real[k]
  BY DEF Counted, TypeOK

\* No count is raised by a statement on another content.
LEMMA OtherCounts ==
  ASSUME TypeOK, NEW c, NEW n \in Int, real' = Counted(c, n), NEW m, m # c \/ n <= 0
  PROVE  Uncounted(m)
  BY CountedIs DEF Uncounted, TypeOK

LEMMA DecKeeps ==
  ASSUME IInv, OneSessionEach, NEW s \in Session, TablesOK', OnlyOf(s), leaked' = leaked
  PROVE  Dec(s) => Kept(s) /\ Bounded
  <1> SUFFICES ASSUME Dec(s) PROVE Kept(s) /\ Bounded
    OBVIOUS
  <1>1. /\ my[s].cmd \in {"rm", "over", "into"} /\ my[s].pc = "dec" /\ Goto(s, "select")
        /\ real' = Counted(my[s].md5, -1) /\ file' = file /\ next' = next
    BY DEF Dec, At
  <1>2. TypeOK /\ UploadInv(my[s]) /\ LocalInv(my[s], UserOf[s]) /\ next \in Int
    BY MaxIdAssumption DEF IInv, TypeOK
  <1>3. /\ my'[s].cmd = my[s].cmd /\ my'[s].pc = "select" /\ my'[s].todo = my[s].todo
        /\ my'[s].row = my[s].row /\ my'[s].src = my[s].src /\ my'[s].md5 = my[s].md5
    BY <1>1, <1>2, GotoLocal
  <1>4. Kept(s)
    <2>1. OwnRows(s)
      BY <1>1, <1>2 DEF OwnRows
    <2>2. UploadInv(my[s])' /\ LocalInv(my[s], UserOf[s])'
      BY <1>1, <1>2, <1>3 DEF UploadInv, LocalInv, RmInv, OverInv, IntoInv, InsertedInv, Has
    <2>3. QED
      BY <2>1, <2>2 DEF Kept
  <1>5. file[my[s].row].file_md5 = my[s].md5
    BY <1>1, <1>2 DEF LocalInv, RmInv, OverInv, IntoInv
  <1>6. ASSUME NEW m \in Md5, m # my[s].md5 PROVE Covered(m)'
    <2>1. Quiet(s, m)
      BY <1>1, <1>3, <1>5, <1>6 DEF Quiet, Rows, Owing, Ahead
    <2>2. Uncounted(m)
      BY <1>1, <1>2, <1>6, OtherCounts
    <2>3. QED
      BY <1>4, <2>1, <2>2, QuietCovers DEF Kept
  <1>7. ASSUME NEW m \in Md5, m = my[s].md5 PROVE Covered(m)'
    <2>1. m \in DOMAIN real' => m \in DOMAIN real /\ real'[m] <= real[m] - 1
      BY <1>1, <1>2, <1>7, CountedIs DEF TypeOK
    <2>2. PICK i : i = my[s].row
      OBVIOUS
    <2>3. ASSUME NEW j \in Credit(m) \ {i} PROVE j \in Credit(m)'
      <3>1. j \in Rows(m)' /\ ~Owing(s, j)'
        BY <1>1, <1>3, <2>2 DEF Credit, Rows, Owing
      <3>2. QED
        BY <3>1, CreditKept
    <2>4. ASSUME NEW t \in Ahead(m) PROVE t \in Ahead(m)'
      <3>1. CASE t = s
        BY <1>1, <1>3, <3>1 DEF Ahead, Rows
      <3>2. CASE t # s
        BY <1>4, <3>2, AheadKept DEF Kept
      <3>3. QED
        BY <3>1, <3>2
    <2>5. TypeOK /\ AheadInv
      BY DEF IInv
    <2>6. QED
      BY <2>1, <2>3, <2>4, <2>5, CoverOwed
  <1>8. QED
    BY <1>4, <1>6, <1>7 DEF Bounded

LEMMA SelectKeeps ==
  ASSUME IInv, OneSessionEach, NEW s \in Session, TablesOK', OnlyOf(s), leaked' = leaked
  PROVE  Select(s) => Kept(s) /\ Bounded
  <1> SUFFICES ASSUME Select(s) PROVE Kept(s) /\ Bounded
    OBVIOUS
  <1>1. PICK place \in {"erase", "delete", "read"} :
          /\ my[s].cmd \in {"rm", "over", "into"} /\ my[s].pc = "select" /\ Goto(s, place)
          /\ UNCHANGED <<file, next, real>>
          /\ place = "delete" => my[s].cmd = "rm"
          /\ place = "read" => my[s].cmd # "rm"
    BY DEF Select, At, AfterDec
  <1>2. TypeOK /\ UploadInv(my[s]) /\ LocalInv(my[s], UserOf[s])
    BY DEF IInv
  <1>3. /\ my'[s].cmd = my[s].cmd /\ my'[s].pc = place /\ my'[s].todo = my[s].todo
        /\ my'[s].row = my[s].row /\ my'[s].src = my[s].src /\ my'[s].md5 = my[s].md5
    BY <1>1, <1>2, GotoLocal
  <1>4. UploadInv(my[s])' /\ LocalInv(my[s], UserOf[s])'
    BY <1>1, <1>2, <1>3 DEF UploadInv, LocalInv, RmInv, OverInv, IntoInv, InsertedInv, Has
  <1>5. QED
    BY <1>1, <1>3, <1>4, Reads DEF Kept, OwesRow, PastAdd

LEMMA EraseKeeps ==
  ASSUME IInv, OneSessionEach, NEW s \in Session, TablesOK', OnlyOf(s), leaked' = leaked
  PROVE  Erase(s) => Kept(s) /\ Bounded
  <1> SUFFICES ASSUME Erase(s) PROVE Kept(s) /\ Bounded
    OBVIOUS
  <1>1. PICK place \in {"delete", "read"} :
          /\ my[s].cmd \in {"rm", "over", "into"} /\ my[s].pc = "erase" /\ Goto(s, place)
          /\ real' = [m \in DOMAIN real \ {my[s].md5} |-> real[m]] /\ file' = file /\ next' = next
          /\ place = "delete" => my[s].cmd = "rm"
          /\ place = "read" => my[s].cmd # "rm"
    BY DEF Erase, At, AfterDec
  <1>2. TypeOK /\ UploadInv(my[s]) /\ LocalInv(my[s], UserOf[s]) /\ next \in Int
    BY MaxIdAssumption DEF IInv, TypeOK
  <1>3. /\ my'[s].cmd = my[s].cmd /\ my'[s].pc = place /\ my'[s].todo = my[s].todo
        /\ my'[s].row = my[s].row /\ my'[s].src = my[s].src /\ my'[s].md5 = my[s].md5
    BY <1>1, <1>2, GotoLocal
  <1>4. UploadInv(my[s])' /\ LocalInv(my[s], UserOf[s])'
    BY <1>1, <1>2, <1>3 DEF UploadInv, LocalInv, RmInv, OverInv, IntoInv, InsertedInv, Has
  <1>5. OwnRows(s)
    BY <1>1, <1>2 DEF OwnRows
  <1>6. ASSUME NEW m \in Md5 PROVE Quiet(s, m) /\ Uncounted(m)
    BY <1>1, <1>2, <1>3 DEF Quiet, Uncounted, Rows, Owing, OwesRow, Ahead, TypeOK
  <1>7. QED
    BY <1>4, <1>5, <1>6, QuietCovers DEF Kept, Bounded

\* After the last count of a copy or an upload.
LEMMA OnwardLocal ==
  ASSUME IInv, NEW s \in Session
  PROVE  Onward(s) => ~OwesRow(my'[s]) /\ UploadInv(my[s])' /\ LocalInv(my[s], UserOf[s])'
  <1> SUFFICES ASSUME Onward(s)
      PROVE  ~OwesRow(my'[s]) /\ UploadInv(my[s])' /\ LocalInv(my[s], UserOf[s])'
    OBVIOUS
  <1>1. TypeOK
    BY DEF IInv
  <1>2. CASE my[s].cmd = "tree"
    <2>1. PICK rest : Proceed(s, rest)
      BY <1>2 DEF Onward
    <2>2. \/ my'[s].cmd = "none"
          \/ my'[s].cmd = my[s].cmd /\ my'[s].pc = "next" /\ my'[s].todo = rest
      BY <1>1, <2>1, ProceedLocal
    <2>3. QED
      BY <1>2, <2>2 DEF OwesRow, UploadInv, LocalInv, RmInv, OverInv, IntoInv, InsertedInv
  <1>3. CASE my[s].cmd # "tree"
    <2>1. Done(s)
      BY <1>3 DEF Onward
    <2>2. my'[s].cmd = "none"
      BY <1>1, <2>1, DoneLocal
    <2>3. QED
      BY <2>2 DEF OwesRow, UploadInv, LocalInv, RmInv, OverInv, IntoInv, InsertedInv
  <1>4. QED
    BY <1>2, <1>3

LEMMA AddKeeps ==
  ASSUME IInv, OneSessionEach, NEW s \in Session, TablesOK', OnlyOf(s), leaked' = leaked
  PROVE  Add(s) => Kept(s) /\ Bounded
  <1> SUFFICES ASSUME Add(s) PROVE Kept(s) /\ Bounded
    OBVIOUS
  <1>1. /\ my[s].cmd \in {"new", "over", "tree", "upload"} /\ my[s].pc = "add" /\ Onward(s)
        /\ real' = Counted(my[s].md5, 1) /\ file' = file /\ next' = next
    BY DEF Add, At
  <1>2. TypeOK /\ AheadInv /\ LocalInv(my[s], UserOf[s]) /\ next \in Int
    BY MaxIdAssumption DEF IInv, TypeOK
  <1>3. ~OwesRow(my'[s]) /\ ~PastAdd(my[s])
    BY <1>1, OnwardLocal DEF PastAdd
  <1>4. Kept(s)
    <2>1. OwnRows(s)
      BY <1>1, <1>2 DEF OwnRows
    <2>2. QED
      BY <1>1, <2>1, OnwardLocal DEF Kept
  <1>5. ASSUME NEW m \in Md5 PROVE Quiet(s, m)
    BY <1>1, <1>3 DEF Quiet, Rows, Owing, Ahead, PastAdd
  <1>6. ASSUME NEW m \in Md5, m # my[s].md5 PROVE Covered(m)'
    <2>1. Uncounted(m)
      BY <1>1, <1>2, <1>6, OtherCounts
    <2>2. QED
      BY <1>4, <1>5, <2>1, QuietCovers DEF Kept
  <1>7. ASSUME NEW m \in Md5, m = my[s].md5 PROVE Covered(m)'
    <2>1. m \in DOMAIN real' => m \in DOMAIN real /\ real'[m] <= real[m] + 1
      BY <1>1, <1>2, <1>7, CountedIs DEF TypeOK
    <2>2. PICK i : i = my[s].row
      OBVIOUS
    <2>3. Has(i, UserOf[s]) /\ file[i].file_md5 = m /\ Owing(s, i)
      BY <1>1, <1>2, <1>7, <2>2 DEF LocalInv, OverInv, InsertedInv, Owing, OwesRow
    <2>4. i \in Rows(m)' /\ ~Owing(s, i)'
      BY <1>1, <1>3, <2>3 DEF Rows, Has, Owing
    <2>5. i \in Credit(m)' /\ i \notin Credit(m)
      BY <2>3, <2>4, CreditOwn DEF Credit
    <2>6. Credit(m) \subseteq Credit(m)' /\ Ahead(m) \subseteq Ahead(m)'
      BY <1>4, <1>5, QuietKeeps DEF Kept
    <2>7. QED
      BY <1>2, <2>1, <2>5, <2>6, CoverCounted
  <1>8. QED
    BY <1>4, <1>6, <1>7 DEF Bounded

LEMMA AddFirstKeeps ==
  ASSUME IInv, OneSessionEach, NEW s \in Session, TablesOK', OnlyOf(s), leaked' = leaked
  PROVE  AddFirst(s) => Kept(s) /\ Bounded
  <1> SUFFICES ASSUME AddFirst(s) PROVE Kept(s) /\ Bounded
    OBVIOUS
  <1>1. /\ my[s].cmd = "into" /\ my[s].pc = "add" /\ Goto(s, "dest")
        /\ real' = Counted(my[s].md5, 1) /\ file' = file /\ next' = next
    BY DEF AddFirst, At
  <1>2. TypeOK /\ AheadInv /\ LocalInv(my[s], UserOf[s]) /\ next \in Int
    BY MaxIdAssumption DEF IInv, TypeOK
  <1>3. /\ my'[s].cmd = my[s].cmd /\ my'[s].pc = "dest" /\ my'[s].todo = my[s].todo
        /\ my'[s].row = my[s].row /\ my'[s].src = my[s].src /\ my'[s].md5 = my[s].md5
    BY <1>1, <1>2, GotoLocal
  <1>4. Kept(s)
    <2>1. OwnRows(s)
      BY <1>1, <1>2 DEF OwnRows
    <2>2. UploadInv(my[s])' /\ LocalInv(my[s], UserOf[s])'
      BY <1>1, <1>2, <1>3 DEF UploadInv, LocalInv, RmInv, OverInv, IntoInv, InsertedInv, Has
    <2>3. QED
      BY <2>1, <2>2 DEF Kept
  <1>5. ASSUME NEW m \in Md5 PROVE Quiet(s, m)
    BY <1>1, <1>3 DEF Quiet, Rows, Owing, OwesRow, Ahead
  <1>6. ASSUME NEW m \in Md5, m # my[s].md5 PROVE Covered(m)'
    <2>1. Uncounted(m)
      BY <1>1, <1>2, <1>6, OtherCounts
    <2>2. QED
      BY <1>4, <1>5, <2>1, QuietCovers DEF Kept
  <1>7. ASSUME NEW m \in Md5, m = my[s].md5 PROVE Covered(m)'
    <2>1. m \in DOMAIN real' => m \in DOMAIN real /\ real'[m] <= real[m] + 1
      BY <1>1, <1>2, <1>7, CountedIs DEF TypeOK
    <2>2. my[s].src \in Rows(m)
      BY <1>1, <1>2, <1>7 DEF LocalInv, IntoInv, Has, Rows
    <2>3. s \in Ahead(m)' /\ s \notin Ahead(m)
      BY <1>1, <1>3, <2>2 DEF Ahead, Rows
    <2>4. Credit(m) \subseteq Credit(m)' /\ Ahead(m) \subseteq Ahead(m)'
      BY <1>4, <1>5, QuietKeeps DEF Kept
    <2>5. QED
      BY <1>2, <2>1, <2>3, <2>4, CoverAhead
  <1>8. QED
    BY <1>4, <1>6, <1>7 DEF Bounded

LEMMA CountKeeps ==
  ASSUME IInv, OneSessionEach, NEW s \in Session, TablesOK', OnlyOf(s), leaked' = leaked
  PROVE  CountStep(s) => Kept(s) /\ Bounded
  BY DecKeeps, SelectKeeps, EraseKeeps, AddKeeps, AddFirstKeeps DEF CountStep

LEMMA UpdateKeeps ==
  ASSUME IInv, OneSessionEach, NEW s \in Session, TablesOK', OnlyOf(s), leaked' = leaked
  PROVE  Update(s) => Kept(s) /\ Bounded
  <1> SUFFICES ASSUME Update(s) PROVE Kept(s) /\ Bounded
    OBVIOUS
  <1>1. /\ my[s].cmd \in {"over", "into"} /\ my[s].pc = "update"
        /\ file' = [i \in DOMAIN file |-> IF i = my[s].row
                      THEN [file[i] EXCEPT !.file_md5 = my[s].md5] ELSE file[i]]
        /\ next' = next /\ real' = real
        /\ IF my[s].cmd = "over" THEN Goto(s, "add") ELSE Done(s)
    BY DEF Update, At
  <1>2. /\ TypeOK /\ AheadInv /\ LocalInv(my[s], UserOf[s]) /\ next \in Int
        /\ \A i \in DOMAIN file : file[i] \in Row
    BY MaxIdAssumption DEF IInv, TypeOK
  <1>3. PICK r : r = my[s].row
    OBVIOUS
  <1>4. Has(r, UserOf[s]) /\ Has(my[s].src, UserOf[s]) /\ Owing(s, r)
    BY <1>1, <1>2, <1>3 DEF LocalInv, OverInv, IntoInv, Owing, OwesRow
  <1>5. /\ DOMAIN file' = DOMAIN file
        /\ \A i \in DOMAIN file : i # r => file'[i] = file[i]
        /\ file'[r].file_md5 = my[s].md5 /\ file'[r].user_id = file[r].user_id
    BY <1>1, <1>2, <1>3, <1>4 DEF Row, Has
  <1>6. OwnRows(s)
    BY <1>1, <1>2, <1>4, <1>5 DEF OwnRows, Has
  <1>7. CASE my[s].cmd = "over"
    <2>1. /\ my'[s].cmd = "over" /\ my'[s].pc = "add" /\ my'[s].row = r
          /\ my'[s].src = my[s].src /\ my'[s].md5 = my[s].md5
      BY <1>1, <1>2, <1>3, <1>7, GotoLocal
    <2>2. UploadInv(my[s])' /\ LocalInv(my[s], UserOf[s])'
      BY <1>4, <1>5, <2>1 DEF UploadInv, LocalInv, RmInv, OverInv, IntoInv, InsertedInv, Has
    <2>3. ASSUME NEW m \in Md5 PROVE Quiet(s, m) /\ Uncounted(m)
      <3>1. \A i \in Rows(m) : ~Owing(s, i) => i \in Rows(m)' /\ ~Owing(s, i)'
        BY <1>3, <1>4, <1>5, <2>1 DEF Rows, Owing, OwesRow
      <3>2. s \notin Ahead(m)
        BY <1>7 DEF Ahead
      <3>3. Uncounted(m)
        BY <1>1, <1>2 DEF Uncounted, TypeOK
      <3>4. QED
        BY <3>1, <3>2, <3>3 DEF Quiet
    <2>4. QED
      BY <1>6, <2>2, <2>3, QuietCovers DEF Kept, Bounded
  <1>8. CASE my[s].cmd = "into"
    <2>1. my'[s].cmd = "none"
      BY <1>1, <1>2, <1>8, DoneLocal
    <2>2. UploadInv(my[s])' /\ LocalInv(my[s], UserOf[s])'
      BY <2>1 DEF UploadInv, LocalInv, RmInv, OverInv, IntoInv, InsertedInv
    <2>3. ASSUME NEW i PROVE ~Owing(s, i)'
      BY <2>1 DEF Owing, OwesRow
    <2>4. file[my[s].src].file_md5 = my[s].md5
      BY <1>1, <1>2, <1>8 DEF LocalInv, IntoInv
    <2>5. ASSUME NEW m \in Md5 PROVE \A i \in Rows(m) : ~Owing(s, i) => i \in Rows(m)'
      BY <1>4, <1>5 DEF Rows
    <2>6. ASSUME NEW m \in Md5, m # my[s].md5 PROVE Covered(m)'
      <3>1. s \notin Ahead(m)
        BY <2>4, <2>6 DEF Ahead, Rows
      <3>2. Quiet(s, m)
        BY <2>3, <2>5, <3>1 DEF Quiet
      <3>3. Uncounted(m)
        BY <1>1, <1>2 DEF Uncounted, TypeOK
      <3>4. QED
        BY <1>6, <3>2, <3>3, QuietCovers
    <2>7. ASSUME NEW m \in Md5, m = my[s].md5 PROVE Covered(m)'
      <3>1. r \in Rows(m)'
        BY <1>4, <1>5, <2>7 DEF Rows, Has
      <3>2. r \in Credit(m)' /\ r \notin Credit(m)
        BY <1>4, <2>3, <3>1, CreditOwn DEF Credit
      <3>3. ASSUME NEW i \in Credit(m) PROVE i \in Credit(m)'
        BY <2>3, <2>5, CreditKept DEF Credit
      <3>4. ASSUME NEW t \in Ahead(m) \ {s} PROVE t \in Ahead(m)'
        BY <1>6, AheadKept
      <3>5. QED
        BY <1>1, <1>2, <3>2, <3>3, <3>4, CoverCaughtUp
    <2>8. QED
      BY <1>6, <2>2, <2>6, <2>7 DEF Kept, Bounded
  <1>9. QED
    BY <1>1, <1>7, <1>8

LEMMA CopyKeeps ==
  ASSUME IInv, OneSessionEach, NEW s \in Session, TablesOK', OnlyOf(s), leaked' = leaked
  PROVE  CopyStep(s) => Kept(s) /\ Bounded
  <1>i. /\ TypeOK /\ my \in [Session -> Local] /\ my[s] \in Local /\ LocalInv(my[s], UserOf[s])
        /\ UploadInv(my[s])
    BY DEF IInv, TypeOK
  <1>1. ASSUME NEW i \in Id, NEW f \in 0..MaxId, StartNew(s, i, f) PROVE Kept(s) /\ Bounded
    <2>1. /\ my[s].pc = "idle" /\ UNCHANGED <<file, next, real>>
          /\ my'[s].cmd = "new" /\ my'[s].pc = "insert"
      BY <1>1, <1>i DEF StartNew, Local
    <2>2. UploadInv(my[s])' /\ LocalInv(my[s], UserOf[s])'
      BY <2>1 DEF UploadInv, LocalInv, RmInv, OverInv, IntoInv, InsertedInv
    <2>3. QED
      BY <2>1, <2>2, Fresh, Reads DEF Kept, OwesRow
  <1>2. ASSUME NEW i \in Id, NEW j \in Id, StartOver(s, i, j) PROVE Kept(s) /\ Bounded
    <2>1. /\ my[s].pc = "idle" /\ UNCHANGED <<file, next, real>>
          /\ my'[s].cmd = "over" /\ my'[s].pc = "dec" /\ my'[s].row = j /\ my'[s].src = i
          /\ my'[s].md5 = file[j].file_md5 /\ Has(i, UserOf[s]) /\ Has(j, UserOf[s])
      BY <1>2, <1>i DEF StartOver, Files, Found, Own, Has, Local
    <2>2. UploadInv(my[s])' /\ LocalInv(my[s], UserOf[s])'
      BY <2>1 DEF UploadInv, LocalInv, RmInv, OverInv, IntoInv, InsertedInv, Has
    <2>3. QED
      BY <2>1, <2>2, Fresh, Reads DEF Kept, OwesRow
  <1>3. ASSUME NEW i \in Id, NEW j \in Id, StartInto(s, i, j) PROVE Kept(s) /\ Bounded
    <2>1. /\ my[s].pc = "idle" /\ UNCHANGED <<file, next, real>>
          /\ my'[s].cmd = "into" /\ my'[s].pc = "add" /\ my'[s].row = j /\ my'[s].src = i
          /\ my'[s].md5 = file[i].file_md5 /\ Has(i, UserOf[s]) /\ Has(j, UserOf[s])
      BY <1>3, <1>i DEF StartInto, Files, Found, Own, Has, Local
    <2>2. UploadInv(my[s])' /\ LocalInv(my[s], UserOf[s])'
      BY <2>1 DEF UploadInv, LocalInv, RmInv, OverInv, IntoInv, InsertedInv, Has
    <2>3. QED
      BY <2>1, <2>2, Fresh, Reads DEF Kept, OwesRow
  <1>4. CASE ReadDest(s)
    <2>1. /\ my[s].cmd = "into" /\ my[s].pc = "dest" /\ UNCHANGED <<file, next, real>>
          /\ my'[s].cmd = "into" /\ my'[s].pc = "dec" /\ my'[s].row = my[s].row
          /\ my'[s].src = my[s].src /\ my'[s].md5 = file[my[s].row].file_md5
      BY <1>4, <1>i DEF ReadDest, At, Local
    <2>2. UploadInv(my[s])' /\ LocalInv(my[s], UserOf[s])'
      BY <2>1, <1>i DEF UploadInv, LocalInv, RmInv, OverInv, IntoInv, InsertedInv, Has
    <2>3. QED
      BY <2>1, <2>2, Reads DEF Kept, OwesRow, PastAdd
  <1>5. CASE ReadSrc(s)
    <2>1. /\ my[s].cmd \in {"over", "into"} /\ my[s].pc = "read" /\ UNCHANGED <<file, next, real>>
          /\ my'[s].cmd = my[s].cmd /\ my'[s].pc = "update" /\ my'[s].row = my[s].row
          /\ my'[s].src = my[s].src /\ my'[s].md5 = file[my[s].src].file_md5
      BY <1>5, <1>i DEF ReadSrc, At, Local
    <2>2. UploadInv(my[s])' /\ LocalInv(my[s], UserOf[s])'
      BY <2>1, <1>i DEF UploadInv, LocalInv, RmInv, OverInv, IntoInv, InsertedInv, Has
    <2>3. QED
      BY <2>1, <2>2, Reads DEF Kept, OwesRow, PastAdd
  <1>6. QED
    BY <1>1, <1>2, <1>3, <1>4, <1>5, UpdateKeeps DEF CopyStep

\* An insert leaves the rows there are, and its row has a new id.
LEMMA InsertRow ==
  ASSUME TypeOK, NEW s \in Session, NEW row, Insert(row)
  PROVE  /\ OwnRows(s)
         /\ next \notin DOMAIN file /\ next \in DOMAIN file' /\ file'[next] = row
         /\ \A i \in DOMAIN file : i \in DOMAIN file' /\ file'[i] = file[i]
  <1>1. DOMAIN file \subseteq 1..(next - 1) /\ next \in Int
    BY MaxIdAssumption DEF TypeOK
  <1>2. /\ file' = [i \in DOMAIN file \union {next} |-> IF i = next THEN row ELSE file[i]]
        /\ next' = next + 1
    BY DEF Insert
  <1>3. next \notin DOMAIN file
    BY <1>1
  <1>4. OwnRows(s)
    BY <1>1, <1>2, <1>3 DEF OwnRows
  <1>5. QED
    BY <1>2, <1>3, <1>4

\* A row that the session inserts and does not count at once raises no bound.
LEMMA Inserts ==
  ASSUME IInv, OneSessionEach, NEW s \in Session, TablesOK', OnlyOf(s), leaked' = leaked,
         NEW row, Insert(row), real' = real, ~OwesRow(my[s]), ~PastAdd(my[s]),
         OwesRow(my'[s]) => my'[s].row = next
  PROVE  OwnRows(s) /\ Bounded
  <1>1. TypeOK
    BY DEF IInv
  <1>2. ASSUME NEW m \in Md5 PROVE Quiet(s, m) /\ Uncounted(m)
    <2>1. \A i \in Rows(m) : i \in Rows(m)' /\ ~Owing(s, i)'
      BY <1>1, InsertRow DEF Rows, Owing
    <2>2. s \notin Ahead(m)
      BY DEF Ahead, PastAdd
    <2>3. Uncounted(m)
      BY <1>1 DEF Uncounted, TypeOK
    <2>4. QED
      BY <2>1, <2>2, <2>3 DEF Quiet
  <1>3. OwnRows(s)
    BY <1>1, InsertRow
  <1>4. QED
    BY <1>2, <1>3, QuietCovers DEF Bounded

LEMMA TreeKeeps ==
  ASSUME IInv, OneSessionEach, NEW s \in Session, TablesOK', OnlyOf(s), leaked' = leaked
  PROVE  TreeStep(s) => Kept(s) /\ Bounded
  <1>i. TypeOK /\ my \in [Session -> Local] /\ my[s] \in Local /\ LocalInv(my[s], UserOf[s])
    BY DEF IInv, TypeOK
  <1>1. ASSUME NEW f \in 0..MaxId, Mkdir(s, f) PROVE Kept(s) /\ Bounded
    <2>1. my[s].pc = "idle" /\ my' = my /\ real' = real
      BY <1>1 DEF Mkdir
    <2>2. PICK row : Insert(row)
      BY <1>1 DEF Mkdir
    <2>3. UploadInv(my[s])' /\ LocalInv(my[s], UserOf[s])'
      BY <2>1, <1>i DEF IInv, UploadInv, LocalInv, RmInv, OverInv, IntoInv, InsertedInv
    <2>4. ~OwesRow(my[s]) /\ ~PastAdd(my[s])
      BY <2>1, Fresh
    <2>5. OwnRows(s) /\ Bounded
      BY <2>1, <2>2, <2>4, Inserts
    <2>6. QED
      BY <2>3, <2>5 DEF Kept
  <1>2. ASSUME NEW i \in Id, NEW f \in 0..MaxId, StartTree(s, i, f) PROVE Kept(s) /\ Bounded
    <2>1. /\ my[s].pc = "idle" /\ UNCHANGED <<file, next, real>>
          /\ my'[s].cmd = "tree" /\ my'[s].pc = "next"
      BY <1>2, <1>i DEF StartTree, Local
    <2>2. UploadInv(my[s])' /\ LocalInv(my[s], UserOf[s])'
      BY <2>1 DEF UploadInv, LocalInv, RmInv, OverInv, IntoInv, InsertedInv
    <2>3. QED
      BY <2>1, <2>2, Fresh, Reads DEF Kept, OwesRow
  <1>3. ASSUME NEW t \in my[s].todo, TreeDir(s, t) PROVE Kept(s) /\ Bounded
    <2>1. /\ my[s].cmd = "tree" /\ my[s].pc = "next" /\ real' = real
          /\ my'[s].cmd = "tree" /\ my'[s].pc = "max"
      BY <1>3, <1>i DEF TreeDir, At, Local
    <2>2. PICK row : Insert(row)
      BY <1>3 DEF TreeDir
    <2>3. UploadInv(my[s])' /\ LocalInv(my[s], UserOf[s])'
      BY <2>1 DEF UploadInv, LocalInv, RmInv, OverInv, IntoInv, InsertedInv
    <2>4. ~OwesRow(my[s]) /\ ~PastAdd(my[s]) /\ ~OwesRow(my'[s])
      BY <2>1 DEF OwesRow, PastAdd
    <2>5. OwnRows(s) /\ Bounded
      BY <2>1, <2>2, <2>4, Inserts
    <2>6. QED
      BY <2>3, <2>5 DEF Kept
  <1>4. ASSUME NEW t \in my[s].todo, TreeFile(s, t) PROVE Kept(s) /\ Bounded
    <2>1. /\ my[s].cmd = "tree" /\ UNCHANGED <<file, next, real>>
          /\ my'[s].cmd = "tree" /\ my'[s].pc = "insert"
      BY <1>4, <1>i DEF TreeFile, At, Local
    <2>2. UploadInv(my[s])' /\ LocalInv(my[s], UserOf[s])'
      BY <2>1 DEF UploadInv, LocalInv, RmInv, OverInv, IntoInv, InsertedInv
    <2>3. QED
      BY <2>1, <2>2, Reads DEF Kept, OwesRow, PastAdd
  <1>5. ASSUME NEW i \in Id, TreeMax(s, i) PROVE Kept(s) /\ Bounded
    <2>1. /\ my[s].cmd = "tree" /\ UNCHANGED <<file, next, real>>
          /\ my'[s].cmd = "tree" /\ my'[s].pc = "list"
      BY <1>5, <1>i DEF TreeMax, At, Local
    <2>2. UploadInv(my[s])' /\ LocalInv(my[s], UserOf[s])'
      BY <2>1 DEF UploadInv, LocalInv, RmInv, OverInv, IntoInv, InsertedInv
    <2>3. QED
      BY <2>1, <2>2, Reads DEF Kept, OwesRow, PastAdd
  <1>6. CASE TreeList(s)
    <2>1. PICK rest : /\ my[s].cmd = "tree" /\ UNCHANGED <<file, next, real>> /\ Proceed(s, rest)
      BY <1>6 DEF TreeList, At
    <2>2. \/ my'[s].cmd = "none"
          \/ my'[s].cmd = my[s].cmd /\ my'[s].pc = "next" /\ my'[s].todo = rest
      BY <1>i, <2>1, ProceedLocal
    <2>3. UploadInv(my[s])' /\ LocalInv(my[s], UserOf[s])'
      BY <2>1, <2>2 DEF UploadInv, LocalInv, RmInv, OverInv, IntoInv, InsertedInv
    <2>4. ~OwesRow(my'[s]) /\ ~PastAdd(my[s])
      BY <2>1, <2>2 DEF OwesRow, PastAdd
    <2>5. QED
      BY <2>1, <2>3, <2>4, Reads DEF Kept
  <1>7. QED
    BY <1>1, <1>2, <1>3, <1>4, <1>5, <1>6 DEF TreeStep

LEMMA InsertFileKeeps ==
  ASSUME IInv, OneSessionEach, NEW s \in Session, TablesOK', OnlyOf(s), leaked' = leaked
  PROVE  InsertFile(s) => Kept(s) /\ Bounded
  <1> SUFFICES ASSUME InsertFile(s) PROVE Kept(s) /\ Bounded
    OBVIOUS
  <1>1. TypeOK /\ my \in [Session -> Local] /\ my[s] \in Local /\ UploadInv(my[s])
    BY DEF IInv, TypeOK
  <1>2. PICK row : /\ row = NewRow(s, my[s].md5, my[s].father) /\ Insert(row)
    BY DEF InsertFile
  <1>3. /\ my[s].cmd \in {"new", "tree", "upload"} /\ my[s].pc = "insert" /\ real' = real
        /\ my'[s].cmd = my[s].cmd /\ my'[s].pc \in {"enter", "add"}
        /\ my'[s].row = next /\ my'[s].md5 = my[s].md5
    BY <1>1 DEF InsertFile, At, Local
  <1>4. row.file_md5 = my[s].md5 /\ row.user_id = UserOf[s]
    BY <1>2 DEF NewRow
  <1>5. next \in DOMAIN file' /\ file'[next] = row
    BY <1>1, <1>2, InsertRow
  <1>6. UploadInv(my[s])' /\ LocalInv(my[s], UserOf[s])'
    BY <1>1, <1>3, <1>4, <1>5 DEF UploadInv, LocalInv, RmInv, OverInv, IntoInv, InsertedInv, Has
  <1>7. ~OwesRow(my[s]) /\ ~PastAdd(my[s])
    BY <1>3 DEF OwesRow, PastAdd
  <1>8. OwnRows(s) /\ Bounded
    BY <1>2, <1>3, <1>7, Inserts
  <1>9. QED
    BY <1>6, <1>8 DEF Kept

\* The row of a content that is new in file_real is the one that has been inserted.
LEMMA EnterKeeps ==
  ASSUME IInv, OneSessionEach, NEW s \in Session, TablesOK', OnlyOf(s), leaked' = leaked
  PROVE  Enter(s) => Kept(s) /\ Bounded
  <1> SUFFICES ASSUME Enter(s) PROVE Kept(s) /\ Bounded
    OBVIOUS
  <1>1. TypeOK /\ AheadInv /\ UploadInv(my[s]) /\ LocalInv(my[s], UserOf[s]) /\ next \in Int
    BY MaxIdAssumption DEF IInv, TypeOK
  <1>2. /\ my[s].cmd = "upload" /\ my[s].pc = "enter" /\ file' = file /\ next' = next
        /\ real' = [m \in DOMAIN real \union {my[s].md5} |-> IF m \in DOMAIN real THEN real[m] ELSE 1]
        /\ IF my[s].full THEN Done(s) ELSE Goto(s, "receive")
    BY DEF Enter, At
  <1>3. \/ my'[s].cmd = "none"
        \/ my'[s].cmd = my[s].cmd /\ my'[s].pc = "receive" /\ my'[s].md5 = my[s].md5
    BY <1>1, <1>2, DoneLocal, GotoLocal
  <1>4. ~OwesRow(my'[s]) /\ ~PastAdd(my[s])
    BY <1>2, <1>3 DEF OwesRow, PastAdd
  <1>5. UploadInv(my[s])' /\ LocalInv(my[s], UserOf[s])'
    BY <1>1, <1>2, <1>3 DEF UploadInv, LocalInv, RmInv, OverInv, IntoInv, InsertedInv
  <1>6. OwnRows(s)
    BY <1>1, <1>2 DEF OwnRows
  <1>7. ASSUME NEW m \in Md5, m \in DOMAIN real \/ m # my[s].md5 PROVE Covered(m)'
    <2>1. Quiet(s, m)
      BY <1>2, <1>4 DEF Quiet, Rows, Owing, Ahead
    <2>2. Uncounted(m)
      BY <1>1, <1>2, <1>7 DEF Uncounted, TypeOK
    <2>3. QED
      BY <1>6, <2>1, <2>2, QuietCovers
  <1>8. ASSUME NEW m \in Md5, m \notin DOMAIN real, m = my[s].md5 PROVE Covered(m)'
    <2>1. PICK i : i = my[s].row
      OBVIOUS
    <2>2. Has(i, UserOf[s]) /\ file[i].file_md5 = m
      BY <1>1, <1>2, <1>8, <2>1 DEF LocalInv, InsertedInv
    <2>3. i \in Rows(m)' /\ ~Owing(s, i)'
      BY <1>2, <1>4, <2>2 DEF Rows, Has, Owing
    <2>4. i \in Credit(m)'
      BY <2>2, <2>3, CreditOwn
    <2>5. 1 <= Cardinality(Credit(m)')
      <3>1. {} \in SUBSET Credit(m)' /\ IsFiniteSet(Credit(m)')
        BY <1>1, Finite
      <3>2. Cardinality({}) + 1 <= Cardinality(Credit(m)')
        BY <2>4, <3>1, SizeGained
      <3>3. QED
        BY <3>2, FS_EmptySet
    <2>6. real'[m] = 1
      BY <1>2, <1>8
    <2>7. leaked'[m] \in Nat
      BY <1>1 DEF TypeOK
    <2>8. QED
      BY <1>1, <2>5, <2>6, <2>7, Finite DEF Covered
  <1>9. QED
    BY <1>5, <1>6, <1>7, <1>8 DEF Kept, Bounded

LEMMA UploadKeeps ==
  ASSUME IInv, OneSessionEach, NEW s \in Session, TablesOK', OnlyOf(s), leaked' = leaked
  PROVE  UploadStep(s) => Kept(s) /\ Bounded
  <1>i. TypeOK /\ my \in [Session -> Local] /\ my[s] \in Local /\ UploadInv(my[s])
    BY DEF IInv, TypeOK
  <1>1. ASSUME NEW m \in Md5, NEW f \in 0..MaxId, StartUpload(s, m, f) PROVE Kept(s) /\ Bounded
    <2>1. /\ my[s].pc = "idle" /\ UNCHANGED <<file, next, real>>
          /\ my'[s].cmd = "upload" /\ my'[s].pc = "lookup" /\ my'[s].md5 = m
      BY <1>1, <1>i DEF StartUpload, Local
    <2>2. UploadInv(my[s])' /\ LocalInv(my[s], UserOf[s])'
      BY <2>1 DEF UploadInv, LocalInv, RmInv, OverInv, IntoInv, InsertedInv
    <2>3. QED
      BY <2>1, <2>2, Fresh, Reads DEF Kept, OwesRow
  <1>2. CASE Lookup(s)
    <2>1. /\ my[s].cmd = "upload" /\ UNCHANGED <<file, next, real>>
          /\ my'[s].cmd = "upload" /\ my'[s].pc \in {"receive", "insert"} /\ my'[s].md5 = my[s].md5
      BY <1>2, <1>i DEF Lookup, At, Local
    <2>2. UploadInv(my[s])' /\ LocalInv(my[s], UserOf[s])'
      BY <2>1, <1>i DEF UploadInv, LocalInv, RmInv, OverInv, IntoInv, InsertedInv
    <2>3. QED
      BY <2>1, <2>2, Reads DEF Kept, OwesRow, PastAdd
  <1>3. CASE Receive(s)
    <2>1. my[s].cmd = "upload" /\ Done(s) /\ UNCHANGED <<file, next, real>>
      BY <1>3 DEF Receive, At
    <2>2. my'[s].cmd = "none"
      BY <1>i, <2>1, DoneLocal
    <2>3. UploadInv(my[s])' /\ LocalInv(my[s], UserOf[s])'
      BY <2>2 DEF UploadInv, LocalInv, RmInv, OverInv, IntoInv, InsertedInv
    <2>4. QED
      BY <2>1, <2>2, <2>3, Reads DEF Kept, OwesRow, PastAdd
  <1>4. QED
    BY <1>1, <1>2, <1>3, InsertFileKeeps, EnterKeeps DEF UploadStep

-----------------------------------------------------------------------------
(* The theorems.                                                           *)

\* An upload keeps the content that it has been asked for.
LEMMA UploadKept ==
  ASSUME TypeOK, NEW s \in Session, UploadInv(my[s])
  PROVE  Step(s) => UploadInv(my[s])'
  <1>i. my \in [Session -> Local] /\ my[s] \in Local
    BY DEF TypeOK
  <1>w. ASSUME NEW rest, Proceed(s, rest), my[s].cmd # "upload" PROVE UploadInv(my[s])'
    BY <1>w, ProceedLocal DEF UploadInv
  <1>d. ASSUME Done(s) PROVE UploadInv(my[s])'
    BY <1>d, DoneLocal DEF UploadInv
  <1>g. ASSUME NEW place, Goto(s, place) PROVE UploadInv(my[s])'
    BY <1>g, GotoLocal DEF UploadInv
  <1>1. ASSUME RmStep(s) PROVE UploadInv(my[s])'
    <2>1. ASSUME NEW i \in Id, StartRm(s, i) \/ RmDir(s, i) \/ RmFile(s, i) PROVE UploadInv(my[s])'
      BY <2>1, <1>i DEF StartRm, RmDir, RmFile, At, UploadInv, Local
    <2>2. ASSUME NEW i \in Id, RmMissing(s, i) PROVE UploadInv(my[s])'
      BY <2>2, <1>w DEF RmMissing, At
    <2>3. CASE RmList(s) \/ RmUncounted(s) \/ RmDelete(s)
      BY <2>3, <1>w DEF RmList, RmUncounted, RmDelete, At
    <2>4. QED
      BY <1>1, <2>1, <2>2, <2>3 DEF RmStep
  <1>2. ASSUME CountStep(s) PROVE UploadInv(my[s])'
    BY <1>2, <1>w, <1>d, <1>g DEF CountStep, Dec, Select, Erase, Add, AddFirst, Onward, At
  <1>3. ASSUME CopyStep(s) PROVE UploadInv(my[s])'
    <2>1. ASSUME NEW i \in Id, NEW f \in 0..MaxId, StartNew(s, i, f) PROVE UploadInv(my[s])'
      BY <2>1, <1>i DEF StartNew, UploadInv, Local
    <2>2. ASSUME NEW i \in Id, NEW j \in Id, StartOver(s, i, j) \/ StartInto(s, i, j)
          PROVE  UploadInv(my[s])'
      BY <2>2, <1>i DEF StartOver, StartInto, UploadInv, Local
    <2>3. CASE ReadDest(s) \/ ReadSrc(s)
      BY <2>3, <1>i DEF ReadDest, ReadSrc, At, UploadInv, Local
    <2>4. CASE Update(s)
      BY <2>4, <1>d, <1>g DEF Update
    <2>5. QED
      BY <1>3, <2>1, <2>2, <2>3, <2>4 DEF CopyStep
  <1>4. ASSUME TreeStep(s) PROVE UploadInv(my[s])'
    <2>1. ASSUME NEW f \in 0..MaxId, Mkdir(s, f) PROVE UploadInv(my[s])'
      BY <2>1 DEF Mkdir, UploadInv
    <2>2. ASSUME NEW i \in Id, NEW f \in 0..MaxId, StartTree(s, i, f) PROVE UploadInv(my[s])'
      BY <2>2, <1>i DEF StartTree, UploadInv, Local
    <2>3. ASSUME NEW t \in my[s].todo, TreeDir(s, t) PROVE UploadInv(my[s])'
      BY <2>3, <1>i DEF TreeDir, At, UploadInv, Local
    <2>4. ASSUME NEW t \in my[s].todo, TreeFile(s, t) PROVE UploadInv(my[s])'
      BY <2>4, <1>i DEF TreeFile, At, UploadInv, Local
    <2>5. ASSUME NEW i \in Id, TreeMax(s, i) PROVE UploadInv(my[s])'
      BY <2>5, <1>i DEF TreeMax, At, UploadInv, Local
    <2>6. CASE TreeList(s)
      BY <2>6, <1>w DEF TreeList, At
    <2>7. QED
      BY <1>4, <2>1, <2>2, <2>3, <2>4, <2>5, <2>6 DEF TreeStep
  <1>5. ASSUME UploadStep(s) PROVE UploadInv(my[s])'
    <2>1. ASSUME NEW m \in Md5, NEW f \in 0..MaxId, StartUpload(s, m, f) PROVE UploadInv(my[s])'
      BY <2>1, <1>i DEF StartUpload, UploadInv, Local
    <2>2. CASE Lookup(s)
      BY <2>2, <1>i DEF Lookup, UploadInv, Local
    <2>3. CASE InsertFile(s)
      BY <2>3, <1>i DEF InsertFile, UploadInv, Local
    <2>4. CASE Enter(s) \/ Receive(s)
      BY <2>4, <1>d, <1>g DEF Enter, Receive
    <2>5. QED
      BY <1>5, <2>1, <2>2, <2>3, <2>4 DEF UploadStep
  <1>6. QED
    BY <1>1, <1>2, <1>3, <1>4, <1>5 DEF Step

TypesInv == TypeOK /\ \A s \in Session : UploadInv(my[s])

LEMMA HeldTypes ==
  ASSUME TypesInv
  PROVE  Clash \subseteq Md5 /\ \A s \in Session : Held(s) \subseteq Md5
  BY DEF TypesInv, TypeOK, Clash, Held, Local, Row

LEMMA EndTypes ==
  ASSUME TypesInv, ServerEnds
  PROVE  TypesInv'
  <1>1. TablesOK'
    BY DEF TypesInv, TypeOK, TablesOK, ServerEnds
  <1>2. \A m \in Md5 : Cardinality(Ahead(m)) \in Nat
    BY <1>1, Finite DEF TypesInv
  <1>3. Idle \in Local
    BY MaxIdAssumption DEF Idle, Local, Place
  <1>4. my' = [s \in Session |-> Idle] /\ exits' = exits + 1 /\ exits < MaxExits /\ raced' = raced
        /\ leaked' = [m \in Md5 |-> leaked[m] + Cardinality(Ahead(m))]
        /\ spoiled' = spoiled \union Clash \union UNION {Held(s) : s \in Session}
    BY DEF ServerEnds
  <1>5. leaked' \in [Md5 -> Nat]
    BY <1>2, <1>4 DEF TypesInv, TypeOK
  <1>6. spoiled' \subseteq Md5
    BY <1>4, HeldTypes DEF TypesInv, TypeOK
  <1>7. my' \in [Session -> Local] /\ \A s \in Session : UploadInv(my[s])'
    BY <1>3, <1>4 DEF UploadInv, Idle
  <1>8. exits' \in 0..MaxExits /\ raced' \subseteq User
    BY <1>4, MaxExitsAssumption DEF TypesInv, TypeOK
  <1>9. QED
    BY <1>1, <1>5, <1>6, <1>7, <1>8 DEF TypesInv, TypeOK, TablesOK

LEMMA SessionTypes ==
  ASSUME TypesInv, SessionStep
  PROVE  TypesInv'
  <1>1. PICK s \in Session : Step(s)
    BY DEF SessionStep
  <1>2. TablesOK' /\ OnlyOf(s) /\ UploadInv(my[s])'
    BY <1>1, StepTypes, UploadKept DEF TypesInv
  <1>3. \A t \in Session : UploadInv(my[t])'
    BY <1>2 DEF TypesInv, OnlyOf, UploadInv
  <1>4. spoiled' \subseteq Md5
    BY DEF SessionStep, Clash, TypesInv, TypeOK
  <1>5. raced' \subseteq User
    BY UserOfAssumption DEF SessionStep, TypesInv, TypeOK
  <1>6. UNCHANGED <<exits, leaked>>
    BY DEF SessionStep
  <1>7. QED
    BY <1>2, <1>3, <1>4, <1>5, <1>6 DEF TypesInv, TypeOK, TablesOK, OnlyOf

LEMMA InitTypes == Init => TypesInv
  BY MaxIdAssumption, MaxExitsAssumption DEF Init, TypesInv, TypeOK, UploadInv, Idle, Local, Place

\* The types hold for any number of sessions of any users.
THEOREM Types == Spec => []TypeOK
  <1>1. TypesInv /\ [Next]_vars => TypesInv'
    <2> SUFFICES ASSUME TypesInv, [Next]_vars PROVE TypesInv'
      OBVIOUS
    <2>1. CASE SessionStep
      BY <2>1, SessionTypes
    <2>2. CASE ServerEnds
      BY <2>2, EndTypes
    <2>3. CASE UNCHANGED vars
      BY <2>3 DEF vars, TypesInv, TypeOK, UploadInv
    <2>4. QED
      BY <2>1, <2>2, <2>3 DEF Next, Exit, NullPointer
  <1>2. TypesInv => TypeOK
    BY DEF TypesInv
  <1>3. QED
    BY InitTypes, <1>1, <1>2, PTL DEF Spec

LEMMA EndCounts ==
  ASSUME IInv, ServerEnds
  PROVE  IInv'
  <1>1. TypeOK' /\ TablesOK' /\ \A s \in Session : UploadInv(my[s])'
    BY EndTypes DEF IInv, TypesInv, TypeOK, TablesOK
  <1>2. \A s \in Session : my'[s].cmd = "none"
    BY DEF ServerEnds, Idle
  <1>3. \A s \in Session : LocalInv(my[s], UserOf[s])'
    BY <1>2 DEF LocalInv, RmInv, OverInv, IntoInv, InsertedInv
  <1>4. ASSUME NEW m \in DOMAIN real'
        PROVE  real'[m] <= Cardinality(Credit(m)') + Cardinality(Ahead(m)') + leaked'[m]
    <2>1. m \in DOMAIN real /\ real' = real /\ m \in Md5 /\ real[m] \in Int /\ leaked[m] \in Nat
          /\ leaked'[m] = leaked[m] + Cardinality(Ahead(m))
      BY <1>4 DEF ServerEnds, IInv, TypeOK
    <2>2. Credit(m) \subseteq Credit(m)'
      BY <1>2 DEF Credit, Rows, Owing, OwesRow, ServerEnds
    <2>3. Cardinality(Credit(m)) <= Cardinality(Credit(m)')
      BY <1>1, <2>2, Finite, SizeKept DEF IInv
    <2>4. real[m] <= Cardinality(Credit(m)) + Cardinality(Ahead(m)) + leaked[m]
      BY <2>1 DEF IInv, AheadInv
    <2>5. /\ Cardinality(Credit(m)) \in Nat /\ Cardinality(Credit(m)') \in Nat
          /\ Cardinality(Ahead(m)) \in Nat /\ Cardinality(Ahead(m)') \in Nat
      BY <1>1, Finite DEF IInv
    <2>6. QED
      BY <2>1, <2>3, <2>4, <2>5
  <1>5. QED
    BY <1>1, <1>3, <1>4 DEF IInv, AheadInv

LEMMA SessionCounts ==
  ASSUME IInv, OneSessionEach, SessionStep
  PROVE  IInv'
  <1>1. PICK s \in Session : Step(s)
    BY DEF SessionStep
  <1>2. TypeOK' /\ leaked' = leaked
    BY SessionTypes DEF IInv, TypesInv, SessionStep
  <1>3. TablesOK' /\ OnlyOf(s)
    BY <1>1, StepTypes DEF IInv
  <1>4. Kept(s) /\ Bounded
    BY <1>1, <1>2, <1>3, RmKeeps, CountKeeps, CopyKeeps, TreeKeeps, UploadKeeps DEF Step
  <1>5. \A t \in Session : UploadInv(my[t])' /\ LocalInv(my[t], UserOf[t])'
    <2>1. ASSUME NEW t \in Session \ {s} PROVE UploadInv(my[t])' /\ LocalInv(my[t], UserOf[t])'
      BY <1>3, <1>4, OthersKeep DEF Kept
    <2>2. UploadInv(my[s])' /\ LocalInv(my[s], UserOf[s])'
      BY <1>4 DEF Kept
    <2>3. QED
      BY <2>1, <2>2
  <1>6. AheadInv'
    BY <1>3, <1>4 DEF Bounded, Covered, AheadInv, TablesOK
  <1>7. QED
    BY <1>2, <1>5, <1>6 DEF IInv

LEMMA InitCounts == Init => IInv
  <1> SUFFICES ASSUME Init PROVE IInv
    OBVIOUS
  <1>1. TypeOK /\ \A s \in Session : UploadInv(my[s])
    BY InitTypes DEF TypesInv
  <1>2. \A s \in Session : LocalInv(my[s], UserOf[s])
    BY DEF Init, Idle, LocalInv, RmInv, OverInv, IntoInv, InsertedInv
  <1>3. AheadInv
    BY DEF Init, AheadInv
  <1>4. QED
    BY <1>1, <1>2, <1>3 DEF IInv

\* What a command relies on between its statements: while no user has two
\* sessions, nothing that the others do takes away a row it works on or
\* changes the content it has read, and every count is covered.
THEOREM Invariance == OneSessionEach => (Spec => []IInv)
  <1> SUFFICES ASSUME \A s, t \in Session : UserOf[s] = UserOf[t] => s = t
      PROVE  Spec => []IInv
    BY DEF OneSessionEach
  <1>o. OneSessionEach
    BY DEF OneSessionEach
  <1>1. IInv /\ [Next]_vars => IInv'
    <2> SUFFICES ASSUME IInv, [Next]_vars PROVE IInv'
      OBVIOUS
    <2>1. CASE SessionStep
      BY <1>o, <2>1, SessionCounts
    <2>2. CASE ServerEnds
      BY <2>2, EndCounts
    <2>3. CASE UNCHANGED vars
      <3>1. /\ file' = file /\ next' = next /\ real' = real /\ whole' = whole /\ my' = my
            /\ exits' = exits /\ leaked' = leaked /\ spoiled' = spoiled /\ raced' = raced
        BY <2>3 DEF vars
      <3>2. TypeOK'
        BY <3>1 DEF IInv, TypeOK
      <3>3. \A s \in Session : UploadInv(my[s])' /\ LocalInv(my[s], UserOf[s])'
        BY <3>1 DEF IInv, UploadInv, LocalInv, RmInv, OverInv, IntoInv, InsertedInv, Has
      <3>4. \A m : Credit(m)' = Credit(m) /\ Ahead(m)' = Ahead(m)
        BY <3>1 DEF Credit, Owing, Rows, Ahead
      <3>5. AheadInv'
        BY <3>1, <3>4 DEF IInv, AheadInv
      <3>6. QED
        BY <3>2, <3>3, <3>5 DEF IInv
    <2>4. QED
      BY <2>1, <2>2, <2>3 DEF Next, Exit, NullPointer
  <1>2. QED
    BY InitCounts, <1>1, PTL DEF Spec

\* A count of file_real never exceeds the rows of its content, the copies into
\* a directory that have counted ahead, and what ends of the server leaked
\* there: however many sessions, users, contents and rows, and whenever the
\* server ends.
THEOREM CountsAreBounded == OneSessionEach => (Spec => []CountsBounded)
  <1>1. IInv => CountsBounded
    <2> SUFFICES ASSUME IInv, NEW m \in DOMAIN real
        PROVE  real[m] <= Cardinality(Rows(m)) + Cardinality(Ahead(m)) + leaked[m]
      BY DEF CountsBounded
    <2>1. IsFiniteSet(Rows(m))
      <3>1. IsFiniteSet(1..MaxId)
        BY FS_Interval, MaxIdAssumption
      <3>2. Rows(m) \in SUBSET (1..MaxId)
        BY MaxIdAssumption DEF IInv, TypeOK, Rows
      <3>3. QED
        BY <3>1, <3>2, FS_Subset
    <2>2. Cardinality(Credit(m)) <= Cardinality(Rows(m))
          /\ Cardinality(Credit(m)) \in Nat /\ Cardinality(Rows(m)) \in Nat
      BY <2>1, SizeKept DEF Credit
    <2>3. Cardinality(Ahead(m)) \in Nat
      <3>1. Ahead(m) \in SUBSET Session
        BY DEF Ahead
      <3>2. QED
        BY <3>1, SessionAssumption, FS_Subset, FS_CardinalityType
    <2>4. /\ real[m] \in Int /\ leaked[m] \in Nat
          /\ real[m] <= Cardinality(Credit(m)) + Cardinality(Ahead(m)) + leaked[m]
      BY DEF IInv, TypeOK, AheadInv
    <2>5. QED
      BY <2>2, <2>3, <2>4
  <1>2. QED
    BY Invariance, <1>1, PTL
=============================================================================
