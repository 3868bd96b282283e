--------------------------- MODULE NetDiskProofs ---------------------------
(***************************************************************************)
(* The commands keep the trees and the counts of the net disk: for every   *)
(* set of users, sessions, paths and contents and for any number of rows.  *)
(*                                                                         *)
(* First the loops: a loop of the code is a recursive function of the      *)
(* number of its steps, and Induct follows its steps.  Then what each      *)
(* function of FileTree does to a sound database, from the single row to   *)
(* cp; Served gathers it.  Last the steps of the sessions, the invariant   *)
(* IInv and the theorems.                                                  *)
(***************************************************************************)
EXTENDS NetDisk, FiniteSetTheorems, SequenceTheorems, WellFoundedInduction, TLAPS

-----------------------------------------------------------------------------
(* Loops.  Induction over their steps is that a set of natural numbers has *)
(* a least element.                                                        *)

\* A set of natural numbers has a least element.
LEMMA Least ==
  ASSUME NEW T \in SUBSET Nat, T # {}
  PROVE  \E x \in T : \A y \in T : x <= y
  <1> DEFINE R == OpToRel(<, Nat)
  <1>1. IsWellFoundedOn(R, Nat)
    BY NatLessThanWellFounded
  <1>2. \A x, y \in Nat : y < x => <<y, x>> \in R
    BY DEF OpToRel
  <1> HIDE DEF R
  <1>3. \E x \in T : \A y \in T : <<y, x>> \notin R
    BY <1>1, WFMin
  <1>4. PICK x \in T : \A y \in T : <<y, x>> \notin R
    BY <1>3
  <1>5. ASSUME NEW y \in T PROVE x <= y
    <2>1. x \in Nat /\ y \in Nat /\ <<y, x>> \notin R
      BY <1>4
    <2>2. ~(y < x)
      BY <2>1, <1>2
    <2>3. QED
      BY <2>1, <2>2
  <1>6. QED
    BY <1>5

\* The steps in K are all of them.
LEMMA Induct ==
  ASSUME NEW n \in Nat, NEW K, 0 \in K, \A k \in 1..n : k - 1 \in K => k \in K
  PROVE  \A k \in 0..n : k \in K
  <1> DEFINE T == {k \in 0..n : k \notin K}
  <1>1. SUFFICES ASSUME T # {} PROVE FALSE
    OBVIOUS
  <1>2. T \in SUBSET Nat
    OBVIOUS
  <1>3. PICK x \in T : \A y \in T : x <= y
    <2> HIDE DEF T
    <2> QED
      BY <1>1, <1>2, Least
  <1>4. x \in 1..n /\ x - 1 \in 0..n /\ x - 1 \notin T
    BY <1>3
  <1>5. QED
    BY <1>3, <1>4

\* The four loops are defined at every step; a result is what the last step yields.
IsPath(f, n, d, u, parts) ==
  f = [k \in 0..n |-> IF k = 0 THEN 0 ELSE getNextFileId(d, u, f[k - 1], parts[k])]

\* The loop of getFileId is defined at every step.
LEMMA PathLoop ==
  ASSUME NEW n \in Nat, NEW d, NEW u, NEW parts
  PROVE  \E f : IsPath(f, n, d, u, parts)
  <1> DEFINE K == {m \in 0..n : \E f : IsPath(f, m, d, u, parts)}
  <1>1. \E f : IsPath(f, 0, d, u, parts)
    <2> DEFINE g == [k \in 0..0 |-> 0]
    <2>1. g = [k \in 0..0 |-> IF k = 0 THEN 0 ELSE getNextFileId(d, u, g[k - 1], parts[k])]
      OBVIOUS
    <2> HIDE DEF g
    <2>2. QED
      BY <2>1 DEF IsPath
  <1>2. ASSUME NEW m \in 1..n, NEW g, IsPath(g, m - 1, d, u, parts)
        PROVE  \E f : IsPath(f, m, d, u, parts)
    <2> DEFINE h == [k \in 0..m |-> IF k = m THEN getNextFileId(d, u, g[m - 1], parts[m]) ELSE g[k]]
    <2>1. \A k \in 0..m : h[k] = IF k = 0 THEN 0 ELSE getNextFileId(d, u, h[k - 1], parts[k])
      BY <1>2 DEF IsPath
    <2>2. h = [k \in 0..m |-> IF k = 0 THEN 0 ELSE getNextFileId(d, u, h[k - 1], parts[k])]
      BY <2>1
    <2> HIDE DEF h
    <2>3. QED
      BY <2>2 DEF IsPath
  <1>3. 0 \in K /\ \A m \in 1..n : m - 1 \in K => m \in K
    BY <1>1, <1>2
  <1> HIDE DEF K
  <1>4. n \in K
    BY <1>3, Induct
  <1>5. QED
    BY <1>4 DEF K

PathOf(f, d, u, parts) ==
  /\ f[0] = 0
  /\ \A k \in 1..Len(parts) : f[k] = getNextFileId(d, u, f[k - 1], parts[k])
  /\ getFileId(d, u, parts) = f[Len(parts)]

\* getFileId is what the last component is looked up as.
LEMMA PathSteps ==
  ASSUME NEW d, NEW u, NEW parts \in Seq(STRING)
  PROVE  \E f : PathOf(f, d, u, parts)
  <1>1. Len(parts) \in Nat
    OBVIOUS
  <1>2. \E f : IsPath(f, Len(parts), d, u, parts)
    BY <1>1, PathLoop
  <1>3. PICK f : /\ f = [k \in 0..Len(parts) |-> IF k = 0 THEN 0 ELSE getNextFileId(d, u, f[k - 1], parts[k])]
                 /\ getFileId(d, u, parts) = f[Len(parts)]
    BY <1>2 DEF IsPath, getFileId
  <1>4. f[0] = 0 /\ \A k \in 1..Len(parts) : f[k] = getNextFileId(d, u, f[k - 1], parts[k])
    BY <1>1, <1>3
  <1>5. QED
    BY <1>3, <1>4 DEF PathOf

IsNormal(f, n, parts) ==
  f = [k \in 0..n |-> IF k = 0 THEN [k |-> 0, s |-> <<>>] ELSE Normalise(f[k - 1], parts[k])]

\* The loop of changeDir and mv over . and .. is defined at every step.
LEMMA NormalLoop ==
  ASSUME NEW n \in Nat, NEW parts
  PROVE  \E f : IsNormal(f, n, parts)
  <1> DEFINE K == {m \in 0..n : \E f : IsNormal(f, m, parts)}
  <1>1. \E f : IsNormal(f, 0, parts)
    <2> DEFINE g == [k \in 0..0 |-> [k |-> 0, s |-> <<>>]]
    <2>1. g = [k \in 0..0 |-> IF k = 0 THEN [k |-> 0, s |-> <<>>] ELSE Normalise(g[k - 1], parts[k])]
      OBVIOUS
    <2> HIDE DEF g
    <2>2. QED
      BY <2>1 DEF IsNormal
  <1>2. ASSUME NEW m \in 1..n, NEW g, IsNormal(g, m - 1, parts)
        PROVE  \E f : IsNormal(f, m, parts)
    <2> DEFINE h == [k \in 0..m |-> IF k = m THEN Normalise(g[m - 1], parts[m]) ELSE g[k]]
    <2>1. \A k \in 0..m : h[k] = IF k = 0 THEN [k |-> 0, s |-> <<>>] ELSE Normalise(h[k - 1], parts[k])
      BY <1>2 DEF IsNormal
    <2>2. h = [k \in 0..m |-> IF k = 0 THEN [k |-> 0, s |-> <<>>] ELSE Normalise(h[k - 1], parts[k])]
      BY <2>1
    <2> HIDE DEF h
    <2>3. QED
      BY <2>2 DEF IsNormal
  <1>3. 0 \in K /\ \A m \in 1..n : m - 1 \in K => m \in K
    BY <1>1, <1>2
  <1> HIDE DEF K
  <1>4. n \in K
    BY <1>3, Induct
  <1>5. QED
    BY <1>4 DEF K

NormalOf(f, parts) ==
  /\ f[0] = [k |-> 0, s |-> <<>>]
  /\ \A k \in 1..Len(parts) : f[k] = Normalise(f[k - 1], parts[k])
  /\ Normal(parts) = f[Len(parts)].s

\* Normal is what is left after the last component.
LEMMA NormalSteps ==
  ASSUME NEW parts \in Seq(STRING)
  PROVE  \E f : NormalOf(f, parts)
  <1>1. Len(parts) \in Nat
    OBVIOUS
  <1>2. \E f : IsNormal(f, Len(parts), parts)
    BY <1>1, NormalLoop
  <1>3. PICK f : /\ f = [k \in 0..Len(parts) |-> IF k = 0 THEN [k |-> 0, s |-> <<>>] ELSE Normalise(f[k - 1], parts[k])]
                 /\ Normal(parts) = f[Len(parts)].s
    BY <1>2 DEF IsNormal, Normal
  <1>4. f[0] = [k |-> 0, s |-> <<>>] /\ \A k \in 1..Len(parts) : f[k] = Normalise(f[k - 1], parts[k])
    BY <1>1, <1>3
  <1>5. QED
    BY <1>3, <1>4 DEF NormalOf

RmStart(d, u, id) ==
  [db |-> rmFileFunc(d, id), todo |-> Listed(getls_id(rmFileFunc(d, id), u, id), 0)]

IsRm(f, n, d, u, id) ==
  f = [k \in 0..n |-> IF k = 0 THEN RmStart(d, u, id) ELSE RmVisit(f[k - 1], u)]

\* The walk of rmDirFunc is defined at every step.
LEMMA RmLoop ==
  ASSUME NEW n \in Nat, NEW d, NEW u, NEW id
  PROVE  \E f : IsRm(f, n, d, u, id)
  <1> DEFINE K == {m \in 0..n : \E f : IsRm(f, m, d, u, id)}
  <1>1. \E f : IsRm(f, 0, d, u, id)
    <2> DEFINE g == [k \in 0..0 |-> RmStart(d, u, id)]
    <2>1. g = [k \in 0..0 |-> IF k = 0 THEN RmStart(d, u, id) ELSE RmVisit(g[k - 1], u)]
      OBVIOUS
    <2> HIDE DEF g
    <2>2. QED
      BY <2>1 DEF IsRm
  <1>2. ASSUME NEW m \in 1..n, NEW g, IsRm(g, m - 1, d, u, id)
        PROVE  \E f : IsRm(f, m, d, u, id)
    <2> DEFINE h == [k \in 0..m |-> IF k = m THEN RmVisit(g[m - 1], u) ELSE g[k]]
    <2>1. \A k \in 0..m : h[k] = IF k = 0 THEN RmStart(d, u, id) ELSE RmVisit(h[k - 1], u)
      BY <1>2 DEF IsRm
    <2>2. h = [k \in 0..m |-> IF k = 0 THEN RmStart(d, u, id) ELSE RmVisit(h[k - 1], u)]
      BY <2>1
    <2> HIDE DEF h
    <2>3. QED
      BY <2>2 DEF IsRm
  <1>3. 0 \in K /\ \A m \in 1..n : m - 1 \in K => m \in K
    BY <1>1, <1>2
  <1> HIDE DEF K
  <1>4. n \in K
    BY <1>3, Induct
  <1>5. QED
    BY <1>4 DEF K

RmOf(f, d, u, id) ==
  /\ f[0] = RmStart(d, u, id)
  /\ \A k \in 1..d.next : f[k] = RmVisit(f[k - 1], u)
  /\ rmDirFunc(d, u, id) = f[d.next].db

\* rmDirFunc is what the walk comes to.
LEMMA RmSteps ==
  ASSUME NEW d, d.next \in Nat, NEW u, NEW id
  PROVE  \E f : RmOf(f, d, u, id)
  <1>1. d.next \in Nat
    OBVIOUS
  <1>2. \E f : IsRm(f, d.next, d, u, id)
    BY <1>1, RmLoop
  <1>3. PICK f : /\ f = [k \in 0..d.next |-> IF k = 0 THEN RmStart(d, u, id) ELSE RmVisit(f[k - 1], u)]
                 /\ rmDirFunc(d, u, id) = f[d.next].db
    BY <1>2 DEF IsRm, RmStart, rmDirFunc
  <1>4. f[0] = RmStart(d, u, id) /\ \A k \in 1..d.next : f[k] = RmVisit(f[k - 1], u)
    BY <1>1, <1>3
  <1>5. QED
    BY <1>3, <1>4 DEF RmOf

CopyStart(d, srcid, id) == [db |-> d, todo |-> ListedFor(Children(d, srcid), 0, id)]

IsCopy(f, n, d, srcid, id, u, stray) ==
  f = [k \in 0..n |-> IF k = 0 THEN CopyStart(d, srcid, id) ELSE CopyVisit(f[k - 1], u, stray)]

\* The walk of digui is defined at every step.
LEMMA CopyLoop ==
  ASSUME NEW n \in Nat, NEW d, NEW srcid, NEW id, NEW u, NEW stray
  PROVE  \E f : IsCopy(f, n, d, srcid, id, u, stray)
  <1> DEFINE K == {m \in 0..n : \E f : IsCopy(f, m, d, srcid, id, u, stray)}
  <1>1. \E f : IsCopy(f, 0, d, srcid, id, u, stray)
    <2> DEFINE g == [k \in 0..0 |-> CopyStart(d, srcid, id)]
    <2>1. g = [k \in 0..0 |-> IF k = 0 THEN CopyStart(d, srcid, id) ELSE CopyVisit(g[k - 1], u, stray)]
      OBVIOUS
    <2> HIDE DEF g
    <2>2. QED
      BY <2>1 DEF IsCopy
  <1>2. ASSUME NEW m \in 1..n, NEW g, IsCopy(g, m - 1, d, srcid, id, u, stray)
        PROVE  \E f : IsCopy(f, m, d, srcid, id, u, stray)
    <2> DEFINE h == [k \in 0..m |-> IF k = m THEN CopyVisit(g[m - 1], u, stray) ELSE g[k]]
    <2>1. \A k \in 0..m : h[k] = IF k = 0 THEN CopyStart(d, srcid, id) ELSE CopyVisit(h[k - 1], u, stray)
      BY <1>2 DEF IsCopy
    <2>2. h = [k \in 0..m |-> IF k = 0 THEN CopyStart(d, srcid, id) ELSE CopyVisit(h[k - 1], u, stray)]
      BY <2>1
    <2> HIDE DEF h
    <2>3. QED
      BY <2>2 DEF IsCopy
  <1>3. 0 \in K /\ \A m \in 1..n : m - 1 \in K => m \in K
    BY <1>1, <1>2
  <1> HIDE DEF K
  <1>4. n \in K
    BY <1>3, Induct
  <1>5. QED
    BY <1>4 DEF K

CopyOf(f, d, srcid, id, u, stray) ==
  /\ f[0] = CopyStart(d, srcid, id)
  /\ \A k \in 1..id : f[k] = CopyVisit(f[k - 1], u, stray)
  /\ CopyBelow(d, srcid, id, u, stray) = f[id].db

\* What digui copies below the new row is what the walk comes to.
LEMMA CopySteps ==
  ASSUME NEW d, NEW srcid, NEW id \in Nat, NEW u, NEW stray
  PROVE  \E f : CopyOf(f, d, srcid, id, u, stray)
  <1>1. id \in Nat
    OBVIOUS
  <1>2. \E f : IsCopy(f, id, d, srcid, id, u, stray)
    BY <1>1, CopyLoop
  <1>3. PICK f : /\ f = [k \in 0..id |-> IF k = 0 THEN CopyStart(d, srcid, id) ELSE CopyVisit(f[k - 1], u, stray)]
                 /\ CopyBelow(d, srcid, id, u, stray) = f[id].db
    BY <1>2 DEF IsCopy, CopyStart, CopyBelow
  <1>4. f[0] = CopyStart(d, srcid, id) /\ \A k \in 1..id : f[k] = CopyVisit(f[k - 1], u, stray)
    BY <1>1, <1>3
  <1>5. QED
    BY <1>3, <1>4 DEF CopyOf

-----------------------------------------------------------------------------
(* Databases.  A father is none, the root, or a row of the same user, or   *)
(* an id that is not used again: ids only grow.                            *)

Rows == [father_id : Int, file_name : STRING, file_md5 : Md5 \union {"0"}, type : {"d", "f"},
         user_id : User]

\* A row of user u that may stand in the table.
Fits(d, row, u) ==
  /\ row \in Rows /\ row.user_id = u
  /\ IF row.type = "f" THEN row.file_md5 \in Md5 ELSE row.file_md5 = "0"
  /\ row.father_id \in -1..(d.next - 1)
  /\ Exists(d, row.father_id) => d.file[row.father_id].user_id = u

Sound(d) ==
  /\ d = [file |-> d.file, real |-> d.real, next |-> d.next, up |-> d.up]
  /\ d.next \in Nat \ {0} /\ d.up \in BOOLEAN
  /\ d.file = [i \in DOMAIN d.file |-> d.file[i]]
  /\ DOMAIN d.file \subseteq 1..(d.next - 1)
  /\ \A i \in DOMAIN d.file : Fits(d, d.file[i], d.file[i].user_id)
  /\ d.real = [m \in DOMAIN d.real |-> d.real[m]]
  /\ DOMAIN d.real \subseteq Md5 /\ \A m \in DOMAIN d.real : d.real[m] \in Int

\* What a command of user u does to the rows.
Kept(u, d, e) ==
  /\ Sound(e) /\ d.next <= e.next
  /\ \A i \in DOMAIN e.file : i \notin DOMAIN d.file => i >= d.next /\ e.file[i].user_id = u
  /\ \A i \in DOMAIN d.file : i \notin DOMAIN e.file => d.file[i].user_id = u
  /\ \A i \in DOMAIN d.file \intersect DOMAIN e.file :
       e.file[i] = d.file[i] \/ (d.file[i].user_id = u /\ e.file[i].user_id = u)

LEMMA KeptSame == ASSUME NEW u, NEW d, Sound(d) PROVE Kept(u, d, d)
  BY DEF Kept, Sound

\* Two changes of the rows of u are one.
LEMMA KeptThen ==
  ASSUME NEW u, NEW d, NEW e, NEW f, Sound(d), Kept(u, d, e), Kept(u, e, f)
  PROVE  Kept(u, d, f)
  <1>1. /\ d.next \in Nat /\ e.next \in Nat /\ f.next \in Nat
        /\ DOMAIN d.file \subseteq 1..(d.next - 1) /\ DOMAIN e.file \subseteq 1..(e.next - 1)
        /\ DOMAIN f.file \subseteq 1..(f.next - 1) /\ d.next <= e.next /\ e.next <= f.next
    BY DEF Kept, Sound
  <1>2. ASSUME NEW i \in DOMAIN f.file, i \notin DOMAIN d.file
        PROVE  i >= d.next /\ f.file[i].user_id = u
    <2>1. CASE i \in DOMAIN e.file
      BY <1>2, <2>1 DEF Kept
    <2>2. CASE i \notin DOMAIN e.file
      <3>1. i >= e.next /\ f.file[i].user_id = u
        BY <2>2 DEF Kept
      <3>2. QED
        BY <1>1, <3>1
    <2>3. QED
      BY <2>1, <2>2
  <1>3. ASSUME NEW i \in DOMAIN d.file, i \notin DOMAIN f.file PROVE d.file[i].user_id = u
    BY <1>3 DEF Kept
  <1>4. ASSUME NEW i \in DOMAIN d.file \intersect DOMAIN f.file
        PROVE  f.file[i] = d.file[i] \/ (d.file[i].user_id = u /\ f.file[i].user_id = u)
    <2>1. i \in DOMAIN e.file
      BY <1>1, <1>4 DEF Kept
    <2>2. QED
      BY <2>1 DEF Kept
  <1>5. Sound(f) /\ d.next <= f.next
    BY <1>1 DEF Kept
  <1>6. QED
    BY <1>2, <1>3, <1>4, <1>5 DEF Kept

\* The fields of what the statements leave.
LEMMA InsertFields ==
  ASSUME NEW d, Sound(d), NEW row
  PROVE  Insert(d, row) =
           [file |-> [i \in DOMAIN d.file \union {d.next} |-> IF i = d.next THEN row ELSE d.file[i]],
            real |-> d.real, next |-> d.next + 1, up |-> d.up]
  <1>1. d = [file |-> d.file, real |-> d.real, next |-> d.next, up |-> d.up]
    BY DEF Sound
  <1>2. ASSUME NEW f, NEW n
        PROVE  [d EXCEPT !.file = f, !.next = n] = [file |-> f, real |-> d.real, next |-> n, up |-> d.up]
    <2>1. [d EXCEPT !.file = f, !.next = n] = [[d EXCEPT !.file = f] EXCEPT !.next = n]
      BY <1>1
    <2>2. [d EXCEPT !.file = f] = [file |-> f, real |-> d.real, next |-> d.next, up |-> d.up]
      BY <1>1
    <2>3. ASSUME NEW e, e = [file |-> f, real |-> d.real, next |-> d.next, up |-> d.up]
          PROVE  [e EXCEPT !.next = n] = [file |-> f, real |-> d.real, next |-> n, up |-> d.up]
      BY <2>3
    <2>4. QED
      BY <2>1, <2>2, <2>3
  <1>3. QED
    BY <1>2 DEF Insert

\* The tables after each kind of statement, field by field.
LEMMA DeleteFields ==
  ASSUME NEW d, Sound(d), NEW id
  PROVE  Delete(d, id) = [file |-> [i \in DOMAIN d.file \ {id} |-> d.file[i]],
                          real |-> d.real, next |-> d.next, up |-> d.up]
  <1>1. d = [file |-> d.file, real |-> d.real, next |-> d.next, up |-> d.up]
    BY DEF Sound
  <1>2. QED
    BY <1>1 DEF Delete

LEMMA ChangeFields ==
  ASSUME NEW d, Sound(d), NEW id \in DOMAIN d.file, NEW row
  PROVE  [d EXCEPT !.file[id] = row] =
           [file |-> [i \in DOMAIN d.file |-> IF i = id THEN row ELSE d.file[i]],
            real |-> d.real, next |-> d.next, up |-> d.up]
  <1>1. /\ d = [file |-> d.file, real |-> d.real, next |-> d.next, up |-> d.up]
        /\ d.file = [i \in DOMAIN d.file |-> d.file[i]]
    BY DEF Sound
  <1>2. [d.file EXCEPT ![id] = row] = [i \in DOMAIN d.file |-> IF i = id THEN row ELSE d.file[i]]
    BY <1>1
  <1>3. [d EXCEPT !.file[id] = row] = [d EXCEPT !.file = [d.file EXCEPT ![id] = row]]
    BY <1>1
  <1>4. QED
    BY <1>1, <1>2, <1>3

LEMMA CrashFields ==
  ASSUME NEW d, Sound(d)
  PROVE  Crash(d) = [file |-> d.file, real |-> d.real, next |-> d.next, up |-> FALSE]
  <1>1. d = [file |-> d.file, real |-> d.real, next |-> d.next, up |-> d.up]
    BY DEF Sound
  <1>2. ASSUME NEW b
        PROVE  [d EXCEPT !.up = b] = [file |-> d.file, real |-> d.real, next |-> d.next, up |-> b]
    BY <1>1
  <1>3. QED
    BY <1>2 DEF Crash

\* An insert of a fitting row keeps the database sound.
LEMMA InsertKept ==
  ASSUME NEW d, Sound(d), NEW u, NEW row, Fits(d, row, u)
  PROVE  Kept(u, d, Insert(d, row))
  <1> DEFINE e == Insert(d, row)
  <1>a. e = [file |-> [i \in DOMAIN d.file \union {d.next} |-> IF i = d.next THEN row ELSE d.file[i]],
             real |-> d.real, next |-> d.next + 1, up |-> d.up]
    BY InsertFields
  <1> HIDE DEF e
  <1>1. /\ e = [file |-> e.file, real |-> e.real, next |-> e.next, up |-> e.up]
        /\ e.file = [i \in DOMAIN d.file \union {d.next} |-> IF i = d.next THEN row ELSE d.file[i]]
        /\ e.real = d.real /\ e.next = d.next + 1 /\ e.up = d.up
    BY <1>a
  <1>2. d.next \in Nat \ {0} /\ DOMAIN d.file \subseteq 1..(d.next - 1) /\ d.next \notin DOMAIN d.file
    BY DEF Sound
  <1>3. DOMAIN e.file = DOMAIN d.file \union {d.next} /\ DOMAIN e.file \subseteq 1..(e.next - 1)
    BY <1>1, <1>2
  <1>4. e.file[d.next] = row /\ \A i \in DOMAIN d.file : e.file[i] = d.file[i]
    BY <1>1, <1>2
  <1>5. \A i \in DOMAIN e.file : Fits(e, e.file[i], e.file[i].user_id)
    <2>1. ASSUME NEW r, NEW v, Fits(d, r, v) PROVE Fits(e, r, v)
      <3>1. r.father_id \in -1..(d.next - 1)
        BY <2>1 DEF Fits
      <3>2. Exists(e, r.father_id) => Exists(d, r.father_id) /\ e.file[r.father_id] = d.file[r.father_id]
        BY <1>2, <1>3, <1>4, <3>1 DEF Exists
      <3>3. QED
        BY <1>1, <1>2, <2>1, <3>1, <3>2 DEF Fits
    <2>2. \A i \in DOMAIN d.file : Fits(d, d.file[i], d.file[i].user_id)
      BY DEF Sound
    <2>3. row.user_id = u
      BY DEF Fits
    <2>4. QED
      BY <1>3, <1>4, <2>1, <2>2, <2>3
  <1>6. Sound(e)
    <2>1. e.file = [i \in DOMAIN e.file |-> e.file[i]]
      BY <1>1
    <2>2. e.next \in Nat \ {0} /\ e.up \in BOOLEAN
      BY <1>1, <1>2 DEF Sound
    <2>3. e.real = [m \in DOMAIN e.real |-> e.real[m]] /\ DOMAIN e.real \subseteq Md5
          /\ \A m \in DOMAIN e.real : e.real[m] \in Int
      BY <1>1 DEF Sound
    <2>4. QED
      BY <1>1, <1>3, <1>5, <2>1, <2>2, <2>3 DEF Sound
  <1>7. row.user_id = u /\ d.next <= e.next
    BY <1>1, <1>2 DEF Fits
  <1>8. Kept(u, d, e)
    BY <1>2, <1>3, <1>4, <1>6, <1>7 DEF Kept
  <1>9. QED
    BY <1>8 DEF e

\* A delete of a row of u does: no row gets another father.
LEMMA DeleteKept ==
  ASSUME NEW d, Sound(d), NEW u, NEW id, Exists(d, id) => d.file[id].user_id = u
  PROVE  Kept(u, d, Delete(d, id))
  <1> DEFINE e == Delete(d, id)
  <1>1. /\ e = [file |-> e.file, real |-> e.real, next |-> e.next, up |-> e.up]
        /\ e.file = [i \in DOMAIN d.file \ {id} |-> d.file[i]]
        /\ e.real = d.real /\ e.next = d.next /\ e.up = d.up
    BY DeleteFields
  <1> HIDE DEF e
  <1>2. DOMAIN e.file = DOMAIN d.file \ {id} /\ \A i \in DOMAIN e.file : e.file[i] = d.file[i]
    BY <1>1
  <1>3. \A i \in DOMAIN e.file : Fits(e, e.file[i], e.file[i].user_id)
    <2>1. \A i \in DOMAIN e.file : Fits(d, e.file[i], e.file[i].user_id)
      BY <1>2 DEF Sound
    <2>2. QED
      BY <1>1, <1>2, <2>1 DEF Fits, Exists
  <1>4. Sound(e)
    <2>1. e.file = [i \in DOMAIN e.file |-> e.file[i]] /\ DOMAIN e.file \subseteq 1..(e.next - 1)
      BY <1>1, <1>2 DEF Sound
    <2>2. QED
      BY <1>1, <1>3, <2>1 DEF Sound
  <1>5. d.next <= e.next
    BY <1>1 DEF Sound
  <1>6. Kept(u, d, e)
    BY <1>2, <1>4, <1>5 DEF Kept, Exists
  <1>7. QED
    BY <1>6 DEF e

\* An update of a row of u to another one that fits does.
LEMMA ChangeKept ==
  ASSUME NEW d, Sound(d), NEW u, NEW id \in DOMAIN d.file, d.file[id].user_id = u,
         NEW row, Fits(d, row, u)
  PROVE  Kept(u, d, [d EXCEPT !.file[id] = row])
  <1> DEFINE e == [d EXCEPT !.file[id] = row]
  <1>1. /\ e = [file |-> e.file, real |-> e.real, next |-> e.next, up |-> e.up]
        /\ e.file = [i \in DOMAIN d.file |-> IF i = id THEN row ELSE d.file[i]]
        /\ e.real = d.real /\ e.next = d.next /\ e.up = d.up
    BY ChangeFields
  <1> HIDE DEF e
  <1>2. DOMAIN e.file = DOMAIN d.file /\ e.file[id] = row /\ \A i \in DOMAIN e.file \ {id} : e.file[i] = d.file[i]
    BY <1>1
  <1>3. row.user_id = u
    BY DEF Fits
  <1>4. \A i \in DOMAIN e.file : e.file[i].user_id = d.file[i].user_id
    BY <1>2, <1>3
  <1>5. \A i \in DOMAIN e.file : Fits(e, e.file[i], e.file[i].user_id)
    <2>1. \A i \in DOMAIN e.file : Fits(d, e.file[i], e.file[i].user_id)
      BY <1>2, <1>3 DEF Sound
    <2>2. QED
      BY <1>1, <1>2, <1>4, <2>1 DEF Fits, Exists
  <1>6. Sound(e)
    <2>1. e.file = [i \in DOMAIN e.file |-> e.file[i]] /\ DOMAIN e.file \subseteq 1..(e.next - 1)
      BY <1>1, <1>2 DEF Sound
    <2>2. QED
      BY <1>1, <1>5, <2>1 DEF Sound
  <1>7. d.next <= e.next
    BY <1>1 DEF Sound
  <1>8. Kept(u, d, e)
    BY <1>2, <1>3, <1>6, <1>7 DEF Kept
  <1>9. QED
    BY <1>8 DEF e

\* Nothing but counts is changed.
LEMMA RealKept ==
  ASSUME NEW d, Sound(d), NEW u, NEW e,
         e = [file |-> d.file, real |-> e.real, next |-> d.next, up |-> e.up], e.up \in BOOLEAN,
         e.real = [m \in DOMAIN e.real |-> e.real[m]], DOMAIN e.real \subseteq Md5,
         \A m \in DOMAIN e.real : e.real[m] \in Int
  PROVE  Kept(u, d, e)
  <1>1. e.file = d.file /\ e.next = d.next
    OBVIOUS
  <1>2. \A i \in DOMAIN e.file : Fits(e, e.file[i], e.file[i].user_id)
    BY <1>1 DEF Sound, Fits, Exists
  <1>3. Sound(e)
    BY <1>1, <1>2 DEF Sound
  <1>4. QED
    BY <1>1, <1>3 DEF Kept, Sound

\* The end of the server changes no table.
LEMMA CrashKept ==
  ASSUME NEW d, Sound(d), NEW u
  PROVE  Kept(u, d, Crash(d)) /\ ~Crash(d).up
  <1> DEFINE e == Crash(d)
  <1>1. e = [file |-> d.file, real |-> d.real, next |-> d.next, up |-> FALSE]
    BY CrashFields
  <1> HIDE DEF e
  <1>2. e.real = d.real /\ e.up = FALSE /\ e = [file |-> d.file, real |-> e.real, next |-> d.next, up |-> e.up]
    BY <1>1
  <1>3. /\ e.real = [m \in DOMAIN e.real |-> e.real[m]] /\ DOMAIN e.real \subseteq Md5
        /\ \A m \in DOMAIN e.real : e.real[m] \in Int
    BY <1>2 DEF Sound
  <1>4. Kept(u, d, e)
    BY <1>2, <1>3, RealKept
  <1>5. QED
    BY <1>2, <1>4 DEF e

-----------------------------------------------------------------------------
(* Counts.                                                                 *)

Count(d, m) == IF m \in DOMAIN d.real THEN d.real[m] ELSE 0

Within(d) == \A m \in DOMAIN d.real : d.real[m] \in 1..Cardinality(Files(d, m))
Exact(d) == \A m \in Md5 : Cardinality(Files(d, m)) = Count(d, m)

\* The counts are after e what they were before.
Tallied(d, e) == (Within(d) => Within(e)) /\ (Exact(d) => Exact(e))

\* addcountfrommad5 adds one to a count that is there.
LEMMA AddFields ==
  ASSUME NEW d, Sound(d), NEW m
  PROVE  addcountfrommad5(d, m) =
           [file |-> d.file, real |-> [c \in DOMAIN d.real |-> IF c = m THEN d.real[c] + 1 ELSE d.real[c]],
            next |-> d.next, up |-> d.up]
  <1>1. /\ d = [file |-> d.file, real |-> d.real, next |-> d.next, up |-> d.up]
        /\ d.real = [c \in DOMAIN d.real |-> d.real[c]]
    BY DEF Sound
  <1> DEFINE R == [c \in DOMAIN d.real |-> IF c = m THEN d.real[c] + 1 ELSE d.real[c]]
  <1>2. CASE m \in DOMAIN d.real
    <2>1. [d.real EXCEPT ![m] = d.real[m] + 1] = R
      BY <1>1
    <2>2. ASSUME NEW r
          PROVE  [d EXCEPT !.real = r] = [file |-> d.file, real |-> r, next |-> d.next, up |-> d.up]
      BY <1>1
    <2>3. addcountfrommad5(d, m) = [d EXCEPT !.real = [d.real EXCEPT ![m] = d.real[m] + 1]]
      BY <1>1, <1>2 DEF addcountfrommad5
    <2> HIDE DEF R
    <2>4. addcountfrommad5(d, m) = [file |-> d.file, real |-> R, next |-> d.next, up |-> d.up]
      BY <2>1, <2>2, <2>3
    <2>5. QED
      BY <2>4 DEF R
  <1>3. CASE m \notin DOMAIN d.real
    <2>1. d.real = R
      BY <1>1, <1>3
    <2>2. addcountfrommad5(d, m) = d
      BY <1>3 DEF addcountfrommad5
    <2> HIDE DEF R
    <2>3. addcountfrommad5(d, m) = [file |-> d.file, real |-> R, next |-> d.next, up |-> d.up]
      BY <1>1, <2>1, <2>2
    <2>4. QED
      BY <2>3 DEF R
  <1>4. QED
    BY <1>2, <1>3

\* Release lowers a count above 1 and removes the count 1.
LEMMA ReleaseFields ==
  ASSUME NEW d, Sound(d), NEW m \in DOMAIN d.real
  PROVE  Release(d, m) =
           [file |-> d.file,
            real |-> [c \in DOMAIN d.real \ (IF d.real[m] = 1 THEN {m} ELSE {}) |->
                        IF c = m THEN d.real[c] - 1 ELSE d.real[c]],
            next |-> d.next, up |-> d.up]
  <1>1. /\ d = [file |-> d.file, real |-> d.real, next |-> d.next, up |-> d.up]
        /\ d.real = [c \in DOMAIN d.real |-> d.real[c]]
    BY DEF Sound
  <1> DEFINE R == [c \in DOMAIN d.real \ (IF d.real[m] = 1 THEN {m} ELSE {}) |->
                     IF c = m THEN d.real[c] - 1 ELSE d.real[c]]
  <1>2. ASSUME NEW r
        PROVE  [d EXCEPT !.real = r] = [file |-> d.file, real |-> r, next |-> d.next, up |-> d.up]
    BY <1>1
  <1>3. CASE d.real[m] = 1
    <2>1. [c \in DOMAIN d.real \ {m} |-> d.real[c]] = R
      BY <1>3
    <2>2. Release(d, m) = [d EXCEPT !.real = [c \in DOMAIN d.real \ {m} |-> d.real[c]]]
      BY <1>1, <1>3 DEF Release
    <2> HIDE DEF R
    <2>3. Release(d, m) = [file |-> d.file, real |-> R, next |-> d.next, up |-> d.up]
      BY <1>2, <2>1, <2>2
    <2>4. QED
      BY <2>3 DEF R
  <1>4. CASE d.real[m] # 1
    <2>1. [d.real EXCEPT ![m] = d.real[m] - 1] = R
      BY <1>1, <1>4
    <2>2. Release(d, m) = [d EXCEPT !.real = [d.real EXCEPT ![m] = d.real[m] - 1]]
      BY <1>1, <1>4 DEF Release
    <2> HIDE DEF R
    <2>3. Release(d, m) = [file |-> d.file, real |-> R, next |-> d.next, up |-> d.up]
      BY <1>2, <2>1, <2>2
    <2>4. QED
      BY <2>3 DEF R
  <1>5. QED
    BY <1>3, <1>4

\* A content has finitely many rows.
LEMMA FilesFinite ==
  ASSUME NEW d, Sound(d), NEW m
  PROVE  IsFiniteSet(Files(d, m)) /\ Cardinality(Files(d, m)) \in Nat
  <1>1. Files(d, m) \in SUBSET (1..(d.next - 1)) /\ d.next - 1 \in Int
    BY DEF Files, Sound
  <1>2. IsFiniteSet(1..(d.next - 1))
    BY <1>1, FS_Interval
  <1>3. IsFiniteSet(Files(d, m))
    BY <1>1, <1>2, FS_Subset
  <1>4. QED
    BY <1>3, FS_CardinalityType

\* The file rows of m after one row has come, gone or changed.
LEMMA FilesInsert ==
  ASSUME NEW d, Sound(d), NEW row, NEW m
  PROVE  IF row.type = "f" /\ row.file_md5 = m
         THEN Cardinality(Files(Insert(d, row), m)) = Cardinality(Files(d, m)) + 1
         ELSE Files(Insert(d, row), m) = Files(d, m)
  <1> DEFINE e == Insert(d, row)
  <1>1. e = [file |-> [i \in DOMAIN d.file \union {d.next} |-> IF i = d.next THEN row ELSE d.file[i]],
             real |-> d.real, next |-> d.next + 1, up |-> d.up]
    BY InsertFields
  <1> HIDE DEF e
  <1>2. d.next \notin DOMAIN d.file
    BY DEF Sound
  <1>3. /\ DOMAIN e.file = DOMAIN d.file \union {d.next} /\ e.file[d.next] = row
        /\ \A i \in DOMAIN d.file : e.file[i] = d.file[i]
    BY <1>1, <1>2
  <1>4. CASE row.type = "f" /\ row.file_md5 = m
    <2>1. Files(e, m) = Files(d, m) \union {d.next} /\ d.next \notin Files(d, m)
      BY <1>2, <1>3, <1>4 DEF Files
    <2>2. QED
      BY <1>4, <2>1, FilesFinite, FS_AddElement DEF e
  <1>5. CASE ~(row.type = "f" /\ row.file_md5 = m)
    <2>1. Files(e, m) = Files(d, m)
      BY <1>2, <1>3, <1>5 DEF Files
    <2>2. QED
      BY <1>5, <2>1 DEF e
  <1>6. QED
    BY <1>4, <1>5

\* A deleted file is one row less of its content.
LEMMA FilesDelete ==
  ASSUME NEW d, Sound(d), NEW id \in DOMAIN d.file, NEW m
  PROVE  IF d.file[id].type = "f" /\ d.file[id].file_md5 = m
         THEN Cardinality(Files(Delete(d, id), m)) = Cardinality(Files(d, m)) - 1
         ELSE Files(Delete(d, id), m) = Files(d, m)
  <1> DEFINE e == Delete(d, id)
  <1>1. e = [file |-> [i \in DOMAIN d.file \ {id} |-> d.file[i]],
             real |-> d.real, next |-> d.next, up |-> d.up]
    BY DeleteFields
  <1> HIDE DEF e
  <1>2. DOMAIN e.file = DOMAIN d.file \ {id} /\ \A i \in DOMAIN e.file : e.file[i] = d.file[i]
    BY <1>1
  <1>3. CASE d.file[id].type = "f" /\ d.file[id].file_md5 = m
    <2>1. Files(e, m) = Files(d, m) \ {id} /\ id \in Files(d, m)
      BY <1>2, <1>3 DEF Files
    <2>2. QED
      BY <1>3, <2>1, FilesFinite, FS_RemoveElement DEF e
  <1>4. CASE ~(d.file[id].type = "f" /\ d.file[id].file_md5 = m)
    <2>1. Files(e, m) = Files(d, m)
      BY <1>2, <1>4 DEF Files
    <2>2. QED
      BY <1>4, <2>1 DEF e
  <1>5. QED
    BY <1>3, <1>4

\* A file row gets another content, or the same.
LEMMA FilesChange ==
  ASSUME NEW d, Sound(d), NEW id \in DOMAIN d.file, d.file[id].type = "f",
         NEW e, Sound(e), DOMAIN e.file = DOMAIN d.file, e.file[id].type = "f",
         \A i \in DOMAIN d.file \ {id} : e.file[i] = d.file[i],
         NEW m
  PROVE  /\ d.file[id].file_md5 = e.file[id].file_md5 => Files(e, m) = Files(d, m)
         /\ m \notin {d.file[id].file_md5, e.file[id].file_md5} => Files(e, m) = Files(d, m)
         /\ d.file[id].file_md5 # e.file[id].file_md5 =>
              /\ m = d.file[id].file_md5 =>
                   Cardinality(Files(e, m)) = Cardinality(Files(d, m)) - 1
              /\ m = e.file[id].file_md5 =>
                   Cardinality(Files(e, m)) = Cardinality(Files(d, m)) + 1
  <1>1. d.file[id].file_md5 = e.file[id].file_md5 => Files(e, m) = Files(d, m)
    BY DEF Files
  <1>2. m \notin {d.file[id].file_md5, e.file[id].file_md5} => Files(e, m) = Files(d, m)
    BY DEF Files
  <1>3. ASSUME d.file[id].file_md5 # e.file[id].file_md5, m = d.file[id].file_md5
        PROVE  Cardinality(Files(e, m)) = Cardinality(Files(d, m)) - 1
    <2>1. Files(e, m) = Files(d, m) \ {id} /\ id \in Files(d, m)
      BY <1>3 DEF Files
    <2>2. QED
      BY <2>1, FilesFinite, FS_RemoveElement
  <1>4. ASSUME d.file[id].file_md5 # e.file[id].file_md5, m = e.file[id].file_md5
        PROVE  Cardinality(Files(e, m)) = Cardinality(Files(d, m)) + 1
    <2>1. Files(e, m) = Files(d, m) \union {id} /\ id \notin Files(d, m)
      BY <1>4 DEF Files
    <2>2. QED
      BY <2>1, FilesFinite, FS_AddElement
  <1>5. QED
    BY <1>1, <1>2, <1>3, <1>4

\* Two changes that keep the counts are one.
LEMMA TalliedThen ==
  ASSUME NEW d, NEW e, NEW f, Tallied(d, e), Tallied(e, f) PROVE Tallied(d, f)
  BY DEF Tallied

\* Neither the contents of files nor the counts are touched.
LEMMA TalliedSame ==
  ASSUME NEW d, NEW e, e.real = d.real, \A m : Files(e, m) = Files(d, m)
  PROVE  Tallied(d, e)
  BY DEF Tallied, Within, Exact, Count

\* A content with a file row is counted, if the counts are exact.
LEMMA HasCount ==
  ASSUME NEW d, Sound(d), Exact(d), NEW i \in DOMAIN d.file, d.file[i].type = "f"
  PROVE  d.file[i].file_md5 \in DOMAIN d.real /\ d.real[d.file[i].file_md5] > 0
  <1> DEFINE m == d.file[i].file_md5
  <1>1. m \in Md5 /\ i \in Files(d, m)
    BY DEF Sound, Fits, Files
  <1>2. Cardinality(Files(d, m)) \in Nat /\ Cardinality(Files(d, m)) # 0
    BY <1>1, FilesFinite, FS_EmptySet
  <1>3. Cardinality(Files(d, m)) = Count(d, m)
    BY <1>1 DEF Exact
  <1>4. QED
    BY <1>2, <1>3 DEF Count

\* A new file row, counted.
LEMMA InsertCounted ==
  ASSUME NEW d, Sound(d), NEW u, NEW row, Fits(d, row, u), row.type = "f",
         \/ row.file_md5 \in DOMAIN d.real
         \/ \E i \in DOMAIN d.file : d.file[i].type = "f" /\ d.file[i].file_md5 = row.file_md5
  PROVE  LET e == addcountfrommad5(Insert(d, row), row.file_md5)
         IN Kept(u, d, e) /\ Tallied(d, e) /\ e.up = d.up /\ e.next = d.next + 1
  <1> DEFINE b == Insert(d, row)
             e == addcountfrommad5(b, row.file_md5)
             m == row.file_md5
  <1>1. Kept(u, d, b) /\ Sound(b)
    BY InsertKept DEF Kept
  <1>a. b = [file |-> [i \in DOMAIN d.file \union {d.next} |-> IF i = d.next THEN row ELSE d.file[i]],
             real |-> d.real, next |-> d.next + 1, up |-> d.up]
    BY InsertFields
  <1>3. \A c : IF c = m THEN Cardinality(Files(b, c)) = Cardinality(Files(d, c)) + 1
                        ELSE Files(b, c) = Files(d, c)
    BY FilesInsert
  <1> HIDE DEF b
  <1>2. b.real = d.real /\ b.up = d.up /\ b.next = d.next + 1
    BY <1>a
  <1>4. e = [file |-> b.file, real |-> [c \in DOMAIN b.real |-> IF c = m THEN b.real[c] + 1 ELSE b.real[c]],
             next |-> b.next, up |-> b.up]
    BY <1>1, AddFields
  <1> HIDE DEF e
  <1>5. /\ e = [file |-> b.file, real |-> e.real, next |-> b.next, up |-> e.up]
        /\ e.real = [c \in DOMAIN d.real |-> IF c = m THEN d.real[c] + 1 ELSE d.real[c]]
        /\ e.file = b.file /\ e.next = d.next + 1 /\ e.up = d.up
    BY <1>2, <1>4
  <1>6. \A c \in DOMAIN d.real : d.real[c] \in Int
    BY DEF Sound
  <1>7. Kept(u, b, e)
    <2>1. e.up \in BOOLEAN /\ DOMAIN e.real \subseteq Md5
      BY <1>5 DEF Sound
    <2>2. e.real = [c \in DOMAIN e.real |-> e.real[c]] /\ \A c \in DOMAIN e.real : e.real[c] \in Int
      BY <1>5, <1>6
    <2>3. QED
      BY <1>1, <1>5, <2>1, <2>2, RealKept
  <1>8. Kept(u, d, e)
    BY <1>1, <1>7, KeptThen
  <1>9. \A c : Files(e, c) = Files(b, c)
    BY <1>5 DEF Files
  <1>10. \A c : Cardinality(Files(d, c)) \in Nat
    BY FilesFinite
  <1>11. ASSUME Within(d) PROVE Within(e)
    <2>1. ASSUME NEW c \in DOMAIN e.real PROVE e.real[c] \in 1..Cardinality(Files(e, c))
      <3>1. c \in DOMAIN d.real /\ d.real[c] \in 1..Cardinality(Files(d, c))
        BY <1>5, <1>11, <2>1 DEF Within
      <3>2. CASE c = m
        <4>1. e.real[c] = d.real[c] + 1 /\ Cardinality(Files(e, c)) = Cardinality(Files(d, c)) + 1
          BY <1>3, <1>5, <1>9, <3>1, <3>2
        <4>2. QED
          BY <1>10, <3>1, <4>1
      <3>3. CASE c # m
        BY <1>3, <1>5, <1>9, <3>1, <3>3
      <3>4. QED
        BY <3>2, <3>3
    <2>2. QED
      BY <2>1 DEF Within
  <1>12. ASSUME Exact(d) PROVE Exact(e)
    <2>1. m \in DOMAIN d.real
      BY <1>12, HasCount
    <2>2. ASSUME NEW c \in Md5 PROVE Cardinality(Files(e, c)) = Count(e, c)
      <3>1. Cardinality(Files(d, c)) = Count(d, c)
        BY <1>12 DEF Exact
      <3>2. CASE c = m
        BY <1>3, <1>5, <1>9, <1>10, <2>1, <3>1, <3>2 DEF Count
      <3>3. CASE c # m
        BY <1>3, <1>5, <1>9, <3>1, <3>3 DEF Count
      <3>4. QED
        BY <3>2, <3>3
    <2>3. QED
      BY <2>2 DEF Exact
  <1>13. QED
    BY <1>5, <1>8, <1>11, <1>12 DEF Tallied, b, e

\* One reference of m less, and one more.
CountedDown(d, e, m) ==
  /\ e.file = d.file /\ e.next = d.next
  /\ DOMAIN e.real = DOMAIN d.real \ (IF d.real[m] = 1 THEN {m} ELSE {})
  /\ \A c \in DOMAIN e.real : e.real[c] = IF c = m THEN d.real[c] - 1 ELSE d.real[c]

CountedUp(d, e, m) ==
  /\ e.file = d.file /\ e.next = d.next
  /\ DOMAIN e.real = DOMAIN d.real
  /\ \A c \in DOMAIN e.real : e.real[c] = IF c = m THEN d.real[c] + 1 ELSE d.real[c]

\* Release leaves the rows alone.
LEMMA ReleaseKept ==
  ASSUME NEW d, Sound(d), NEW u, NEW m \in DOMAIN d.real
  PROVE  LET e == Release(d, m)
         IN Kept(u, d, e) /\ CountedDown(d, e, m) /\ e.up = d.up
  <1> DEFINE e == Release(d, m)
  <1>1. e = [file |-> d.file,
             real |-> [c \in DOMAIN d.real \ (IF d.real[m] = 1 THEN {m} ELSE {}) |->
                         IF c = m THEN d.real[c] - 1 ELSE d.real[c]],
             next |-> d.next, up |-> d.up]
    BY ReleaseFields
  <1> HIDE DEF e
  <1>2. /\ e = [file |-> d.file, real |-> e.real, next |-> d.next, up |-> e.up]
        /\ e.file = d.file /\ e.up = d.up /\ e.next = d.next
        /\ e.real = [c \in DOMAIN e.real |-> e.real[c]]
        /\ DOMAIN e.real = DOMAIN d.real \ (IF d.real[m] = 1 THEN {m} ELSE {})
        /\ \A c \in DOMAIN e.real : e.real[c] = IF c = m THEN d.real[c] - 1 ELSE d.real[c]
    BY <1>1
  <1>3. e.up \in BOOLEAN /\ DOMAIN e.real \subseteq Md5 /\ \A c \in DOMAIN e.real : e.real[c] \in Int
    BY <1>2 DEF Sound
  <1>4. Kept(u, d, e)
    BY <1>2, <1>3, RealKept
  <1>5. CountedDown(d, e, m)
    BY <1>2 DEF CountedDown
  <1>6. QED
    BY <1>2, <1>4, <1>5 DEF e

\* So does addcountfrommad5.
LEMMA AddKept ==
  ASSUME NEW d, Sound(d), NEW u, NEW m
  PROVE  LET e == addcountfrommad5(d, m)
         IN Kept(u, d, e) /\ CountedUp(d, e, m) /\ e.up = d.up
  <1> DEFINE e == addcountfrommad5(d, m)
  <1>1. e = [file |-> d.file, real |-> [c \in DOMAIN d.real |-> IF c = m THEN d.real[c] + 1 ELSE d.real[c]],
             next |-> d.next, up |-> d.up]
    BY AddFields
  <1> HIDE DEF e
  <1>2. /\ e = [file |-> d.file, real |-> e.real, next |-> d.next, up |-> e.up]
        /\ e.file = d.file /\ e.up = d.up /\ e.next = d.next
        /\ e.real = [c \in DOMAIN e.real |-> e.real[c]]
        /\ DOMAIN e.real = DOMAIN d.real
        /\ \A c \in DOMAIN e.real : e.real[c] = IF c = m THEN d.real[c] + 1 ELSE d.real[c]
    BY <1>1
  <1>3. e.up \in BOOLEAN /\ DOMAIN e.real \subseteq Md5 /\ \A c \in DOMAIN e.real : e.real[c] \in Int
    BY <1>2 DEF Sound
  <1>4. Kept(u, d, e)
    BY <1>2, <1>3, RealKept
  <1>5. CountedUp(d, e, m)
    BY <1>2 DEF CountedUp
  <1>6. QED
    BY <1>2, <1>4, <1>5 DEF e

-----------------------------------------------------------------------------
(* rmFileFunc: the row id goes, or is left with a content that has no      *)
(* count.                                                                  *)

Removed(d, e, id) ==
  /\ e.next = d.next /\ e.up = d.up
  /\ DOMAIN e.file \subseteq DOMAIN d.file /\ DOMAIN d.file \ {id} \subseteq DOMAIN e.file
  /\ \A i \in DOMAIN e.file : e.file[i] = d.file[i]

\* A delete takes away one row and nothing else.
LEMMA DeleteRow ==
  ASSUME NEW d, Sound(d), NEW id
  PROVE  Removed(d, Delete(d, id), id) /\ id \notin DOMAIN Delete(d, id).file /\ Delete(d, id).real = d.real
  <1> DEFINE e == Delete(d, id)
  <1>1. e = [file |-> [i \in DOMAIN d.file \ {id} |-> d.file[i]],
             real |-> d.real, next |-> d.next, up |-> d.up]
    BY DeleteFields
  <1> HIDE DEF e
  <1>2. /\ DOMAIN e.file = DOMAIN d.file \ {id} /\ \A i \in DOMAIN e.file : e.file[i] = d.file[i]
        /\ e.next = d.next /\ e.up = d.up /\ e.real = d.real
    BY <1>1
  <1>3. QED
    BY <1>2 DEF e, Removed

\* rmFileFunc on a directory: no count changes.
LEMMA RmDirRow ==
  ASSUME NEW d, Sound(d), NEW id \in DOMAIN d.file, d.file[id].type = "d"
  PROVE  Tallied(d, Delete(d, id))
  <1>1. \A m : Files(Delete(d, id), m) = Files(d, m)
    <2> SUFFICES ASSUME NEW m PROVE Files(Delete(d, id), m) = Files(d, m)
      OBVIOUS
    <2>1. d.file[id].type # "f"
      OBVIOUS
    <2>2. QED
      BY <2>1, FilesDelete
  <1>2. QED
    BY <1>1, DeleteRow, TalliedSame

\* rmFileFunc on a counted file: the row and one reference go.
LEMMA RmFileRow ==
  ASSUME NEW d, Sound(d), NEW u, NEW id \in DOMAIN d.file, d.file[id].user_id = u, d.file[id].type = "f",
         d.file[id].file_md5 \in DOMAIN d.real
  PROVE  LET e == Delete(Release(d, d.file[id].file_md5), id)
         IN Kept(u, d, e) /\ Tallied(d, e) /\ Removed(d, e, id) /\ id \notin DOMAIN e.file
  <1> DEFINE m == d.file[id].file_md5
             b == Release(d, m)
             e == Delete(b, id)
  <1>1. /\ Kept(u, d, b) /\ b.file = d.file /\ b.up = d.up /\ b.next = d.next
        /\ DOMAIN b.real = DOMAIN d.real \ (IF d.real[m] = 1 THEN {m} ELSE {})
        /\ \A c \in DOMAIN b.real : b.real[c] = IF c = m THEN d.real[c] - 1 ELSE d.real[c]
    <2>1. Kept(u, d, b) /\ CountedDown(d, b, m) /\ b.up = d.up
      BY ReleaseKept
    <2> HIDE DEF b
    <2>2. QED
      BY <2>1 DEF CountedDown
  <1>2. Sound(b)
    BY <1>1 DEF Kept
  <1> HIDE DEF b
  <1>3. Kept(u, b, e) /\ Removed(b, e, id) /\ id \notin DOMAIN e.file /\ e.real = b.real
    BY <1>1, <1>2, DeleteKept, DeleteRow
  <1>4. \A c : IF c = m THEN Cardinality(Files(e, c)) = Cardinality(Files(b, c)) - 1
                        ELSE Files(e, c) = Files(b, c)
    BY <1>1, <1>2, FilesDelete
  <1> HIDE DEF e
  <1>5. Kept(u, d, e)
    BY <1>1, <1>3, KeptThen
  <1>6. Removed(d, e, id)
    BY <1>1, <1>3 DEF Removed
  <1>7. \A c : Files(b, c) = Files(d, c) /\ Cardinality(Files(d, c)) \in Nat
    <2>1. \A c : Files(b, c) = Files(d, c)
      BY <1>1 DEF Files
    <2>2. \A c : Cardinality(Files(d, c)) \in Nat
      BY FilesFinite
    <2>3. QED
      BY <2>1, <2>2
  <1>8. \A c \in DOMAIN d.real : d.real[c] \in Int
    BY DEF Sound
  <1>9. ASSUME Within(d) PROVE Within(e)
    <2>1. ASSUME NEW c \in DOMAIN e.real PROVE e.real[c] \in 1..Cardinality(Files(e, c))
      <3>1. c \in DOMAIN d.real /\ d.real[c] \in 1..Cardinality(Files(d, c))
        BY <1>1, <1>3, <1>9, <2>1 DEF Within
      <3>2. CASE c = m
        BY <1>1, <1>3, <1>4, <1>7, <2>1, <3>1, <3>2
      <3>3. CASE c # m
        BY <1>1, <1>3, <1>4, <1>7, <3>1, <3>3
      <3>4. QED
        BY <3>2, <3>3
    <2>2. QED
      BY <2>1 DEF Within
  <1>10. ASSUME Exact(d) PROVE Exact(e)
    <2>1. ASSUME NEW c \in Md5 PROVE Cardinality(Files(e, c)) = Count(e, c)
      <3>1. Cardinality(Files(d, c)) = Count(d, c)
        BY <1>10 DEF Exact
      <3>2. CASE c = m
        BY <1>1, <1>3, <1>4, <1>7, <1>8, <3>1, <3>2 DEF Count
      <3>3. CASE c # m
        BY <1>1, <1>3, <1>4, <1>7, <3>1, <3>3 DEF Count
      <3>4. QED
        BY <3>2, <3>3
    <2>2. QED
      BY <2>1 DEF Exact
  <1>11. QED
    BY <1>3, <1>5, <1>6, <1>9, <1>10 DEF Tallied, b, e

\* rmFileFunc keeps the rows of the other users and the counts.
LEMMA RmFile ==
  ASSUME NEW d, Sound(d), NEW u, NEW id, Exists(d, id) => d.file[id].user_id = u
  PROVE  LET e == rmFileFunc(d, id)
         IN /\ Kept(u, d, e) /\ Tallied(d, e) /\ Removed(d, e, id)
            /\ Exact(d) \/ getFileTypeFromId(d, id) = "d" => id \notin DOMAIN e.file
  <1> DEFINE e == rmFileFunc(d, id)
  <1>a. Kept(u, d, d) /\ Tallied(d, d) /\ Removed(d, d, id)
    BY KeptSame DEF Tallied, Removed
  <1>1. CASE ~Exists(d, id)
    <2>1. e = d /\ id \notin DOMAIN d.file
      BY <1>1 DEF rmFileFunc, Exists
    <2>2. QED
      BY <1>a, <2>1
  <1>2. CASE Exists(d, id) /\ d.file[id].type = "d"
    <2>1. e = Delete(d, id) /\ id \in DOMAIN d.file
      BY <1>2 DEF rmFileFunc, Exists
    <2>2. QED
      BY <1>2, <2>1, DeleteKept, DeleteRow, RmDirRow
  <1>3. CASE Exists(d, id) /\ d.file[id].type # "d" /\ d.file[id].file_md5 \in DOMAIN d.real
    <2>1. e = Delete(Release(d, d.file[id].file_md5), id) /\ id \in DOMAIN d.file /\ d.file[id].user_id = u
      BY <1>3 DEF rmFileFunc, Exists
    <2>2. d.file[id].type = "f"
      BY <1>3, <2>1 DEF Sound, Fits, Rows
    <2>3. QED
      BY <1>3, <2>1, <2>2, RmFileRow
  <1>4. CASE Exists(d, id) /\ d.file[id].type # "d" /\ d.file[id].file_md5 \notin DOMAIN d.real
    <2>1. e = d /\ id \in DOMAIN d.file
      BY <1>4 DEF rmFileFunc, Exists
    <2>2. d.file[id].type = "f"
      BY <1>4, <2>1 DEF Sound, Fits, Rows
    <2>3. ~Exact(d)
      BY <1>4, <2>1, <2>2, HasCount
    <2>4. getFileTypeFromId(d, id) # "d"
      BY <1>4 DEF getFileTypeFromId
    <2>5. QED
      BY <1>a, <2>1, <2>3, <2>4
  <1>5. QED
    BY <1>1, <1>2, <1>3, <1>4

-----------------------------------------------------------------------------
(* cp of a file over a file.                                               *)

\* What both orders of the two counter updates come to.
Retold(d, e, old, new) ==
  /\ DOMAIN e.real = DOMAIN d.real \ (IF d.real[old] = 1 THEN {old} ELSE {})
  /\ \A c \in DOMAIN e.real : e.real[c] = CASE c = old -> d.real[c] - 1
                                            [] c = new -> d.real[c] + 1
                                            [] OTHER   -> d.real[c]

\* The row id now names the content new.
Rewritten(d, e, id, new) ==
  /\ DOMAIN e.file = DOMAIN d.file
  /\ e.file[id].type = "f" /\ e.file[id].file_md5 = new
  /\ \A i \in DOMAIN d.file \ {id} : e.file[i] = d.file[i]

LEMMA RetoldTallied ==
  ASSUME NEW d, Sound(d), NEW e, Sound(e), NEW id \in DOMAIN d.file, d.file[id].type = "f",
         NEW new, d.file[id].file_md5 # new, d.file[id].file_md5 \in DOMAIN d.real,
         Rewritten(d, e, id, new), Retold(d, e, d.file[id].file_md5, new)
  PROVE  /\ Within(d) => Within(e)
         /\ Exact(d) /\ new \in DOMAIN d.real => Exact(e)
  <1> DEFINE old == d.file[id].file_md5
  <1>1. \A c : /\ c = old => Cardinality(Files(e, c)) = Cardinality(Files(d, c)) - 1
               /\ c = new => Cardinality(Files(e, c)) = Cardinality(Files(d, c)) + 1
               /\ c \notin {old, new} => Files(e, c) = Files(d, c)
    BY FilesChange DEF Rewritten
  <1>2. \A c : Cardinality(Files(d, c)) \in Nat
    BY FilesFinite
  <1>3. \A c \in DOMAIN d.real : d.real[c] \in Int
    BY DEF Sound
  <1>4. /\ DOMAIN e.real = DOMAIN d.real \ (IF d.real[old] = 1 THEN {old} ELSE {})
        /\ \A c \in DOMAIN e.real : /\ c = old => e.real[c] = d.real[c] - 1
                                    /\ c = new => e.real[c] = d.real[c] + 1
                                    /\ c \notin {old, new} => e.real[c] = d.real[c]
    BY DEF Retold
  <1>5. old # new /\ old \in DOMAIN d.real
    OBVIOUS
  <1> HIDE DEF old
  <1>6. ASSUME Within(d) PROVE Within(e)
    <2>1. ASSUME NEW c \in DOMAIN e.real PROVE e.real[c] \in 1..Cardinality(Files(e, c))
      <3>1. c \in DOMAIN d.real /\ d.real[c] \in 1..Cardinality(Files(d, c))
        BY <1>4, <1>6, <2>1 DEF Within
      <3>2. CASE c = old
        BY <1>1, <1>2, <1>4, <2>1, <3>1, <3>2
      <3>3. CASE c = new
        BY <1>1, <1>2, <1>4, <2>1, <3>1, <3>3
      <3>4. CASE c \notin {old, new}
        BY <1>1, <1>4, <2>1, <3>1, <3>4
      <3>5. QED
        BY <3>2, <3>3, <3>4
    <2>2. QED
      BY <2>1 DEF Within
  <1>7. ASSUME Exact(d), new \in DOMAIN d.real PROVE Exact(e)
    <2>1. ASSUME NEW c \in Md5 PROVE Cardinality(Files(e, c)) = Count(e, c)
      <3>1. Cardinality(Files(d, c)) = IF c \in DOMAIN d.real THEN d.real[c] ELSE 0
        BY <1>7 DEF Exact, Count
      <3>2. CASE c = old
        BY <1>1, <1>2, <1>3, <1>4, <1>5, <3>1, <3>2 DEF Count
      <3>3. CASE c = new
        BY <1>1, <1>2, <1>3, <1>4, <1>5, <1>7, <3>1, <3>3 DEF Count
      <3>4. CASE c \notin {old, new}
        BY <1>1, <1>4, <3>1, <3>4 DEF Count
      <3>5. QED
        BY <3>2, <3>3, <3>4
    <2>2. QED
      BY <2>1 DEF Exact
  <1>8. QED
    BY <1>6, <1>7

\* The content of one row of u is replaced.
LEMMA ContentKept ==
  ASSUME NEW d, Sound(d), NEW u, NEW id \in DOMAIN d.file, d.file[id].type = "f", d.file[id].user_id = u,
         NEW m \in Md5
  PROVE  LET e == [d EXCEPT !.file[id].file_md5 = m]
         IN Kept(u, d, e) /\ Rewritten(d, e, id, m) /\ e.real = d.real /\ e.up = d.up /\ e.next = d.next
  <1> DEFINE row == [d.file[id] EXCEPT !.file_md5 = m]
             e == [d EXCEPT !.file[id] = row]
  <1>1. [d EXCEPT !.file[id].file_md5 = m] = e
    BY DEF Sound
  <1>2. Fits(d, d.file[id], u) /\ d.file[id] \in Rows
    BY DEF Sound, Fits
  <1>3. Fits(d, row, u) /\ row.type = "f" /\ row.file_md5 = m
    <2>1. /\ row \in Rows /\ row.type = "f" /\ row.file_md5 = m /\ row.user_id = u
          /\ row.father_id = d.file[id].father_id
      BY <1>2 DEF Rows
    <2> HIDE DEF row
    <2>2. QED
      BY <1>2, <2>1 DEF Fits
  <1> HIDE DEF row
  <1>4. Kept(u, d, e)
    BY <1>3, ChangeKept
  <1>5. e = [file |-> [i \in DOMAIN d.file |-> IF i = id THEN row ELSE d.file[i]],
             real |-> d.real, next |-> d.next, up |-> d.up]
    BY ChangeFields
  <1> HIDE DEF e
  <1>6. Rewritten(d, e, id, m) /\ e.real = d.real /\ e.up = d.up /\ e.next = d.next
    BY <1>3, <1>5 DEF Rewritten
  <1>7. QED
    BY <1>1, <1>4, <1>6

\* Only the count of m has changed, or the database is down.
LEMMA ReleaseOrCrash ==
  ASSUME NEW d, Sound(d), NEW u, NEW m
  PROVE  LET e == delcountfrommd5(d, m)
         IN Kept(u, d, e) /\ e.file = d.file /\ e.next = d.next /\ (e.up => m \in DOMAIN d.real /\ CountedDown(d, e, m))
  <1>1. CASE m \in DOMAIN d.real
    <2>1. delcountfrommd5(d, m) = Release(d, m)
      BY <1>1 DEF delcountfrommd5
    <2> DEFINE e == Release(d, m)
    <2>2. Kept(u, d, e) /\ CountedDown(d, e, m)
      BY <1>1, ReleaseKept
    <2> HIDE DEF e
    <2>3. e.file = d.file /\ e.next = d.next
      BY <2>2 DEF CountedDown
    <2>4. QED
      BY <1>1, <2>1, <2>2, <2>3 DEF e
  <1>2. CASE m \notin DOMAIN d.real
    <2>1. delcountfrommd5(d, m) = Crash(d)
      BY <1>2 DEF delcountfrommd5
    <2> DEFINE e == Crash(d)
    <2>2. e = [file |-> d.file, real |-> d.real, next |-> d.next, up |-> FALSE]
      BY CrashFields
    <2>3. Kept(u, d, e) /\ ~e.up
      BY CrashKept
    <2> HIDE DEF e
    <2>4. e.file = d.file /\ e.next = d.next
      BY <2>2
    <2>5. QED
      BY <2>1, <2>3, <2>4 DEF e
  <1>3. QED
    BY <1>1, <1>2

\* All rows stay.
Grown(d, e) == DOMAIN d.file \subseteq DOMAIN e.file

\* cp of a file over another file: one content released, the other counted.
LEMMA CopyOverKept ==
  ASSUME NEW d, Sound(d), NEW u, NEW srcid \in DOMAIN d.file, d.file[srcid].type = "f",
         NEW id \in DOMAIN d.file, d.file[id].type = "f", d.file[id].user_id = u
  PROVE  LET e == CopyOver(d, srcid, id)
         IN /\ Kept(u, d, e) /\ Grown(d, e)
            /\ e.up => (Within(d) => Within(e)) /\ (Exact(d) /\ srcid # id => Exact(e))
  <1> DEFINE new == d.file[srcid].file_md5
             old == d.file[id].file_md5
             b == delcountfrommd5(d, old)
             g == [b EXCEPT !.file[id].file_md5 = new]
             e == addcountfrommad5(g, new)
  <1>1. CopyOver(d, srcid, id) = IF ~b.up THEN b ELSE e
    BY DEF CopyOver
  <1>2. new \in Md5 /\ old \in Md5
    BY DEF Sound, Fits
  <1>3. /\ Kept(u, d, b) /\ b.file = d.file /\ b.next = d.next
        /\ b.up => /\ old \in DOMAIN d.real
                   /\ DOMAIN b.real = DOMAIN d.real \ (IF d.real[old] = 1 THEN {old} ELSE {})
                   /\ \A m \in DOMAIN b.real : b.real[m] = IF m = old THEN d.real[m] - 1 ELSE d.real[m]
    <2>1. /\ Kept(u, d, b) /\ b.file = d.file /\ b.next = d.next
          /\ b.up => old \in DOMAIN d.real /\ CountedDown(d, b, old)
      BY ReleaseOrCrash
    <2> HIDE DEF b
    <2>2. QED
      BY <2>1 DEF CountedDown
  <1>4. Sound(b)
    BY <1>3 DEF Kept
  <1> HIDE DEF b
  <1>5. Kept(u, b, g) /\ Rewritten(b, g, id, new) /\ g.real = b.real /\ g.up = b.up /\ g.next = b.next
    <2>1. id \in DOMAIN b.file /\ b.file[id].type = "f" /\ b.file[id].user_id = u
      BY <1>3
    <2> HIDE DEF new, old
    <2>2. QED
      BY <1>2, <1>4, <2>1, ContentKept
  <1>6. Sound(g)
    BY <1>5 DEF Kept
  <1> HIDE DEF g
  <1>7. /\ Kept(u, g, e) /\ e.file = g.file /\ e.up = g.up /\ e.next = g.next
        /\ DOMAIN e.real = DOMAIN g.real
        /\ \A m \in DOMAIN e.real : e.real[m] = IF m = new THEN g.real[m] + 1 ELSE g.real[m]
    <2>1. Kept(u, g, e) /\ CountedUp(g, e, new) /\ e.up = g.up
      BY <1>6, AddKept
    <2> HIDE DEF e
    <2>2. QED
      BY <2>1 DEF CountedUp
  <1> HIDE DEF e
  <1>8. Kept(u, d, e) /\ Sound(e)
    <2>1. Kept(u, d, g)
      BY <1>3, <1>5, KeptThen
    <2>2. QED
      BY <1>7, <2>1, KeptThen DEF Kept
  <1>9. Rewritten(d, e, id, new)
    BY <1>3, <1>5, <1>7 DEF Rewritten
  <1>10. ASSUME b.up
         PROVE  (Within(d) => Within(e)) /\ (Exact(d) /\ srcid # id => Exact(e))
    <2>0. \A m \in DOMAIN d.real : d.real[m] \in Int
      BY DEF Sound
    <2>1. CASE old # new
      <3>1. Retold(d, e, old, new)
        <4>1. DOMAIN e.real = DOMAIN d.real \ (IF d.real[old] = 1 THEN {old} ELSE {})
          BY <1>3, <1>5, <1>7, <1>10
        <4>2. ASSUME NEW m \in DOMAIN e.real
              PROVE  e.real[m] = CASE m = old -> d.real[m] - 1 [] m = new -> d.real[m] + 1 [] OTHER -> d.real[m]
          BY <1>3, <1>5, <1>7, <1>10, <2>1, <4>2
        <4>3. QED
          BY <4>1, <4>2 DEF Retold
      <3>2. (Within(d) => Within(e)) /\ (Exact(d) /\ new \in DOMAIN d.real => Exact(e))
        BY <1>3, <1>8, <1>9, <1>10, <2>1, <3>1, RetoldTallied
      <3>3. Exact(d) => new \in DOMAIN d.real
        BY HasCount
      <3>4. QED
        BY <3>2, <3>3
    <2>2. CASE old = new
      <3>1. \A m : Files(e, m) = Files(d, m)
        BY <1>8, <1>9, <2>2, FilesChange DEF Rewritten
      <3>2. /\ DOMAIN e.real = DOMAIN d.real \ (IF d.real[old] = 1 THEN {old} ELSE {})
            /\ \A m \in DOMAIN e.real : e.real[m] = d.real[m]
        BY <1>3, <1>5, <1>7, <1>10, <2>0, <2>2
      <3>3. Within(d) => Within(e)
        BY <3>1, <3>2 DEF Within
      <3>4. ASSUME Exact(d), srcid # id PROVE Exact(e)
        <4>1. Cardinality(Files(d, old)) = d.real[old] /\ old \in DOMAIN d.real
          BY <1>2, <1>3, <1>10, <3>4 DEF Exact, Count
        <4>2. {srcid, id} \subseteq Files(d, old) /\ Cardinality({srcid, id}) = 2
          <5>1. {srcid, id} \subseteq Files(d, old)
            BY <2>2 DEF Files
          <5>2. IsFiniteSet({srcid}) /\ Cardinality({srcid}) = 1
            BY FS_Singleton
          <5>3. id \notin {srcid} /\ {srcid, id} = {srcid} \union {id}
            BY <3>4
          <5>4. Cardinality({srcid} \union {id}) = Cardinality({srcid}) + 1
            BY <5>2, <5>3, FS_AddElement
          <5>5. QED
            BY <5>1, <5>2, <5>3, <5>4
        <4>3. Cardinality({srcid, id}) <= Cardinality(Files(d, old))
          BY <4>2, FilesFinite, FS_Subset
        <4>4. d.real[old] # 1
          BY <4>1, <4>2, <4>3
        <4>5. DOMAIN e.real = DOMAIN d.real /\ \A m \in DOMAIN e.real : e.real[m] = d.real[m]
          BY <3>2, <4>4
        <4>6. QED
          BY <3>1, <3>4, <4>5 DEF Exact, Count
      <3>5. QED
        BY <3>3, <3>4
    <2>3. QED
      BY <2>1, <2>2
  <1>11. Grown(d, b) /\ Grown(d, e)
    BY <1>3, <1>9 DEF Grown, Rewritten
  <1>12. QED
    BY <1>1, <1>3, <1>8, <1>10, <1>11

\* cp of a file over the same name in a directory: counted up before it is released.
LEMMA CopyOverNamedKept ==
  ASSUME NEW d, Sound(d), NEW u, NEW srcid \in DOMAIN d.file, d.file[srcid].type = "f",
         NEW id, Exists(d, id) => d.file[id].user_id = u
  PROVE  LET e == CopyOverNamed(d, srcid, id)
         IN Kept(u, d, e) /\ Grown(d, e) /\ (e.up => Tallied(d, e))
  <1> DEFINE new == d.file[srcid].file_md5
             old == d.file[id].file_md5
             a == addcountfrommad5(d, new)
             b == delcountfrommd5(a, old)
             e == [b EXCEPT !.file[id].file_md5 = new]
  <1>1. new \in Md5
    BY DEF Sound, Fits
  <1>2. /\ Kept(u, d, a) /\ a.file = d.file /\ a.up = d.up /\ a.next = d.next
        /\ DOMAIN a.real = DOMAIN d.real
        /\ \A m \in DOMAIN a.real : a.real[m] = IF m = new THEN d.real[m] + 1 ELSE d.real[m]
    <2>1. Kept(u, d, a) /\ CountedUp(d, a, new) /\ a.up = d.up
      BY AddKept
    <2> HIDE DEF a
    <2>2. QED
      BY <2>1 DEF CountedUp
  <1>3. Sound(a)
    BY <1>2 DEF Kept
  <1>a. CopyOverNamed(d, srcid, id) = IF ~Exists(d, id) THEN Crash(a) ELSE IF ~b.up THEN b ELSE e
    <2>1. ~Crash(a).up
      BY <1>3, CrashKept
    <2>2. a.file[id].file_md5 = old
      BY <1>2
    <2> HIDE DEF a
    <2>3. QED
      BY <2>1, <2>2 DEF CopyOverNamed, a
  <1> HIDE DEF a
  <1>4. CASE ~Exists(d, id)
    <2>1. Kept(u, a, Crash(a)) /\ ~Crash(a).up
      BY <1>3, CrashKept
    <2>2. Kept(u, d, Crash(a))
      BY <1>2, <2>1, KeptThen
    <2>3. Crash(a).file = d.file
      <3> DEFINE z == Crash(a)
      <3>1. z = [file |-> a.file, real |-> a.real, next |-> a.next, up |-> FALSE]
        BY <1>3, CrashFields
      <3> HIDE DEF z
      <3>2. z.file = d.file
        BY <1>2, <3>1
      <3>3. QED
        BY <3>2 DEF z
    <2>4. QED
      BY <1>4, <1>a, <2>1, <2>2, <2>3 DEF Grown
  <1>5. CASE Exists(d, id)
    <2>0. id \in DOMAIN d.file /\ d.file[id].user_id = u
      BY <1>5 DEF Exists
    <2>1. /\ Kept(u, a, b) /\ b.file = a.file /\ b.next = a.next
          /\ b.up => /\ old \in DOMAIN a.real
                     /\ DOMAIN b.real = DOMAIN a.real \ (IF a.real[old] = 1 THEN {old} ELSE {})
                     /\ \A m \in DOMAIN b.real : b.real[m] = IF m = old THEN a.real[m] - 1 ELSE a.real[m]
      <3>1. /\ Kept(u, a, b) /\ b.file = a.file /\ b.next = a.next
            /\ b.up => old \in DOMAIN a.real /\ CountedDown(a, b, old)
        BY <1>3, ReleaseOrCrash
      <3> HIDE DEF b
      <3>2. QED
        BY <3>1 DEF CountedDown
    <2> HIDE DEF b
    <2>2. Sound(b) /\ Kept(u, d, b) /\ Grown(d, b)
      BY <1>2, <2>1, KeptThen DEF Kept, Grown
    <2>3. ASSUME b.up PROVE Kept(u, d, e) /\ Grown(d, e) /\ Tallied(d, e)
      <3>0. d.file[id].type = "f"
        <4>1. old \in Md5
          BY <1>2, <2>1, <2>3 DEF Sound
        <4>2. QED
          BY <2>0, <4>1, Md5Assumption DEF Sound, Fits, Rows
      <3>1. Kept(u, b, e) /\ Rewritten(b, e, id, new) /\ e.real = b.real
        BY <1>1, <1>2, <2>0, <2>1, <2>2, <3>0, ContentKept
      <3> HIDE DEF e
      <3>2. Kept(u, d, e) /\ Sound(e)
        <4>1. Kept(u, d, e)
          BY <2>2, <3>1, KeptThen
        <4>2. QED
          BY <4>1 DEF Kept
      <3>3. Rewritten(d, e, id, new)
        BY <1>2, <2>1, <3>1 DEF Rewritten
      <3>4. \A m \in DOMAIN d.real : d.real[m] \in Int
        BY DEF Sound
      <3>5. CASE old # new
        <4>1. Retold(d, e, old, new) /\ old \in DOMAIN d.real
          <5>1. a.real[old] = d.real[old] /\ old \in DOMAIN d.real
            BY <1>2, <2>1, <2>3, <3>5
          <5>2. DOMAIN e.real = DOMAIN d.real \ (IF d.real[old] = 1 THEN {old} ELSE {})
            BY <1>2, <2>1, <2>3, <3>1, <5>1
          <5>3. ASSUME NEW m \in DOMAIN e.real
                PROVE  e.real[m] = CASE m = old -> d.real[m] - 1 [] m = new -> d.real[m] + 1 [] OTHER -> d.real[m]
            <6>1. m \in DOMAIN b.real /\ m \in DOMAIN a.real /\ e.real[m] = b.real[m]
              BY <1>2, <5>2, <3>1, <2>1
            <6>2. QED
              BY <6>1, <1>2, <2>1, <2>3, <3>5
          <5>4. QED
            BY <5>1, <5>2, <5>3 DEF Retold
        <4>2. (Within(d) => Within(e)) /\ (Exact(d) /\ new \in DOMAIN d.real => Exact(e))
          BY <2>0, <3>0, <3>2, <3>3, <3>5, <4>1, RetoldTallied
        <4>3. Exact(d) => new \in DOMAIN d.real
          BY HasCount
        <4>4. QED
          BY <3>2, <3>3, <4>2, <4>3 DEF Tallied, Grown, Rewritten
      <3>6. CASE old = new
        <4>1. \A m : Files(e, m) = Files(d, m)
          BY <2>0, <3>0, <3>2, <3>3, <3>6, FilesChange DEF Rewritten
        <4>2. old \in DOMAIN d.real /\ old \in Md5 /\ a.real[old] = d.real[old] + 1
          BY <1>1, <1>2, <2>1, <2>3, <3>6
        <4>3. ASSUME Within(d) \/ Exact(d) PROVE d.real[old] >= 1
          <5>1. CASE Within(d)
            <6>1. d.real[old] \in 1..Cardinality(Files(d, old)) /\ Cardinality(Files(d, old)) \in Nat
              BY <4>2, <5>1, FilesFinite DEF Within
            <6>2. QED
              BY <6>1
          <5>2. CASE Exact(d)
            BY <2>0, <3>0, <3>4, <4>2, <5>2, HasCount
          <5>3. QED
            BY <4>3, <5>1, <5>2
        <4>4. ASSUME Within(d) \/ Exact(d)
              PROVE  DOMAIN e.real = DOMAIN d.real /\ \A m \in DOMAIN d.real : e.real[m] = d.real[m]
          <5>1. a.real[old] # 1
            BY <3>4, <4>2, <4>3, <4>4
          <5>2. DOMAIN e.real = DOMAIN d.real /\ DOMAIN a.real = DOMAIN d.real /\ DOMAIN b.real = DOMAIN d.real
            BY <1>2, <2>1, <2>3, <3>1, <5>1
          <5>3. ASSUME NEW m \in DOMAIN d.real PROVE e.real[m] = d.real[m]
            BY <1>2, <2>1, <2>3, <3>1, <3>4, <3>6, <5>2, <5>3
          <5>4. QED
            BY <5>2, <5>3
        <4>5. Tallied(d, e)
          BY <4>1, <4>4 DEF Tallied, Within, Exact, Count
        <4>6. QED
          BY <3>2, <3>3, <4>5 DEF Grown, Rewritten
      <3>7. QED
        BY <3>5, <3>6
    <2>4. QED
      BY <1>5, <1>a, <2>2, <2>3
  <1>6. QED
    BY <1>4, <1>5

-----------------------------------------------------------------------------
(* Paths lead to rows of the user.                                         *)

Resolved(d, u, c) == c \in -1..(d.next - 1) /\ (Exists(d, c) => d.file[c].user_id = u)

LEMMA MinIn ==
  ASSUME NEW T \in SUBSET Nat, T # {}
  PROVE  Min(T) \in T /\ \A y \in T : Min(T) <= y
  <1>1. \E x \in T : \A y \in T : x <= y
    BY Least
  <1>2. QED
    BY <1>1 DEF Min

Named(d, u, cur, name) == {i \in getls_id(d, u, cur) : d.file[i].file_name = name}

\* A name is looked up among the rows of the user.
LEMMA NextByName ==
  ASSUME NEW d, Sound(d), NEW u, NEW cur, NEW name, name \notin {".", ".."}
  PROVE  IF Named(d, u, cur, name) = {}
         THEN getNextFileId(d, u, cur, name) = -1
         ELSE getNextFileId(d, u, cur, name) \in Named(d, u, cur, name)
  <1>1. getNextFileId(d, u, cur, name)
          = IF Named(d, u, cur, name) = {} THEN -1 ELSE Min(Named(d, u, cur, name))
    BY DEF getNextFileId, Named
  <1>2. Named(d, u, cur, name) \in SUBSET Nat
    BY DEF Named, getls_id, Children, Sound
  <1>3. QED
    BY <1>1, <1>2, MinIn

LEMMA NamedRows ==
  ASSUME NEW d, NEW u, NEW cur, NEW name, NEW i \in Named(d, u, cur, name)
  PROVE  i \in DOMAIN d.file /\ d.file[i].father_id = cur /\ d.file[i].user_id = u /\ d.file[i].file_name = name
  BY DEF Named, getls_id, Children

\* One component leads from a row of the user, or from none, to such a row or to none.
LEMMA NextResolved ==
  ASSUME NEW d, Sound(d), NEW u, NEW cur, Resolved(d, u, cur), NEW name
  PROVE  Resolved(d, u, getNextFileId(d, u, cur, name))
  <1>1. d.next \in Nat \ {0} /\ DOMAIN d.file \subseteq 1..(d.next - 1)
    BY DEF Sound
  <1>2. Resolved(d, u, -1)
    BY <1>1 DEF Resolved, Exists
  <1>3. CASE name = "."
    <2>1. getNextFileId(d, u, cur, name) = cur
      BY <1>3 DEF getNextFileId
    <2>2. QED
      BY <2>1
  <1>4. CASE name = ".."
    <2>1. getNextFileId(d, u, cur, name) = IF Exists(d, cur) THEN d.file[cur].father_id ELSE -1
      BY <1>4 DEF getNextFileId
    <2>2. ASSUME Exists(d, cur) PROVE Resolved(d, u, d.file[cur].father_id)
      BY <2>2 DEF Resolved, Exists, Sound, Fits
    <2>3. QED
      BY <1>2, <2>1, <2>2
  <1>5. CASE name \notin {".", ".."}
    <2>1. CASE Named(d, u, cur, name) = {}
      BY <1>2, <1>5, <2>1, NextByName
    <2>2. CASE Named(d, u, cur, name) # {}
      <3>1. getNextFileId(d, u, cur, name) \in Named(d, u, cur, name)
        BY <1>5, <2>2, NextByName
      <3>2. \A i \in Named(d, u, cur, name) : i \in 1..(d.next - 1) /\ d.file[i].user_id = u
        BY <1>1, NamedRows
      <3>3. QED
        BY <1>1, <3>1, <3>2 DEF Resolved
    <2>3. QED
      BY <2>1, <2>2
  <1>6. QED
    BY <1>3, <1>4, <1>5

\* So does a path: getFileId yields no row of somebody else.
LEMMA PathResolved ==
  ASSUME NEW d, Sound(d), NEW u, NEW parts \in Seq(STRING)
  PROVE  Resolved(d, u, getFileId(d, u, parts))
  <1>1. PICK f : /\ f[0] = 0
                 /\ \A k \in 1..Len(parts) : f[k] = getNextFileId(d, u, f[k - 1], parts[k])
                 /\ getFileId(d, u, parts) = f[Len(parts)]
    BY PathSteps DEF PathOf
  <1> DEFINE K == {k \in 0..Len(parts) : Resolved(d, u, f[k])}
  <1>2. Len(parts) \in Nat
    OBVIOUS
  <1>3. 0 \in K
    <2>1. 0 \in -1..(d.next - 1) /\ ~Exists(d, 0)
      BY DEF Sound, Exists
    <2>2. QED
      BY <1>1, <1>2, <2>1 DEF Resolved
  <1>4. \A k \in 1..Len(parts) : k - 1 \in K => k \in K
    <2> SUFFICES ASSUME NEW k \in 1..Len(parts), k - 1 \in K PROVE k \in K
      OBVIOUS
    <2>1. Resolved(d, u, f[k - 1])
      OBVIOUS
    <2>2. Resolved(d, u, f[k])
      BY <1>1, <2>1, NextResolved
    <2>3. QED
      BY <2>2
  <1> HIDE DEF K
  <1>5. \A k \in 0..Len(parts) : k \in K
    BY <1>2, <1>3, <1>4, Induct
  <1>6. QED
    BY <1>1, <1>2, <1>5 DEF K

\* What a path is, and the parts of it that are looked up.
Paths == [abs : BOOLEAN, parts : Seq(STRING)]

LEMMA GetPath ==
  ASSUME NEW dir \in Seq(STRING), NEW path \in Paths
  PROVE  getPath(dir, path) \in Seq(STRING)
  <1>1. path.parts \in Seq(STRING)
    BY DEF Paths
  <1>2. dir \o path.parts \in Seq(STRING)
    BY <1>1
  <1>3. QED
    BY <1>1, <1>2 DEF getPath

LEMMA FrontIn ==
  ASSUME NEW S, NEW s \in Seq(S)
  PROVE  Front(s) \in Seq(S)
  <1>1. 1 \in Int /\ Len(s) - 1 \in Int /\ \A i \in 1..(Len(s) - 1) : s[i] \in S
    OBVIOUS
  <1>2. SubSeq(s, 1, Len(s) - 1) \in Seq(S)
    BY <1>1, SubSeqProperties
  <1>3. QED
    BY <1>2 DEF Front

LEMMA LastIn ==
  ASSUME NEW s \in Seq(STRING), s # <<>>
  PROVE  Last(s) \in STRING
  BY DEF Last

-----------------------------------------------------------------------------
(* mkdir, mv and the copy of a file to a new row.                          *)

\* A new row below a resolved directory fits.
LEMMA RowFits ==
  ASSUME NEW d, Sound(d), NEW u \in User, NEW c, Resolved(d, u, c), NEW name \in STRING,
         NEW m, NEW type, (type = "f" /\ m \in Md5) \/ (type = "d" /\ m = "0")
  PROVE  Fits(d, Row(c, name, m, type, u), u)
  <1>1. c \in Int
    BY DEF Resolved, Sound
  <1>2. Row(c, name, m, type, u) \in Rows
    BY <1>1 DEF Row, Rows
  <1>3. QED
    BY <1>2 DEF Row, Fits, Resolved

\* A command of u that went well.
Done(u, d, e) == Kept(u, d, e) /\ Tallied(d, e) /\ Grown(d, e) /\ e.up = d.up

LEMMA DoneSame ==
  ASSUME NEW u, NEW d, Sound(d) PROVE Done(u, d, d)
  BY KeptSame DEF Done, Tallied, Grown

LEMMA InsertGrown ==
  ASSUME NEW d, Sound(d), NEW row
  PROVE  /\ DOMAIN Insert(d, row).file = DOMAIN d.file \union {d.next}
         /\ Insert(d, row).file[d.next] = row /\ Insert(d, row).next = d.next + 1
         /\ \A i \in DOMAIN d.file : Insert(d, row).file[i] = d.file[i]
         /\ Insert(d, row).real = d.real /\ Insert(d, row).up = d.up
  <1> DEFINE e == Insert(d, row)
  <1>1. e = [file |-> [i \in DOMAIN d.file \union {d.next} |-> IF i = d.next THEN row ELSE d.file[i]],
             real |-> d.real, next |-> d.next + 1, up |-> d.up]
    BY InsertFields
  <1>2. d.next \notin DOMAIN d.file
    BY DEF Sound
  <1> HIDE DEF e
  <1>3. /\ DOMAIN e.file = DOMAIN d.file \union {d.next} /\ e.file[d.next] = row
        /\ \A i \in DOMAIN d.file : e.file[i] = d.file[i]
        /\ e.real = d.real /\ e.up = d.up /\ e.next = d.next + 1
    BY <1>1, <1>2
  <1>4. QED
    BY <1>3 DEF e

LEMMA InsertDir ==
  ASSUME NEW d, Sound(d), NEW u, NEW row, Fits(d, row, u), row.type = "d"
  PROVE  Done(u, d, Insert(d, row))
  <1>1. \A m : Files(Insert(d, row), m) = Files(d, m)
    <2> SUFFICES ASSUME NEW m PROVE Files(Insert(d, row), m) = Files(d, m)
      OBVIOUS
    <2>1. row.type # "f"
      OBVIOUS
    <2>2. QED
      BY <2>1, FilesInsert
  <1>2. Insert(d, row).real = d.real /\ Insert(d, row).up = d.up /\ DOMAIN d.file \subseteq DOMAIN Insert(d, row).file
    BY InsertGrown
  <1>3. Tallied(d, Insert(d, row))
    BY <1>1, <1>2, TalliedSame
  <1>4. QED
    BY <1>2, <1>3, InsertKept DEF Done, Grown

LEMMA AddGrown ==
  ASSUME NEW d, Sound(d), NEW m
  PROVE  addcountfrommad5(d, m).file = d.file
  <1>1. CountedUp(d, addcountfrommad5(d, m), m)
    BY AddKept
  <1>2. QED
    BY <1>1 DEF CountedUp

\* InsertCounted, with the rows that are there before.
LEMMA InsertFile ==
  ASSUME NEW d, Sound(d), NEW u, NEW row, Fits(d, row, u), row.type = "f",
         \/ row.file_md5 \in DOMAIN d.real
         \/ \E i \in DOMAIN d.file : d.file[i].type = "f" /\ d.file[i].file_md5 = row.file_md5
  PROVE  Done(u, d, addcountfrommad5(Insert(d, row), row.file_md5))
  <1> DEFINE b == Insert(d, row)
             e == addcountfrommad5(b, row.file_md5)
  <1>1. Kept(u, d, e) /\ Tallied(d, e) /\ e.up = d.up
    BY InsertCounted
  <1>2. Kept(u, d, b) /\ DOMAIN d.file \subseteq DOMAIN b.file
    BY InsertKept, InsertGrown
  <1>3. Sound(b)
    BY <1>2 DEF Kept
  <1> HIDE DEF b
  <1>4. e.file = b.file
    BY <1>3, AddGrown
  <1>5. QED
    BY <1>1, <1>2, <1>4 DEF Done, Grown, b

\* cp of a file to a new row: one more row, one more reference.
LEMMA CopyNewDone ==
  ASSUME NEW d, Sound(d), NEW u \in User, NEW srcid \in DOMAIN d.file, d.file[srcid].type = "f",
         NEW c, Resolved(d, u, c), NEW name \in STRING
  PROVE  Done(u, d, CopyNew(d, srcid, c, name, u))
  <1> DEFINE m == d.file[srcid].file_md5
             row == Row(c, name, m, "f", u)
  <1>1. m \in Md5
    BY DEF Sound, Fits
  <1>2. Fits(d, row, u)
    BY <1>1, RowFits
  <1>3. row.type = "f" /\ row.file_md5 = m
    BY DEF Row
  <1>4. CopyNew(d, srcid, c, name, u) = addcountfrommad5(Insert(d, row), m)
    BY DEF CopyNew
  <1> HIDE DEF row
  <1>5. Done(u, d, addcountfrommad5(Insert(d, row), row.file_md5))
    BY <1>2, <1>3, InsertFile
  <1>6. QED
    BY <1>3, <1>4, <1>5

\* mkdir inserts a directory below a resolved one, or below none.
LEMMA MakedirDone ==
  ASSUME NEW d, Sound(d), NEW u \in User, NEW dir \in Seq(STRING), NEW path \in Paths, path.parts # <<>>
  PROVE  Done(u, d, makedir(d, u, dir, path).db)
  <1> DEFINE c == getFileId(d, u, ParentPath(dir, path))
             row == Row(c, Last(path.parts), "0", "d", u)
  <1>1. path.parts \in Seq(STRING) /\ path.abs \in BOOLEAN
    BY DEF Paths
  <1>2. ParentPath(dir, path) \in Seq(STRING)
    <2>1. Front(path.parts) \in Seq(STRING)
      BY <1>1, FrontIn
    <2>2. [path EXCEPT !.parts = Front(@)] \in Paths
      BY <2>1 DEF Paths
    <2>3. QED
      BY <2>2, GetPath DEF ParentPath
  <1>3. Resolved(d, u, c)
    BY <1>2, PathResolved
  <1>4. Last(path.parts) \in STRING
    BY <1>1, LastIn
  <1>5. makedir(d, u, dir, path).db \in {d, Insert(d, row)}
    BY DEF makedir, Result
  <1> HIDE DEF c
  <1>6. Fits(d, row, u) /\ row.type = "d"
    <2>1. Fits(d, row, u)
      BY <1>3, <1>4, RowFits
    <2>2. QED
      BY <2>1 DEF Row
  <1> HIDE DEF row
  <1>7. Done(u, d, Insert(d, row)) /\ Done(u, d, d)
    BY <1>6, InsertDir, DoneSame
  <1>8. QED
    BY <1>5, <1>7

\* UPDATE of the place or the name of a row.
LEMMA UpdateDone ==
  ASSUME NEW d, Sound(d), NEW u, NEW id \in DOMAIN d.file, d.file[id].user_id = u,
         NEW c, Resolved(d, u, c), NEW name \in STRING
  PROVE  LET row == [d.file[id] EXCEPT !.file_name = name, !.father_id = c]
         IN Done(u, d, Update(d, id, row).db)
  <1> DEFINE row == [d.file[id] EXCEPT !.file_name = name, !.father_id = c]
             e == [d EXCEPT !.file[id] = row]
  <1>1. Fits(d, d.file[id], u) /\ d.file[id] \in Rows
    BY DEF Sound, Fits
  <1>2. c \in Int
    BY DEF Resolved, Sound
  <1>3. /\ row \in Rows /\ row.type = d.file[id].type /\ row.file_md5 = d.file[id].file_md5
        /\ row.user_id = d.file[id].user_id /\ row.father_id = c
    BY <1>1, <1>2 DEF Rows
  <1> HIDE DEF row
  <1>4. Fits(d, row, u)
    BY <1>1, <1>3 DEF Fits, Resolved
  <1>5. Kept(u, d, e)
    BY <1>4, ChangeKept
  <1>6. e = [file |-> [i \in DOMAIN d.file |-> IF i = id THEN row ELSE d.file[i]],
             real |-> d.real, next |-> d.next, up |-> d.up]
    BY ChangeFields
  <1> HIDE DEF e
  <1>7. DOMAIN e.file = DOMAIN d.file /\ e.real = d.real /\ e.up = d.up
    BY <1>6
  <1>8. \A i \in DOMAIN d.file : e.file[i].type = d.file[i].type /\ e.file[i].file_md5 = d.file[i].file_md5
    BY <1>3, <1>6
  <1>9. \A m : Files(e, m) = Files(d, m)
    BY <1>7, <1>8 DEF Files
  <1>10. Done(u, d, e)
    BY <1>5, <1>7, <1>9, TalliedSame DEF Done, Grown
  <1>11. Update(d, id, row).db \in {d, e}
    BY DEF Update, Result, e
  <1>12. Done(u, d, Update(d, id, row).db)
    BY <1>10, <1>11, DoneSame
  <1>13. QED
    BY <1>12 DEF row

\* The names of a path that has lost its "." and "..".
Plain == STRING \ {".", ".."}

\* The path that cd stores has no . and no .. in it.
LEMMA NormalPlain ==
  ASSUME NEW parts \in Seq(STRING)
  PROVE  Normal(parts) \in Seq(Plain)
  <1>1. PICK f : /\ f[0] = [k |-> 0, s |-> <<>>]
                 /\ \A k \in 1..Len(parts) : f[k] = Normalise(f[k - 1], parts[k])
                 /\ Normal(parts) = f[Len(parts)].s
    BY NormalSteps DEF NormalOf
  <1> DEFINE Acc == [k : Int, s : Seq(Plain)]
             K == {k \in 0..Len(parts) : f[k] \in Acc}
  <1>2. Len(parts) \in Nat
    OBVIOUS
  <1>3. 0 \in K
    <2>1. <<>> \in Seq(Plain)
      OBVIOUS
    <2>2. f[0] \in Acc
      BY <1>1, <2>1
    <2>3. QED
      BY <1>2, <2>2
  <1>4. \A k \in 1..Len(parts) : k - 1 \in K => k \in K
    <2> SUFFICES ASSUME NEW k \in 1..Len(parts), k - 1 \in K PROVE k \in K
      OBVIOUS
    <2>1. f[k - 1] \in Acc /\ f[k] = Normalise(f[k - 1], parts[k]) /\ parts[k] \in STRING
      BY <1>1
    <2>2. ASSUME NEW acc \in Acc, NEW name \in STRING PROVE Normalise(acc, name) \in Acc
      <3>1. acc.k \in Int /\ acc.s \in Seq(Plain)
        OBVIOUS
      <3>2. Front(acc.s) \in Seq(Plain)
        BY <3>1, FrontIn
      <3>3. CASE name = "."
        BY <3>3 DEF Normalise
      <3>4. CASE name = ".."
        <4>1. Normalise(acc, name) = [k |-> acc.k - 1, s |-> IF acc.k > 0 THEN Front(acc.s) ELSE acc.s]
          BY <3>4 DEF Normalise
        <4>2. QED
          BY <3>1, <3>2, <4>1
      <3>5. CASE name \notin {".", ".."}
        <4>1. Normalise(acc, name) = [k |-> acc.k + 1, s |-> IF acc.k >= 0 THEN Append(acc.s, name) ELSE acc.s]
          BY <3>5 DEF Normalise
        <4>2. Append(acc.s, name) \in Seq(Plain)
          BY <3>1, <3>5 DEF Plain
        <4>3. QED
          BY <3>1, <4>1, <4>2
      <3>6. QED
        BY <3>3, <3>4, <3>5
    <2> HIDE DEF Acc
    <2>3. f[k] \in Acc
      BY <2>1, <2>2
    <2>4. QED
      BY <2>3
  <1> HIDE DEF K
  <1>5. \A k \in 0..Len(parts) : k \in K
    BY <1>2, <1>3, <1>4, Induct
  <1>6. QED
    BY <1>1, <1>2, <1>5 DEF K

LEMMA PlainIn ==
  ASSUME NEW s \in Seq(Plain)
  PROVE  s \in Seq(STRING) /\ \A i \in DOMAIN s : s[i] \notin {".", ".."}
  BY DEF Plain

\* The root has no row.
LEMMA RootPath ==
  ASSUME NEW d, Sound(d), NEW u
  PROVE  getFileTypeFromId(d, getFileId(d, u, <<>>)) = "none"
  <1>1. <<>> \in Seq(STRING) /\ Len(<<>>) = 0
    OBVIOUS
  <1>2. PICK f : PathOf(f, d, u, <<>>)
    BY <1>1, PathSteps
  <1>3. getFileId(d, u, <<>>) = 0
    BY <1>1, <1>2 DEF PathOf
  <1>4. QED
    BY <1>3 DEF getFileTypeFromId, Exists, Sound

\* mv changes the name and the father of one row of the user.
LEMMA MvDone ==
  ASSUME NEW d, Sound(d), NEW u, NEW dir \in Seq(STRING), NEW src \in Paths, NEW dest \in Paths
  PROVE  Done(u, d, mv(d, u, dir, src, dest).db)
  <1> DEFINE srcpath == Normal(getPath(dir, src))
             destpath == Normal(getPath(dir, dest))
             srcid == getFileId(d, u, getPath(dir, src))
             destid == getFileId(d, u, getPath(dir, dest))
             father == getFileId(d, u, Front(destpath))
             row == d.file[srcid]
             flag == dest.abs \/ Len(dest.parts) > 1 \/ \E i \in DOMAIN dest.parts : dest.parts[i] \in Dotted
             into == Update(d, srcid, [row EXCEPT !.father_id = destid]).db
             over == Update(d, srcid, MovedRow(d, srcid, Last(destpath), IF flag THEN father ELSE row.father_id)).db
  <1>1. getPath(dir, src) \in Seq(STRING) /\ getPath(dir, dest) \in Seq(STRING)
    BY GetPath
  <1>2. destpath \in Seq(STRING)
    BY <1>1, NormalPlain, PlainIn
  <1>3. Resolved(d, u, srcid) /\ Resolved(d, u, destid)
    BY <1>1, PathResolved
  <1>4. Resolved(d, u, father)
    BY <1>2, FrontIn, PathResolved
  <1>5. /\ mv(d, u, dir, src, dest).db \in {d, into, over}
        /\ ~Exists(d, srcid) \/ destpath = <<>> => mv(d, u, dir, src, dest).db = d
    BY DEF mv, Result
  <1>6. SUFFICES ASSUME Exists(d, srcid), destpath # <<>>
                 PROVE  Done(u, d, into) /\ Done(u, d, over)
    BY <1>5, DoneSame
  <1>7. Last(destpath) \in STRING
    BY <1>2, <1>6, LastIn
  <1> HIDE DEF srcid, destid, father, destpath, flag
  <1>8. srcid \in DOMAIN d.file /\ row.user_id = u
    BY <1>3, <1>6 DEF Resolved, Exists
  <1>9. Fits(d, row, u) /\ row \in Rows
    BY <1>8 DEF Sound, Fits
  <1>10. Resolved(d, u, row.father_id)
    BY <1>9 DEF Fits, Resolved
  <1>11. Done(u, d, into)
    <2>1. [row EXCEPT !.father_id = destid] = [row EXCEPT !.file_name = row.file_name, !.father_id = destid]
          /\ row.file_name \in STRING
      BY <1>9 DEF Rows
    <2>2. Done(u, d, Update(d, srcid, [row EXCEPT !.file_name = row.file_name, !.father_id = destid]).db)
      BY <1>3, <1>8, <2>1, UpdateDone
    <2>3. QED
      BY <2>1, <2>2
  <1>12. Done(u, d, over)
    BY <1>4, <1>7, <1>8, <1>10, UpdateDone DEF MovedRow
  <1>13. QED
    BY <1>11, <1>12

-----------------------------------------------------------------------------
(* rmDirFunc.                                                              *)

\* A row of todo with the greatest depth and, of these, the least id.
LEMMA FirstIn ==
  ASSUME NEW todo, todo # {}, NEW k \in Nat, \A t \in todo : t.depth \in 0..k /\ t.id \in Nat
  PROVE  First(todo) \in todo
  <1> DEFINE T == {k - t.depth : t \in todo}
  <1>1. T \in SUBSET Nat /\ T # {}
    OBVIOUS
  <1>2. PICK x \in T : \A y \in T : x <= y
    BY <1>1, Least
  <1>3. PICK a \in todo : x = k - a.depth
    BY <1>2
  <1>4. ASSUME NEW v \in todo PROVE v.depth <= a.depth
    <2>1. k - v.depth \in T
      OBVIOUS
    <2> HIDE DEF T
    <2>2. k - a.depth <= k - v.depth
      BY <1>2, <1>3, <2>1
    <2>3. v.depth \in 0..k /\ a.depth \in 0..k
      OBVIOUS
    <2>4. QED
      BY <2>2, <2>3
  <1> DEFINE V == {t \in todo : t.depth = a.depth}
             I == {t.id : t \in V}
  <1>5. I \in SUBSET Nat /\ I # {}
    BY <1>3
  <1>6. PICK z \in I : \A y \in I : z <= y
    BY <1>5, Least
  <1>7. PICK b \in todo : b.depth = a.depth /\ z = b.id
    BY <1>6
  <1>8. \A v \in todo : v.depth < b.depth \/ (v.depth = b.depth /\ b.id <= v.id)
    BY <1>3, <1>4, <1>6, <1>7
  <1>9. \E t \in todo : \A v \in todo : v.depth < t.depth \/ (v.depth = t.depth /\ t.id <= v.id)
    BY <1>7, <1>8
  <1>10. QED
    BY <1>9 DEF First

\* Rows have gone, no row has changed.
Shrunk(d, e) ==
  /\ e.next = d.next /\ e.up = d.up
  /\ DOMAIN e.file \subseteq DOMAIN d.file
  /\ \A i \in DOMAIN e.file : e.file[i] = d.file[i]

RmInv(d, u, w, k) ==
  /\ Kept(u, d, w.db) /\ Tallied(d, w.db) /\ Shrunk(d, w.db)
  /\ \A t \in w.todo : t.depth \in 0..k /\ t.id \in DOMAIN d.file /\ d.file[t.id].user_id = u

\* The walk of rmDirFunc begins with the children of the directory.
LEMMA RmInvStart ==
  ASSUME NEW d, Sound(d), NEW u, NEW id, Exists(d, id) => d.file[id].user_id = u
  PROVE  RmInv(d, u, RmStart(d, u, id), 0)
  <1> DEFINE gone == rmFileFunc(d, id)
             w == RmStart(d, u, id)
  <1>1. Kept(u, d, gone) /\ Tallied(d, gone) /\ Removed(d, gone, id)
    BY RmFile
  <1>2. w.db = gone /\ w.todo = Listed(getls_id(gone, u, id), 0)
    BY DEF RmStart
  <1> HIDE DEF gone, w
  <1>3. Shrunk(d, gone)
    BY <1>1 DEF Removed, Shrunk
  <1>4. \A t \in w.todo : t.depth \in 0..0 /\ t.id \in DOMAIN d.file /\ d.file[t.id].user_id = u
    BY <1>2, <1>3 DEF Listed, getls_id, Children, Shrunk
  <1>5. RmInv(d, u, w, 0)
    BY <1>1, <1>2, <1>3, <1>4 DEF RmInv
  <1>6. QED
    BY <1>5 DEF w

\* One step, in parts.
LEMMA RmVisitStep ==
  ASSUME NEW d, Sound(d), NEW u, NEW w, NEW k \in Nat, RmInv(d, u, w, k), w.todo # {}
  PROVE  LET t == First(w.todo)
             e == RmVisit(w, u)
         IN /\ t \in w.todo
            /\ Kept(u, w.db, e.db) /\ Tallied(w.db, e.db) /\ Removed(w.db, e.db, t.id)
            /\ Exact(w.db) => t.id \notin DOMAIN e.db.file
            /\ e.todo = (w.todo \ {t})
                 \union Listed(IF getFileTypeFromId(w.db, t.id) = "d" THEN getls_id(e.db, u, t.id) ELSE {}, t.depth + 1)
  <1> DEFINE t == First(w.todo)
             gone == rmFileFunc(w.db, t.id)
             e == RmVisit(w, u)
  <1>1. \A v \in w.todo : v.depth \in 0..k /\ v.id \in Nat
    BY DEF RmInv, Sound
  <1>2. t \in w.todo
    BY <1>1, FirstIn
  <1>3. e.db = gone /\ e.todo = (w.todo \ {t})
          \union Listed(IF getFileTypeFromId(w.db, t.id) = "d" THEN getls_id(gone, u, t.id) ELSE {}, t.depth + 1)
    BY DEF RmVisit
  <1> HIDE DEF t
  <1>4. Sound(w.db) /\ (Exists(w.db, t.id) => w.db.file[t.id].user_id = u)
    BY <1>2 DEF RmInv, Kept, Shrunk, Exists
  <1>5. /\ Kept(u, w.db, gone) /\ Tallied(w.db, gone) /\ Removed(w.db, gone, t.id)
        /\ Exact(w.db) => t.id \notin DOMAIN gone.file
    BY <1>4, RmFile
  <1> HIDE DEF gone, e
  <1>6. QED
    BY <1>2, <1>3, <1>5 DEF t, e

\* Each row it visits is one of the user.
LEMMA RmInvStep ==
  ASSUME NEW d, Sound(d), NEW u, NEW w, NEW k \in Nat, RmInv(d, u, w, k)
  PROVE  RmInv(d, u, RmVisit(w, u), k + 1)
  <1>1. CASE w.todo = {}
    <2>1. RmVisit(w, u) = w
      BY <1>1 DEF RmVisit
    <2>2. QED
      BY <1>1, <2>1 DEF RmInv
  <1>2. CASE w.todo # {}
    <2> DEFINE t == First(w.todo)
               e == RmVisit(w, u)
    <2>1. /\ t \in w.todo
          /\ Kept(u, w.db, e.db) /\ Tallied(w.db, e.db) /\ Removed(w.db, e.db, t.id)
          /\ e.todo = (w.todo \ {t})
               \union Listed(IF getFileTypeFromId(w.db, t.id) = "d" THEN getls_id(e.db, u, t.id) ELSE {}, t.depth + 1)
      BY <1>2, RmVisitStep
    <2> HIDE DEF t, e
    <2>2. Kept(u, d, w.db) /\ Tallied(d, w.db) /\ Shrunk(d, w.db)
      BY DEF RmInv
    <2>3. Kept(u, d, e.db) /\ Tallied(d, e.db)
      BY <2>1, <2>2, KeptThen, TalliedThen
    <2>4. Shrunk(d, e.db)
      BY <2>1, <2>2 DEF Shrunk, Removed
    <2>5. ASSUME NEW v \in e.todo
          PROVE  v.depth \in 0..(k + 1) /\ v.id \in DOMAIN d.file /\ d.file[v.id].user_id = u
      <3>1. CASE v \in w.todo
        BY <3>1 DEF RmInv
      <3>2. CASE v \notin w.todo
        <4>1. v.depth = t.depth + 1 /\ v.id \in getls_id(e.db, u, t.id)
          BY <2>1, <2>5, <3>2 DEF Listed
        <4>2. t.depth \in 0..k
          BY <2>1 DEF RmInv
        <4>3. v.id \in DOMAIN e.db.file /\ e.db.file[v.id].user_id = u
          BY <4>1 DEF getls_id, Children
        <4>4. QED
          BY <2>4, <4>1, <4>2, <4>3 DEF Shrunk
      <3>3. QED
        BY <3>1, <3>2
    <2>6. RmInv(d, u, e, k + 1)
      BY <2>3, <2>4, <2>5 DEF RmInv
    <2>7. QED
      BY <2>6 DEF e
  <1>3. QED
    BY <1>1, <1>2

\* The rows that are gone.
Lost(d, e) == DOMAIN d.file \ DOMAIN e.file

\* A row whose directory is gone is gone.
Taken(d, e) ==
  \A i \in DOMAIN e.file : LET up == e.file[i].father_id IN up \in Lost(d, e) => d.file[up].type = "f"

\* Every row that is gone was below id, or is id.
FromTop(d, e, id) ==
  \A r \in Lost(d, e) : r = id \/ d.file[r].father_id = id \/ d.file[r].father_id \in Lost(d, e)

(***************************************************************************)
(* With exact counts every visited row goes.  todo has exactly the rows    *)
(* whose directory is gone, each once, so that each step takes a row away  *)
(* until none is left to be visited.                                       *)
(***************************************************************************)
RmExact(d, id, w, k) ==
  /\ \A t, v \in w.todo : t.id = v.id => t = v
  /\ \A t \in w.todo :
       /\ t.id \in DOMAIN w.db.file
       /\ d.file[t.id].father_id = id \/ d.file[t.id].father_id \in Lost(d, w.db)
       /\ d.file[t.id].father_id \notin DOMAIN w.db.file
  /\ \A i \in DOMAIN w.db.file :
       d.file[i].father_id \in Lost(d, w.db) /\ d.file[d.file[i].father_id].type = "d"
         => \E t \in w.todo : t.id = i
  /\ FromTop(d, w.db, id) /\ id \notin DOMAIN w.db.file
  /\ w.todo # {} => Cardinality(DOMAIN w.db.file) <= d.next - 1 - k

\* There are fewer rows than ids handed out.
LEMMA RowsFinite ==
  ASSUME NEW d, Sound(d)
  PROVE  IsFiniteSet(DOMAIN d.file) /\ Cardinality(DOMAIN d.file) \in Nat /\ Cardinality(DOMAIN d.file) <= d.next - 1
  <1>1. d.next \in Nat \ {0} /\ DOMAIN d.file \subseteq 1..(d.next - 1)
    BY DEF Sound
  <1>2. IsFiniteSet(1..(d.next - 1)) /\ Cardinality(1..(d.next - 1)) = d.next - 1
    <2>1. d.next - 1 \in Int /\ 1 \in Int /\ d.next - 1 >= 0
      BY <1>1
    <2>2. /\ IsFiniteSet(1..(d.next - 1))
          /\ Cardinality(1..(d.next - 1)) = IF 1 > d.next - 1 THEN 0 ELSE d.next - 1 - 1 + 1
      BY <2>1, FS_Interval
    <2>3. QED
      BY <2>1, <2>2
  <1>3. IsFiniteSet(DOMAIN d.file) /\ Cardinality(DOMAIN d.file) <= d.next - 1
    BY <1>1, <1>2, FS_Subset
  <1>4. QED
    BY <1>3, FS_CardinalityType

\* Below a row of u are rows of u.
LEMMA BelowOwn ==
  ASSUME NEW d, Sound(d), NEW i \in DOMAIN d.file, Exists(d, d.file[i].father_id)
  PROVE  d.file[i].user_id = d.file[d.file[i].father_id].user_id
  BY DEF Sound, Fits

\* RmExact holds when the directory is gone and its children are listed.
LEMMA RmExactStart ==
  ASSUME NEW d, Sound(d), NEW u, NEW id, Exists(d, id) => d.file[id].user_id = u, Exact(d)
  PROVE  RmExact(d, id, RmStart(d, u, id), 0)
  <1> DEFINE e == rmFileFunc(d, id)
             w == RmStart(d, u, id)
  <1>1. Kept(u, d, e) /\ Removed(d, e, id) /\ id \notin DOMAIN e.file
    BY RmFile
  <1>2. w.db = e /\ w.todo = Listed(getls_id(e, u, id), 0)
    BY DEF RmStart
  <1> HIDE DEF e, w
  <1>3. Sound(e) /\ e.next = d.next /\ d.next \in Nat
    BY <1>1 DEF Kept, Removed, Sound
  <1>4. /\ DOMAIN e.file = DOMAIN d.file \ {id} /\ \A i \in DOMAIN e.file : e.file[i] = d.file[i]
        /\ Lost(d, e) = DOMAIN d.file \intersect {id}
    BY <1>1 DEF Removed, Lost
  <1>5. \A t, v \in w.todo : t.id = v.id => t = v
    BY <1>2 DEF Listed
  <1>6. ASSUME NEW t \in w.todo
        PROVE  /\ t.id \in DOMAIN e.file /\ d.file[t.id].father_id = id
               /\ d.file[t.id].father_id \notin DOMAIN e.file
    <2>1. t.id \in getls_id(e, u, id)
      BY <1>2 DEF Listed
    <2>2. t.id \in DOMAIN e.file /\ e.file[t.id].father_id = id
      BY <2>1 DEF getls_id, Children
    <2>3. QED
      BY <1>1, <1>4, <2>2
  <1>7. ASSUME NEW i \in DOMAIN e.file, d.file[i].father_id \in Lost(d, e)
        PROVE  \E t \in w.todo : t.id = i
    <2>1. d.file[i].father_id = id /\ id \in DOMAIN d.file /\ i \in DOMAIN d.file
      BY <1>4, <1>7
    <2>2. d.file[i].user_id = u
      BY <2>1, BelowOwn DEF Exists
    <2>3. i \in getls_id(e, u, id)
      BY <1>4, <2>1, <2>2 DEF getls_id, Children
    <2>4. [depth |-> 0, id |-> i] \in w.todo
      BY <1>2, <2>3 DEF Listed
    <2>5. QED
      BY <2>4
  <1>8. FromTop(d, e, id)
    BY <1>4 DEF FromTop
  <1>9. Cardinality(DOMAIN e.file) <= d.next - 1 - 0
    BY <1>3, RowsFinite
  <1>10. RmExact(d, id, w, 0)
    BY <1>1, <1>2, <1>5, <1>6, <1>7, <1>8, <1>9 DEF RmExact
  <1>11. QED
    BY <1>10 DEF w

\* A visited row goes, and the children it had are listed.
LEMMA RmExactStep ==
  ASSUME NEW d, Sound(d), Exact(d), NEW u, NEW id, NEW w, NEW k \in Nat,
         RmInv(d, u, w, k), RmExact(d, id, w, k)
  PROVE  RmExact(d, id, RmVisit(w, u), k + 1)
  <1>1. CASE w.todo = {}
    <2>1. RmVisit(w, u) = w
      BY <1>1 DEF RmVisit
    <2>2. QED
      BY <1>1, <2>1 DEF RmExact
  <1>2. CASE w.todo # {}
    <2> DEFINE t == First(w.todo)
               e == RmVisit(w, u)
               new == Listed(IF getFileTypeFromId(w.db, t.id) = "d" THEN getls_id(e.db, u, t.id) ELSE {}, t.depth + 1)
               A == DOMAIN w.db.file
    <2>1. Kept(u, d, w.db) /\ Sound(w.db) /\ Exact(w.db) /\ Shrunk(d, w.db)
      BY DEF RmInv, Kept, Tallied
    <2>2. /\ t \in w.todo /\ Kept(u, w.db, e.db) /\ Removed(w.db, e.db, t.id) /\ t.id \notin DOMAIN e.db.file
          /\ e.todo = (w.todo \ {t}) \union new
      BY <1>2, <2>1, RmVisitStep
    <2>a. \A v \in new : /\ v.id \in getls_id(e.db, u, t.id) /\ v.depth = t.depth + 1
                         /\ \A x \in new : x.id = v.id => x = v
      BY DEF Listed
    <2>b. getFileTypeFromId(w.db, t.id) = "d" =>
            \A i \in getls_id(e.db, u, t.id) : [depth |-> t.depth + 1, id |-> i] \in new
      BY DEF Listed
    <2> HIDE DEF t, e, new
    <2>3. t.id \in A /\ A \subseteq DOMAIN d.file /\ \A i \in A : w.db.file[i] = d.file[i]
      BY <2>1, <2>2 DEF RmExact, Shrunk
    <2>4. DOMAIN e.db.file = A \ {t.id} /\ \A i \in DOMAIN e.db.file : e.db.file[i] = d.file[i]
      BY <2>2, <2>3 DEF Removed
    <2>5. Lost(d, e.db) = Lost(d, w.db) \union {t.id}
      BY <2>3, <2>4 DEF Lost
    <2>6. \A v \in new : v.id \in A \ {t.id} /\ d.file[v.id].father_id = t.id
      BY <2>4, <2>a DEF getls_id, Children
    <2>7. \A v \in w.todo : d.file[v.id].father_id # t.id /\ (v.id = t.id => v = t)
      BY <2>2, <2>3 DEF RmExact
    <2>8. \A v, x \in e.todo : v.id = x.id => v = x
      <3> SUFFICES ASSUME NEW v \in e.todo, NEW x \in e.todo, v.id = x.id PROVE v = x
        OBVIOUS
      <3>1. CASE v \in new /\ x \in new
        BY <2>a, <3>1
      <3>2. CASE v \in w.todo /\ x \in w.todo
        BY <3>2 DEF RmExact
      <3>3. CASE v \in new /\ x \in w.todo
        BY <2>6, <2>7, <3>3
      <3>4. CASE v \in w.todo /\ x \in new
        BY <2>6, <2>7, <3>4
      <3>5. QED
        BY <2>2, <3>1, <3>2, <3>3, <3>4
    <2>9. ASSUME NEW v \in e.todo
          PROVE  /\ v.id \in DOMAIN e.db.file
                 /\ d.file[v.id].father_id = id \/ d.file[v.id].father_id \in Lost(d, e.db)
                 /\ d.file[v.id].father_id \notin DOMAIN e.db.file
      <3>1. CASE v \in new
        BY <2>4, <2>5, <2>6, <3>1
      <3>2. CASE v \in w.todo /\ v # t
        BY <2>4, <2>5, <2>7, <3>2 DEF RmExact
      <3>3. QED
        BY <2>2, <3>1, <3>2
    <2>10. ASSUME NEW i \in DOMAIN e.db.file, d.file[i].father_id \in Lost(d, e.db),
                  d.file[d.file[i].father_id].type = "d"
           PROVE  \E v \in e.todo : v.id = i
      <3>1. CASE d.file[i].father_id \in Lost(d, w.db)
        <4>1. PICK v \in w.todo : v.id = i
          BY <2>4, <2>10, <3>1 DEF RmExact
        <4>2. v # t
          BY <2>4, <4>1
        <4>3. QED
          BY <2>2, <4>1, <4>2
      <3>2. CASE d.file[i].father_id = t.id
        <4>1. t.id \in DOMAIN d.file /\ i \in DOMAIN d.file /\ d.file[t.id].user_id = u
          BY <2>2, <2>3, <2>4 DEF RmInv
        <4>2. d.file[i].user_id = u
          BY <3>2, <4>1, BelowOwn DEF Exists
        <4>3. i \in getls_id(e.db, u, t.id)
          BY <2>4, <3>2, <4>2 DEF getls_id, Children
        <4>4. getFileTypeFromId(w.db, t.id) = "d"
          BY <2>3, <2>10, <3>2 DEF getFileTypeFromId, Exists
        <4>5. [depth |-> t.depth + 1, id |-> i] \in e.todo
          BY <2>2, <2>b, <4>3, <4>4
        <4>6. QED
          BY <4>5
      <3>3. QED
        BY <2>5, <2>10, <3>1, <3>2
    <2>11. FromTop(d, e.db, id)
      <3> SUFFICES ASSUME NEW r \in Lost(d, e.db)
                   PROVE  r = id \/ d.file[r].father_id = id \/ d.file[r].father_id \in Lost(d, e.db)
        BY DEF FromTop
      <3>1. CASE r \in Lost(d, w.db)
        BY <2>5, <3>1 DEF RmExact, FromTop
      <3>2. CASE r = t.id
        BY <2>2, <2>5, <3>2 DEF RmExact
      <3>3. QED
        BY <2>5, <3>1, <3>2
    <2>12. Cardinality(DOMAIN e.db.file) <= d.next - 1 - (k + 1)
      <3>1. IsFiniteSet(A) /\ Cardinality(A) \in Nat
        BY <2>1, RowsFinite
      <3>2. Cardinality(A \ {t.id}) = Cardinality(A) - 1
        BY <2>3, <3>1, FS_RemoveElement
      <3>3. Cardinality(A) <= d.next - 1 - k
        BY <1>2 DEF RmExact
      <3>4. d.next \in Nat
        BY DEF Sound
      <3>5. QED
        BY <2>4, <3>1, <3>2, <3>3, <3>4
    <2>13. id \notin DOMAIN e.db.file
      BY <2>4 DEF RmExact
    <2>14. RmExact(d, id, e, k + 1)
      BY <2>8, <2>9, <2>10, <2>11, <2>12, <2>13 DEF RmExact
    <2>15. QED
      BY <2>14 DEF e
  <1>3. QED
    BY <1>1, <1>2

\* rm of a directory: the rows of others and the counts are kept, and nothing is left below.
LEMMA RmDir ==
  ASSUME NEW d, Sound(d), NEW u, NEW id, Exists(d, id) => d.file[id].user_id = u
  PROVE  LET e == rmDirFunc(d, u, id)
         IN /\ Kept(u, d, e) /\ Tallied(d, e) /\ Shrunk(d, e)
            /\ Exact(d) => Taken(d, e) /\ FromTop(d, e, id) /\ id \notin DOMAIN e.file
  <1> DEFINE e == rmDirFunc(d, u, id)
  <1>1. d.next \in Nat
    BY DEF Sound
  <1>2. PICK f : /\ f[0] = RmStart(d, u, id)
                 /\ \A k \in 1..d.next : f[k] = RmVisit(f[k - 1], u)
                 /\ e = f[d.next].db
    BY <1>1, RmSteps DEF RmOf
  <1> HIDE DEF e
  <1> DEFINE K == {k \in 0..d.next : RmInv(d, u, f[k], k)}
             L == {k \in 0..d.next : RmExact(d, id, f[k], k)}
  <1>3. \A k \in 0..d.next : k \in K
    <2>1. 0 \in K
      BY <1>1, <1>2, RmInvStart
    <2>2. \A k \in 1..d.next : k - 1 \in K => k \in K
      <3> SUFFICES ASSUME NEW k \in 1..d.next, k - 1 \in K PROVE k \in K
        OBVIOUS
      <3>1. RmInv(d, u, f[k - 1], k - 1) /\ k - 1 \in Nat
        BY <1>1
      <3>2. RmInv(d, u, RmVisit(f[k - 1], u), (k - 1) + 1)
        BY <3>1, RmInvStep
      <3>3. (k - 1) + 1 = k
        BY <1>1
      <3>4. RmInv(d, u, f[k], k)
        BY <1>2, <3>2, <3>3
      <3>5. QED
        BY <3>4
    <2> HIDE DEF K
    <2>3. QED
      BY <1>1, <2>1, <2>2, Induct
  <1>4. RmInv(d, u, f[d.next], d.next)
    BY <1>1, <1>3
  <1>5. ASSUME Exact(d) PROVE Taken(d, e) /\ FromTop(d, e, id) /\ id \notin DOMAIN e.file
    <2>1. 0 \in L
      BY <1>1, <1>2, <1>5, RmExactStart
    <2>2. \A k \in 1..d.next : k - 1 \in L => k \in L
      <3> SUFFICES ASSUME NEW k \in 1..d.next, k - 1 \in L PROVE k \in L
        OBVIOUS
      <3>0. k - 1 \in 0..d.next
        BY <1>1
      <3>1. RmExact(d, id, f[k - 1], k - 1) /\ k - 1 \in Nat
        BY <1>1
      <3>2. RmInv(d, u, f[k - 1], k - 1)
        BY <1>3, <3>0
      <3>3. RmExact(d, id, RmVisit(f[k - 1], u), (k - 1) + 1)
        BY <1>5, <3>1, <3>2, RmExactStep
      <3>4. (k - 1) + 1 = k
        BY <1>1
      <3>5. RmExact(d, id, f[k], k)
        BY <1>2, <3>3, <3>4
      <3>6. QED
        BY <3>5
    <2> HIDE DEF L
    <2>3. \A k \in 0..d.next : k \in L
      BY <1>1, <2>1, <2>2, Induct
    <2>4. RmExact(d, id, f[d.next], d.next)
      BY <1>1, <2>3 DEF L
    <2>5. f[d.next].todo = {}
      <3>1. Sound(e)
        BY <1>2, <1>4 DEF RmInv, Kept
      <3>2. Cardinality(DOMAIN e.file) \in Nat
        BY <3>1, RowsFinite
      <3>3. f[d.next].todo # {} => Cardinality(DOMAIN e.file) <= d.next - 1 - d.next
        BY <1>2, <2>4 DEF RmExact
      <3>4. QED
        BY <1>1, <3>2, <3>3
    <2>6. ASSUME NEW i \in DOMAIN e.file, e.file[i].father_id \in Lost(d, e)
          PROVE  d.file[e.file[i].father_id].type = "f"
      <3>1. e.file[i] = d.file[i]
        BY <1>2, <1>4, <2>6 DEF RmInv, Shrunk
      <3>2. d.file[d.file[i].father_id].type # "d"
        BY <1>2, <2>4, <2>5, <2>6, <3>1 DEF RmExact
      <3>3. d.file[i].father_id \in DOMAIN d.file
        BY <2>6, <3>1 DEF Lost
      <3>4. QED
        BY <3>1, <3>2, <3>3 DEF Sound, Fits, Rows
    <2>7. QED
      BY <1>2, <2>4, <2>6 DEF Taken, RmExact
  <1>6. QED
    BY <1>2, <1>4, <1>5 DEF RmInv, e

-----------------------------------------------------------------------------
(* digui: a copy only adds rows, below the row that it has begun with.     *)

LEMMA CrashSame ==
  ASSUME NEW d, Sound(d)
  PROVE  Crash(d).file = d.file /\ ~Crash(d).up
  <1> DEFINE e == Crash(d)
  <1>1. e = [file |-> d.file, real |-> d.real, next |-> d.next, up |-> FALSE]
    BY CrashFields
  <1> HIDE DEF e
  <1>2. e.file = d.file /\ e.up = FALSE
    BY <1>1
  <1>3. QED
    BY <1>2 DEF e

\* New rows only, in destid or in new rows; the ids of these begin with first.
Spread(d, e, first, destid) ==
  /\ DOMAIN d.file \subseteq DOMAIN e.file
  /\ \A i \in DOMAIN d.file : e.file[i] = d.file[i]
  /\ \A i \in DOMAIN e.file \ DOMAIN d.file : e.file[i].father_id >= first \/ e.file[i].father_id = destid

LEMMA SpreadInsert ==
  ASSUME NEW d, NEW b, Sound(b), NEW first, NEW destid, Spread(d, b, first, destid), NEW row,
         row.father_id >= first \/ row.father_id = destid,
         NEW e, e.file = Insert(b, row).file
  PROVE  Spread(d, e, first, destid)
  <1>1. b.next \notin DOMAIN b.file
    BY DEF Sound
  <1>2. /\ DOMAIN e.file = DOMAIN b.file \union {b.next} /\ e.file[b.next] = row
        /\ \A i \in DOMAIN b.file : e.file[i] = b.file[i]
    BY InsertGrown
  <1>3. QED
    BY <1>1, <1>2 DEF Spread

CopyInv(d, u, id, w, k) ==
  /\ w = [db |-> w.db, todo |-> w.todo]
  /\ Kept(u, d, w.db) /\ Spread(d, w.db, id, id) /\ (w.db.up => Tallied(d, w.db))
  /\ \A t \in w.todo :
       /\ t.depth \in 0..k /\ t.id \in DOMAIN w.db.file
       /\ t.father_id \in DOMAIN w.db.file /\ t.father_id >= id
       /\ w.db.file[t.father_id].user_id = u

\* The walk of digui begins with the children of the copied directory.
LEMMA CopyInvStart ==
  ASSUME NEW d, Sound(d), NEW u, NEW id \in DOMAIN d.file, d.file[id].user_id = u, NEW srcid
  PROVE  CopyInv(d, u, id, CopyStart(d, srcid, id), 0)
  <1> DEFINE w == CopyStart(d, srcid, id)
  <1>0. w = [db |-> w.db, todo |-> w.todo]
    BY DEF CopyStart
  <1>1. w.db = d /\ w.todo = ListedFor(Children(d, srcid), 0, id)
    BY DEF CopyStart
  <1> HIDE DEF w
  <1>2. id \in Nat
    BY DEF Sound
  <1>3. Kept(u, d, d) /\ Spread(d, d, id, id) /\ Tallied(d, d)
    BY KeptSame DEF Spread, Tallied
  <1>4. ASSUME NEW t \in w.todo
        PROVE  /\ t.depth \in 0..0 /\ t.id \in DOMAIN d.file
               /\ t.father_id \in DOMAIN d.file /\ t.father_id >= id
               /\ d.file[t.father_id].user_id = u
    BY <1>1, <1>2 DEF ListedFor, Children
  <1>5. CopyInv(d, u, id, w, 0)
    BY <1>0, <1>1, <1>3, <1>4 DEF CopyInv
  <1>6. QED
    BY <1>5 DEF w

\* A file below the copied directory.
CopiedRow(row, c, u) == [row EXCEPT !.father_id = c, !.user_id = u]

FileCopied(u, b, row, m) ==
  /\ Done(u, b, addcountfrommad5(Insert(b, row), m))
  /\ addcountfrommad5(Insert(b, row), m).file = Insert(b, row).file

\* A copied file gets a row and a reference.
LEMMA CopyFileRow ==
  ASSUME NEW b, Sound(b), NEW u \in User, NEW i \in DOMAIN b.file, b.file[i].type # "d",
         NEW c \in DOMAIN b.file, b.file[c].user_id = u,
         NEW row, row = CopiedRow(b.file[i], c, u)
  PROVE  FileCopied(u, b, row, b.file[i].file_md5) /\ row.father_id = c
  <1>1. b.file[i] \in Rows /\ b.file[i].type = "f" /\ b.file[i].file_md5 \in Md5
    BY DEF Sound, Fits, Rows
  <1>2. c \in Int /\ c \in -1..(b.next - 1)
    BY DEF Sound
  <1>3. /\ row \in Rows /\ row.type = "f" /\ row.file_md5 = b.file[i].file_md5
        /\ row.father_id = c /\ row.user_id = u
    BY <1>1, <1>2 DEF Rows, CopiedRow
  <1>4. Fits(b, row, u)
    BY <1>1, <1>2, <1>3 DEF Fits
  <1>5. Done(u, b, addcountfrommad5(Insert(b, row), row.file_md5))
    BY <1>1, <1>3, <1>4, InsertFile
  <1>6. Sound(Insert(b, row))
    BY <1>4, InsertKept DEF Kept
  <1>7. addcountfrommad5(Insert(b, row), row.file_md5).file = Insert(b, row).file
    BY <1>6, AddGrown
  <1>8. QED
    BY <1>3, <1>5, <1>7 DEF FileCopied

\* A directory below it.
LEMMA CopyDirRow ==
  ASSUME NEW b, Sound(b), NEW u \in User, NEW i \in DOMAIN b.file, NEW c \in DOMAIN b.file, b.file[c].user_id = u
  PROVE  LET row == Row(c, b.file[i].file_name, "0", "d", u)
         IN Done(u, b, Insert(b, row)) /\ row.father_id = c /\ row.user_id = u
  <1> DEFINE row == Row(c, b.file[i].file_name, "0", "d", u)
  <1>1. b.file[i].file_name \in STRING
    BY DEF Sound, Fits, Rows
  <1>2. Resolved(b, u, c)
    BY DEF Sound, Resolved
  <1>3. Fits(b, row, u)
    BY <1>1, <1>2, RowFits
  <1>4. row.type = "d" /\ row.father_id = c /\ row.user_id = u
    BY DEF Row
  <1> HIDE DEF row
  <1>5. Done(u, b, Insert(b, row))
    BY <1>3, <1>4, InsertDir
  <1>6. QED
    BY <1>4, <1>5 DEF row

\* What a visit adds to an invariant that holds before it.
LEMMA CopyInvAfter ==
  ASSUME NEW d, Sound(d), NEW u, NEW id \in DOMAIN d.file, NEW w, w.db.up, NEW k \in Nat, CopyInv(d, u, id, w, k),
         NEW e, e = [db |-> e.db, todo |-> e.todo], NEW row, e.db.file = Insert(w.db, row).file, row.father_id >= id,
         Kept(u, w.db, e.db), e.db.up => Tallied(w.db, e.db),
         \A t \in e.todo : \/ t \in w.todo
                           \/ /\ t.depth \in 0..(k + 1) /\ t.id \in DOMAIN e.db.file
                              /\ t.father_id = w.db.next /\ row.user_id = u
  PROVE  CopyInv(d, u, id, e, k + 1)
  <1>1. /\ Kept(u, d, w.db) /\ Spread(d, w.db, id, id) /\ Tallied(d, w.db)
        /\ Sound(w.db) /\ d.next <= w.db.next
    BY DEF CopyInv, Kept
  <1>2. Kept(u, d, e.db)
    BY <1>1, KeptThen
  <1>3. Spread(d, e.db, id, id)
    BY <1>1, SpreadInsert
  <1>4. e.db.up => Tallied(d, e.db)
    BY <1>1, TalliedThen
  <1>5. /\ DOMAIN e.db.file = DOMAIN w.db.file \union {w.db.next} /\ e.db.file[w.db.next] = row
        /\ \A i \in DOMAIN w.db.file : e.db.file[i] = w.db.file[i]
    BY <1>1, InsertGrown
  <1>6. w.db.next >= id /\ w.db.next \in Nat
    <2>1. w.db.next \in Nat /\ d.next \in Nat /\ id \in 1..(d.next - 1)
      BY <1>1 DEF Sound
    <2>2. QED
      BY <1>1, <2>1
  <1>7. ASSUME NEW t \in e.todo
        PROVE  /\ t.depth \in 0..(k + 1) /\ t.id \in DOMAIN e.db.file
               /\ t.father_id \in DOMAIN e.db.file /\ t.father_id >= id
               /\ e.db.file[t.father_id].user_id = u
    <2>1. CASE t \in w.todo
      BY <1>5, <2>1 DEF CopyInv
    <2>2. CASE t \notin w.todo
      BY <1>5, <1>6, <2>2
    <2>3. QED
      BY <2>1, <2>2
  <1>8. QED
    BY <1>2, <1>3, <1>4, <1>7 DEF CopyInv

\* What is listed is the children, for the depth and the directory given.
LEMMA ListedForIn ==
  ASSUME NEW ids, NEW depth, NEW new
  PROVE  \A v \in ListedFor(ids, depth, new) : v.depth = depth /\ v.id \in ids /\ v.father_id = new
  BY DEF ListedFor

\* Each copy is inserted below a directory inserted before.
LEMMA CopyInvStep ==
  ASSUME NEW d, Sound(d), NEW u \in User, NEW id \in DOMAIN d.file, NEW w, NEW k \in Nat,
         CopyInv(d, u, id, w, k), NEW stray
  PROVE  CopyInv(d, u, id, CopyVisit(w, u, stray), k + 1)
  <1>1. CASE w.todo = {} \/ ~w.db.up
    <2>1. CopyVisit(w, u, stray) = w
      BY <1>1 DEF CopyVisit
    <2>2. QED
      BY <2>1 DEF CopyInv
  <1>2. CASE w.todo # {} /\ w.db.up
    <2> DEFINE t == First(w.todo)
               e == CopyVisit(w, u, stray)
               row == w.db.file[t.id]
               file == [row EXCEPT !.father_id = t.father_id, !.user_id = u]
               dir == Row(t.father_id, row.file_name, "0", "d", u)
               made == Insert(w.db, dir)
               children == Children(made, t.id)
    <2>1. Sound(w.db)
      BY DEF CopyInv, Kept
    <2>0. w = [db |-> w.db, todo |-> w.todo]
      BY DEF CopyInv
    <2>2. t \in w.todo
      <3>1. \A v \in w.todo : v.depth \in 0..k /\ v.id \in Nat
        BY <2>1 DEF CopyInv, Sound
      <3>2. QED
        BY <1>2, <3>1, FirstIn
    <2>a. /\ row.type # "d" => /\ e.db = addcountfrommad5(Insert(w.db, file), row.file_md5)
                               /\ e.todo = w.todo \ {t}
          /\ row.type = "d" /\ stray /\ children # {} => e.db = Crash(made) /\ e.todo = w.todo
          /\ row.type = "d" /\ ~(stray /\ children # {}) =>
               /\ e.db = made
               /\ e.todo = (w.todo \ {t}) \union ListedFor(children, t.depth + 1, w.db.next)
          /\ e = [db |-> e.db, todo |-> e.todo]
      <3> DEFINE copied == [db |-> addcountfrommad5(Insert(w.db, file), row.file_md5), todo |-> w.todo \ {t}]
                 listed == [db |-> made, todo |-> (w.todo \ {t}) \union ListedFor(children, t.depth + 1, w.db.next)]
                 broken == [db |-> Crash(made), todo |-> w.todo]
      <3>1. ASSUME NEW z PROVE [w EXCEPT !.db = z] = [db |-> z, todo |-> w.todo]
        BY <2>0
      <3>2. e = IF row.type # "d" THEN copied
                ELSE IF stray /\ children # {} THEN [w EXCEPT !.db = Crash(made)]
                ELSE listed
        BY <1>2 DEF CopyVisit
      <3> HIDE DEF e, file, made, children
      <3>3. e = IF row.type # "d" THEN copied ELSE IF stray /\ children # {} THEN broken ELSE listed
        BY <3>1, <3>2
      <3>4. QED
        BY <3>3
    <2>b. \A v \in ListedFor(children, t.depth + 1, w.db.next) :
            v.depth = t.depth + 1 /\ v.id \in DOMAIN made.file /\ v.father_id = w.db.next
      <3> HIDE DEF t, made
      <3>1. \A i \in children : i \in DOMAIN made.file
        BY DEF Children
      <3> HIDE DEF children
      <3>2. QED
        BY <3>1, ListedForIn
    <2> HIDE DEF t
    <2>3. /\ t.depth \in 0..k /\ t.id \in DOMAIN w.db.file
          /\ t.father_id \in DOMAIN w.db.file /\ t.father_id >= id
          /\ w.db.file[t.father_id].user_id = u
      BY <2>2 DEF CopyInv
    <2>4. ASSUME row.type # "d"
          PROVE  /\ Done(u, w.db, addcountfrommad5(Insert(w.db, file), row.file_md5))
                 /\ addcountfrommad5(Insert(w.db, file), row.file_md5).file = Insert(w.db, file).file
                 /\ file.father_id = t.father_id
      <3>1. file = CopiedRow(w.db.file[t.id], t.father_id, u)
        BY DEF CopiedRow
      <3> HIDE DEF file
      <3>2. FileCopied(u, w.db, file, w.db.file[t.id].file_md5) /\ file.father_id = t.father_id
        BY <2>1, <2>3, <2>4, <3>1, CopyFileRow
      <3>3. QED
        BY <3>2 DEF FileCopied
    <2>5. Done(u, w.db, made) /\ dir.father_id = t.father_id /\ dir.user_id = u
      BY <2>1, <2>3, CopyDirRow
    <2>6. CASE row.type # "d"
      <3> HIDE DEF e, file
      <3>1. e.db.file = Insert(w.db, file).file /\ Kept(u, w.db, e.db) /\ Tallied(w.db, e.db) /\ file.father_id >= id
        BY <2>3, <2>4, <2>6, <2>a DEF Done
      <3>2. \A v \in e.todo : v \in w.todo
        BY <2>6, <2>a
      <3>3. CopyInv(d, u, id, e, k + 1)
        BY <1>2, <2>a, <3>1, <3>2, CopyInvAfter
      <3>4. QED
        BY <3>3 DEF e
    <2>7. CASE row.type = "d" /\ stray /\ children # {}
      <3>1. Sound(made) /\ Kept(u, w.db, made)
        BY <2>5 DEF Done, Kept
      <3> HIDE DEF made, children, dir
      <3>2. Kept(u, made, Crash(made)) /\ Crash(made).file = made.file /\ ~Crash(made).up
        BY <3>1, CrashKept, CrashSame
      <3>3. Kept(u, w.db, Crash(made))
        BY <2>1, <3>1, <3>2, KeptThen
      <3>4. e.db = Crash(made) /\ e.todo = w.todo
        BY <2>7, <2>a
      <3> HIDE DEF e
      <3>5. CopyInv(d, u, id, e, k + 1)
        <4>1. e.db.file = Insert(w.db, dir).file /\ Kept(u, w.db, e.db) /\ ~e.db.up /\ dir.father_id >= id
          BY <2>3, <2>5, <3>2, <3>3, <3>4 DEF made
        <4>2. QED
          BY <1>2, <2>a, <3>4, <4>1, CopyInvAfter
      <3>6. QED
        BY <3>5 DEF e
    <2>8. CASE row.type = "d" /\ ~(stray /\ children # {})
      <3> HIDE DEF e, made, dir, children
      <3>1. /\ e.db.file = Insert(w.db, dir).file /\ Kept(u, w.db, e.db) /\ Tallied(w.db, e.db)
            /\ dir.father_id >= id /\ dir.user_id = u
        BY <2>3, <2>5, <2>8, <2>a DEF Done, made
      <3>2. \A v \in e.todo : \/ v \in w.todo
                              \/ /\ v.depth \in 0..(k + 1) /\ v.id \in DOMAIN e.db.file
                                 /\ v.father_id = w.db.next
        BY <2>3, <2>8, <2>a, <2>b
      <3>3. CopyInv(d, u, id, e, k + 1)
        BY <1>2, <2>a, <3>1, <3>2, CopyInvAfter
      <3>4. QED
        BY <3>3 DEF e
    <2>9. QED
      BY <2>6, <2>7, <2>8
  <1>3. QED
    BY <1>1, <1>2

\* All steps of the walk together.
LEMMA CopyAll ==
  ASSUME NEW d, Sound(d), NEW u \in User, NEW id \in DOMAIN d.file, d.file[id].user_id = u, NEW srcid, NEW stray
  PROVE  LET e == CopyBelow(d, srcid, id, u, stray)
         IN Kept(u, d, e) /\ Spread(d, e, id, id) /\ (e.up => Tallied(d, e))
  <1> DEFINE e == CopyBelow(d, srcid, id, u, stray)
  <1>1. id \in Nat
    BY DEF Sound
  <1>2. PICK f : /\ f[0] = CopyStart(d, srcid, id)
                 /\ \A k \in 1..id : f[k] = CopyVisit(f[k - 1], u, stray)
                 /\ e = f[id].db
    BY <1>1, CopySteps DEF CopyOf
  <1> HIDE DEF e
  <1> DEFINE K == {k \in 0..id : CopyInv(d, u, id, f[k], k)}
  <1>3. 0 \in K
    BY <1>1, <1>2, CopyInvStart
  <1>4. \A k \in 1..id : k - 1 \in K => k \in K
    <2> SUFFICES ASSUME NEW k \in 1..id, k - 1 \in K PROVE k \in K
      OBVIOUS
    <2>1. CopyInv(d, u, id, f[k - 1], k - 1) /\ k - 1 \in Nat
      BY <1>1
    <2>2. CopyInv(d, u, id, CopyVisit(f[k - 1], u, stray), (k - 1) + 1)
      BY <2>1, CopyInvStep
    <2>3. (k - 1) + 1 = k
      BY <1>1
    <2>4. CopyInv(d, u, id, f[k], k)
      BY <1>2, <2>2, <2>3
    <2>5. QED
      BY <2>4
  <1> HIDE DEF K
  <1>5. \A k \in 0..id : k \in K
    BY <1>1, <1>3, <1>4, Induct
  <1>6. CopyInv(d, u, id, f[id], id)
    BY <1>1, <1>5 DEF K
  <1>7. QED
    BY <1>2, <1>6 DEF CopyInv, e

\* digui inserts rows of the user below destid and counts each file among them.
LEMMA Digui ==
  ASSUME NEW d, Sound(d), NEW u \in User, NEW name \in STRING, NEW srcid, NEW destid, Resolved(d, u, destid), NEW stray
  PROVE  LET e == digui(d, name, srcid, destid, u, stray)
         IN Kept(u, d, e) /\ Spread(d, e, d.next, destid) /\ (e.up => Tallied(d, e))
  <1> DEFINE row == Row(destid, name, "0", "d", u)
             made == Insert(d, row)
             all == CopyBelow(made, srcid, d.next, u, stray)
             Goal(e) == Kept(u, d, e) /\ Spread(d, e, d.next, destid) /\ (e.up => Tallied(d, e))
  <1>1. digui(d, name, srcid, destid, u, stray) \in {Crash(d), Crash(made), all}
    BY DEF digui
  <1>2. Fits(d, row, u) /\ row.type = "d" /\ row.father_id = destid /\ row.user_id = u
    <2>1. Fits(d, row, u)
      BY RowFits
    <2>2. QED
      BY <2>1 DEF Row
  <1> HIDE DEF row
  <1>3. Done(u, d, made) /\ Sound(made)
    BY <1>2, InsertDir DEF Done, Kept
  <1>4. /\ DOMAIN made.file = DOMAIN d.file \union {d.next} /\ made.file[d.next] = row /\ made.next = d.next + 1
        /\ \A i \in DOMAIN d.file : made.file[i] = d.file[i]
    BY InsertGrown
  <1> HIDE DEF made
  <1>5. Spread(d, made, d.next, destid) /\ Spread(d, d, d.next, destid)
    BY <1>2, <1>4 DEF Spread
  <1>6. Goal(Crash(d))
    <2>1. Kept(u, d, Crash(d)) /\ Crash(d).file = d.file /\ ~Crash(d).up
      BY CrashKept, CrashSame
    <2>2. Spread(d, Crash(d), d.next, destid)
      BY <1>5, <2>1 DEF Spread
    <2>3. QED
      BY <2>1, <2>2
  <1>7. Goal(Crash(made))
    <2>1. Kept(u, made, Crash(made)) /\ Crash(made).file = made.file /\ ~Crash(made).up
      BY <1>3, CrashKept, CrashSame
    <2>2. Spread(d, Crash(made), d.next, destid)
      BY <1>5, <2>1 DEF Spread
    <2>3. Kept(u, d, Crash(made))
      BY <1>3, <2>1, KeptThen DEF Done
    <2>4. QED
      BY <2>1, <2>2, <2>3
  <1>8. Goal(all)
    <2>1. d.next \in DOMAIN made.file /\ made.file[d.next].user_id = u
      BY <1>2, <1>4
    <2>2. Kept(u, made, all) /\ Spread(made, all, d.next, d.next) /\ (all.up => Tallied(made, all))
      BY <1>3, <2>1, CopyAll
    <2> HIDE DEF all
    <2>3. Kept(u, d, all) /\ (all.up => Tallied(d, all))
      BY <1>3, <2>2, KeptThen, TalliedThen DEF Done
    <2>4. Spread(d, all, d.next, destid)
      <3>1. d.next >= d.next
        BY DEF Sound
      <3>2. QED
        BY <1>2, <1>4, <2>2, <3>1 DEF Spread
    <2>5. QED
      BY <2>3, <2>4
  <1> HIDE DEF Goal
  <1>9. Goal(digui(d, name, srcid, destid, u, stray))
    BY <1>1, <1>6, <1>7, <1>8
  <1>10. QED
    BY <1>9 DEF Goal

-----------------------------------------------------------------------------
(* The row that a path leads to is reached from the root by plain names:   *)
(* it is neither on nor below a cycle, and not below a row called "..".    *)

Grounded(d, c) ==
  \A T \in SUBSET DOMAIN d.file : c \in T => \E t \in T : d.file[t].father_id \notin T

PlainAbove(d, c) ==
  \E S \in SUBSET DOMAIN d.file :
    /\ Exists(d, c) => c \in S
    /\ \A s \in S : d.file[s].file_name \notin {".", ".."}
    /\ \A s \in S : Exists(d, d.file[s].father_id) => d.file[s].father_id \in S

Line(d, c) == Grounded(d, c) /\ PlainAbove(d, c)

\* Where there is no row there is nothing above.
LEMMA NoRowLine ==
  ASSUME NEW d, NEW c, ~Exists(d, c)
  PROVE  Line(d, c)
  <1>1. Grounded(d, c)
    BY DEF Grounded, Exists
  <1>2. PlainAbove(d, c)
    <2>1. {} \in SUBSET DOMAIN d.file
      OBVIOUS
    <2>2. QED
      BY <2>1 DEF PlainAbove
  <1>3. QED
    BY <1>1, <1>2 DEF Line

\* The way up goes on from a row to its father ...
LEMMA FatherLine ==
  ASSUME NEW d, NEW c \in DOMAIN d.file, Line(d, c)
  PROVE  Line(d, d.file[c].father_id)
  <1> DEFINE up == d.file[c].father_id
  <1>1. Grounded(d, up)
    <2> SUFFICES ASSUME NEW T \in SUBSET DOMAIN d.file, up \in T
                 PROVE  \E t \in T : d.file[t].father_id \notin T
      BY DEF Grounded
    <2>1. T \union {c} \in SUBSET DOMAIN d.file /\ c \in T \union {c}
      OBVIOUS
    <2>2. PICK t \in T \union {c} : d.file[t].father_id \notin T \union {c}
      BY <2>1 DEF Line, Grounded
    <2>3. QED
      BY <2>2
  <1>2. PlainAbove(d, up)
    <2>1. PICK S \in SUBSET DOMAIN d.file :
            /\ Exists(d, c) => c \in S
            /\ \A s \in S : d.file[s].file_name \notin {".", ".."}
            /\ \A s \in S : Exists(d, d.file[s].father_id) => d.file[s].father_id \in S
      BY DEF Line, PlainAbove
    <2>2. Exists(d, up) => up \in S
      BY <2>1 DEF Exists
    <2>3. QED
      BY <2>1, <2>2 DEF PlainAbove
  <1>3. QED
    BY <1>1, <1>2 DEF Line

\* ... and down from a row to a child with a plain name.
LEMMA ChildLine ==
  ASSUME NEW d, NEW c, Line(d, c), NEW i \in DOMAIN d.file, d.file[i].father_id = c,
         d.file[i].file_name \notin {".", ".."}
  PROVE  Line(d, i)
  <1>1. Grounded(d, i)
    <2> SUFFICES ASSUME NEW T \in SUBSET DOMAIN d.file, i \in T, ~ \E t \in T : d.file[t].father_id \notin T
                 PROVE  FALSE
      BY DEF Grounded
    <2>1. c \in T
      OBVIOUS
    <2>2. QED
      BY <2>1 DEF Line, Grounded
  <1>2. PlainAbove(d, i)
    <2>1. PICK S \in SUBSET DOMAIN d.file :
            /\ Exists(d, c) => c \in S
            /\ \A s \in S : d.file[s].file_name \notin {".", ".."}
            /\ \A s \in S : Exists(d, d.file[s].father_id) => d.file[s].father_id \in S
      BY DEF Line, PlainAbove
    <2> DEFINE V == S \union {i}
    <2>2. V \in SUBSET DOMAIN d.file /\ i \in V
      OBVIOUS
    <2>3. \A s \in V : d.file[s].file_name \notin {".", ".."}
      BY <2>1
    <2>4. \A s \in V : Exists(d, d.file[s].father_id) => d.file[s].father_id \in V
      BY <2>1
    <2> HIDE DEF V
    <2>5. QED
      BY <2>2, <2>3, <2>4 DEF PlainAbove
  <1>3. QED
    BY <1>1, <1>2 DEF Line

\* One component keeps to such a line.
LEMMA NextLine ==
  ASSUME NEW d, Sound(d), NEW u, NEW cur, Line(d, cur), NEW name
  PROVE  Line(d, getNextFileId(d, u, cur, name))
  <1>1. Line(d, -1)
    <2>1. ~Exists(d, -1)
      BY DEF Sound, Exists
    <2>2. QED
      BY <2>1, NoRowLine
  <1>2. CASE name = "."
    BY <1>2 DEF getNextFileId
  <1>3. CASE name = ".."
    <2>1. getNextFileId(d, u, cur, name) = IF Exists(d, cur) THEN d.file[cur].father_id ELSE -1
      BY <1>3 DEF getNextFileId
    <2>2. QED
      BY <1>1, <2>1, FatherLine DEF Exists
  <1>4. CASE name \notin {".", ".."}
    <2>1. CASE Named(d, u, cur, name) = {}
      BY <1>1, <1>4, <2>1, NextByName
    <2>2. CASE Named(d, u, cur, name) # {}
      <3> DEFINE i == getNextFileId(d, u, cur, name)
      <3>1. i \in Named(d, u, cur, name)
        BY <1>4, <2>2, NextByName
      <3> HIDE DEF i
      <3>2. i \in DOMAIN d.file /\ d.file[i].father_id = cur /\ d.file[i].file_name = name
        BY <3>1, NamedRows
      <3>3. Line(d, i)
        BY <1>4, <3>2, ChildLine
      <3>4. QED
        BY <3>3 DEF i
    <2>3. QED
      BY <2>1, <2>2
  <1>5. QED
    BY <1>2, <1>3, <1>4

\* So does a path.
LEMMA PathLine ==
  ASSUME NEW d, Sound(d), NEW u, NEW parts \in Seq(STRING)
  PROVE  Line(d, getFileId(d, u, parts))
  <1>1. PICK f : /\ f[0] = 0
                 /\ \A k \in 1..Len(parts) : f[k] = getNextFileId(d, u, f[k - 1], parts[k])
                 /\ getFileId(d, u, parts) = f[Len(parts)]
    BY PathSteps DEF PathOf
  <1> DEFINE K == {k \in 0..Len(parts) : Line(d, f[k])}
  <1>2. Len(parts) \in Nat
    OBVIOUS
  <1>3. 0 \in K
    <2>1. ~Exists(d, 0)
      BY DEF Sound, Exists
    <2>2. Line(d, 0)
      BY <2>1, NoRowLine
    <2>3. QED
      BY <1>1, <1>2, <2>2
  <1>4. \A k \in 1..Len(parts) : k - 1 \in K => k \in K
    <2> SUFFICES ASSUME NEW k \in 1..Len(parts), k - 1 \in K PROVE k \in K
      OBVIOUS
    <2>1. Line(d, f[k - 1])
      OBVIOUS
    <2>2. Line(d, f[k])
      BY <1>1, <2>1, NextLine
    <2>3. QED
      BY <2>2
  <1> HIDE DEF K
  <1>5. \A k \in 0..Len(parts) : k \in K
    BY <1>2, <1>3, <1>4, Induct
  <1>6. QED
    BY <1>1, <1>2, <1>5 DEF K

\* One more component is one more step.
LEMMA PathAppend ==
  ASSUME NEW d, NEW u, NEW parts \in Seq(STRING), NEW name \in STRING
  PROVE  getFileId(d, u, Append(parts, name)) = getNextFileId(d, u, getFileId(d, u, parts), name)
  <1> DEFINE more == Append(parts, name)
             n == Len(parts)
  <1>1. more \in Seq(STRING) /\ Len(more) = n + 1 /\ n \in Nat /\ more[n + 1] = name
        /\ \A k \in 1..n : more[k] = parts[k]
    <2>1. /\ Append(parts, name) \in Seq(STRING) /\ Len(Append(parts, name)) = Len(parts) + 1
          /\ Append(parts, name)[Len(parts) + 1] = name
      BY AppendProperties
    <2>2. \A k \in 1..Len(parts) : Append(parts, name)[k] = parts[k]
      BY AppendProperties
    <2>3. Len(parts) \in Nat
      OBVIOUS
    <2>4. QED
      BY <2>1, <2>2, <2>3
  <1>2. PICK f : PathOf(f, d, u, parts)
    BY PathSteps
  <1>3. PICK g : PathOf(g, d, u, more)
    BY <1>1, PathSteps
  <1>4. f[0] = 0 /\ getFileId(d, u, parts) = f[n] /\ \A k \in 1..n : f[k] = getNextFileId(d, u, f[k - 1], parts[k])
    BY <1>2 DEF PathOf
  <1> HIDE DEF more
  <1>5. g[0] = 0 /\ getFileId(d, u, more) = g[n + 1]
        /\ \A k \in 1..(n + 1) : g[k] = getNextFileId(d, u, g[k - 1], more[k])
    BY <1>1, <1>3 DEF PathOf
  <1> HIDE DEF n
  <1> DEFINE K == {k \in 0..n : g[k] = f[k]}
  <1>6. 0 \in K
    BY <1>1, <1>4, <1>5
  <1>7. \A k \in 1..n : k - 1 \in K => k \in K
    <2> SUFFICES ASSUME NEW k \in 1..n, k - 1 \in K PROVE k \in K
      OBVIOUS
    <2>1. g[k - 1] = f[k - 1] /\ k \in 1..(n + 1) /\ more[k] = parts[k]
      BY <1>1
    <2>2. g[k] = f[k]
      BY <1>4, <1>5, <2>1
    <2>3. QED
      BY <2>2
  <1> HIDE DEF K
  <1>8. \A k \in 0..n : k \in K
    BY <1>1, <1>6, <1>7, Induct
  <1>9. g[n] = f[n]
    BY <1>1, <1>8 DEF K
  <1>10. g[n + 1] = getNextFileId(d, u, g[n], name)
    <2>1. n + 1 \in 1..(n + 1) /\ (n + 1) - 1 = n
      BY <1>1
    <2>2. g[n + 1] = getNextFileId(d, u, g[(n + 1) - 1], more[n + 1])
      BY <1>5, <2>1
    <2>3. QED
      BY <1>1, <2>1, <2>2
  <1>11. QED
    BY <1>4, <1>5, <1>9, <1>10 DEF more

-----------------------------------------------------------------------------
(* cp.                                                                     *)

\* A row that is not lost has lost nothing, where all rows stay.
LEMMA GrownTaken == ASSUME NEW d, NEW e, Grown(d, e) PROVE Taken(d, e)
  BY DEF Grown, Taken, Lost

\* A type other than none is that of a row.
LEMMA TypeOf ==
  ASSUME NEW d, Sound(d), NEW c
  PROVE  /\ getFileTypeFromId(d, c) \in {"none", "f", "d"}
         /\ getFileTypeFromId(d, c) # "none" => c \in DOMAIN d.file /\ d.file[c].type = getFileTypeFromId(d, c)
  BY DEF getFileTypeFromId, Exists, Sound, Fits, Rows

\* What the cp of user u comes to; self: a file is copied over itself.
Served(u, d, e, self) ==
  /\ Kept(u, d, e)
  /\ e.up => (Within(d) => Within(e)) /\ (Exact(d) /\ ~self => Exact(e)) /\ (Exact(d) => Taken(d, e))

\* A command that removes nothing and keeps the counts is served.
LEMMA DoneServed ==
  ASSUME NEW u, NEW d, NEW e, Done(u, d, e), NEW self
  PROVE  Served(u, d, e, self)
  BY GrownTaken DEF Done, Tallied, Served

\* A directory over the one of the same name in destid.
LEMMA OverDir ==
  ASSUME NEW d, Sound(d), NEW u \in User, NEW destid \in DOMAIN d.file, Resolved(d, u, destid),
         Line(d, destid), NEW top \in DOMAIN d.file, d.file[top].father_id = destid, d.file[top].user_id = u,
         NEW name \in STRING, NEW srcid, NEW stray, NEW self
  PROVE  Served(u, d, digui(rmDirFunc(d, u, top), name, srcid, destid, u, stray), self)
  <1> DEFINE b == rmDirFunc(d, u, top)
             e == digui(b, name, srcid, destid, u, stray)
  <1>1. /\ Kept(u, d, b) /\ Tallied(d, b) /\ Shrunk(d, b)
        /\ Exact(d) => Taken(d, b) /\ FromTop(d, b, top) /\ top \notin DOMAIN b.file
    BY RmDir
  <1> HIDE DEF b
  <1>2. Sound(b) /\ b.next = d.next
    BY <1>1 DEF Kept, Shrunk
  <1>3. Resolved(b, u, destid)
    BY <1>1, <1>2 DEF Resolved, Shrunk, Exists
  <1>4. Kept(u, b, e) /\ Spread(b, e, b.next, destid) /\ (e.up => Tallied(b, e))
    BY <1>2, <1>3, Digui
  <1> HIDE DEF e
  <1>5. Kept(u, d, e) /\ (e.up => Tallied(d, e))
    BY <1>1, <1>4, KeptThen, TalliedThen
  <1>6. ASSUME Exact(d) PROVE Taken(d, e)
    <2>1. destid \notin Lost(d, b)
      <3> SUFFICES ASSUME destid \in Lost(d, b) PROVE FALSE
        OBVIOUS
      <3>1. Lost(d, b) \in SUBSET DOMAIN d.file
        BY DEF Lost
      <3>2. PICK t \in Lost(d, b) : d.file[t].father_id \notin Lost(d, b)
        BY <3>1 DEF Line, Grounded
      <3>3. top \in Lost(d, b)
        BY <1>1, <1>6 DEF Lost
      <3>4. t = top \/ d.file[t].father_id = top \/ d.file[t].father_id \in Lost(d, b)
        BY <1>1, <1>6, <3>2 DEF FromTop
      <3>5. QED
        BY <3>2, <3>3, <3>4
    <2>2. ASSUME NEW i \in DOMAIN e.file, e.file[i].father_id \in Lost(d, e)
          PROVE  d.file[e.file[i].father_id].type = "f"
      <3>1. e.file[i].father_id \in Lost(d, b)
        BY <1>4, <2>2 DEF Lost, Spread
      <3>2. i \in DOMAIN b.file
        <4> SUFFICES ASSUME i \notin DOMAIN b.file PROVE FALSE
          OBVIOUS
        <4>1. e.file[i].father_id >= d.next
          BY <1>2, <1>4, <2>1, <3>1 DEF Spread
        <4>2. e.file[i].father_id \in 1..(d.next - 1) /\ d.next \in Nat
          BY <3>1 DEF Lost, Sound
        <4>3. QED
          BY <4>1, <4>2
      <3>3. e.file[i] = b.file[i]
        BY <1>4, <3>2 DEF Spread
      <3>4. QED
        BY <1>1, <1>6, <3>1, <3>2, <3>3 DEF Taken
    <2>3. QED
      BY <2>2 DEF Taken
  <1>7. Served(u, d, e, self)
    BY <1>5, <1>6 DEF Served, Tallied
  <1>8. QED
    BY <1>7 DEF b, e

\* A directory to a new name.
LEMMA NewDir ==
  ASSUME NEW d, Sound(d), NEW u \in User, NEW destid, Resolved(d, u, destid),
         NEW name \in STRING, NEW srcid, NEW stray, NEW self
  PROVE  Served(u, d, digui(d, name, srcid, destid, u, stray), self)
  <1> DEFINE e == digui(d, name, srcid, destid, u, stray)
  <1>1. Kept(u, d, e) /\ Spread(d, e, d.next, destid) /\ (e.up => Tallied(d, e))
    BY Digui
  <1> HIDE DEF e
  <1>2. Taken(d, e)
    BY <1>1, GrownTaken DEF Spread, Grown
  <1>3. Served(u, d, e, self)
    BY <1>1, <1>2 DEF Served, Tallied
  <1>4. QED
    BY <1>3 DEF e

\* cp, whichever of its ways it takes.
LEMMA CpServed ==
  ASSUME NEW d, Sound(d), NEW u \in User, NEW dir \in Seq(STRING), NEW src \in Paths, NEW dest \in Paths, NEW stray
  PROVE  LET srcid == getFileId(d, u, getPath(dir, src))
             destid == getFileId(d, u, getPath(dir, dest))
         IN Served(u, d, cp(d, u, dir, src, dest, stray).db, srcid = destid /\ getFileTypeFromId(d, srcid) = "f")
  <1> DEFINE pathdest == getPath(dir, dest)
             srcid == getFileId(d, u, getPath(dir, src))
             destid == getFileId(d, u, pathdest)
             src_type == getFileTypeFromId(d, srcid)
             type == getFileTypeFromId(d, destid)
             dest_type == IF destid = -1 THEN "none" ELSE type
             name == d.file[srcid].file_name
             same == \E i \in DOMAIN d.file : d.file[i].father_id = destid /\ d.file[i].file_name = name
             newid == getFileId(d, u, Append(pathdest, name))
             father == getFileId(d, u, Front(pathdest))
             e == cp(d, u, dir, src, dest, stray).db
             self == srcid = destid /\ src_type = "f"
  <1>1. getPath(dir, src) \in Seq(STRING) /\ pathdest \in Seq(STRING)
    BY GetPath
  <1>2. Resolved(d, u, srcid) /\ Resolved(d, u, destid) /\ Line(d, srcid) /\ Line(d, destid)
    BY <1>1, PathResolved, PathLine
  <1>3. Resolved(d, u, father)
    BY <1>1, FrontIn, PathResolved
  <1>4. destid = -1 => Last(pathdest) \in STRING
    <2>1. pathdest = <<>> => destid # -1
      <3>1. <<>> \in Seq(STRING) /\ Len(<<>>) = 0
        OBVIOUS
      <3>2. PICK f : PathOf(f, d, u, <<>>)
        BY <3>1, PathSteps
      <3>3. getFileId(d, u, <<>>) = 0
        BY <3>1, <3>2 DEF PathOf
      <3>4. QED
        BY <3>3
    <2>2. QED
      BY <1>1, <2>1, LastIn
  <1>5. srcid \in DOMAIN d.file => name \in STRING
    BY DEF Sound, Fits, Rows
  <1>6. srcid \in DOMAIN d.file =>
          newid = getNextFileId(d, u, destid, name) /\ Resolved(d, u, newid)
    <2>1. ASSUME name \in STRING
          PROVE  newid = getNextFileId(d, u, destid, name) /\ Append(pathdest, name) \in Seq(STRING)
      <3> HIDE DEF pathdest, name, destid
      <3>1. getFileId(d, u, Append(pathdest, name)) = getNextFileId(d, u, getFileId(d, u, pathdest), name)
        BY <1>1, <2>1, PathAppend
      <3>2. Append(pathdest, name) \in Seq(STRING)
        BY <1>1, <2>1, AppendProperties
      <3>3. QED
        BY <3>1, <3>2 DEF destid
    <2>2. QED
      BY <1>5, <2>1, PathResolved
  <1>7. src_type \in {"none", "f", "d"} /\ type \in {"none", "f", "d"}
        /\ (src_type # "none" => srcid \in DOMAIN d.file /\ d.file[srcid].type = src_type)
        /\ (type # "none" => destid \in DOMAIN d.file /\ d.file[destid].type = type)
    BY TypeOf
  <1>8. \/ e \in {d, Crash(d)}
        \/ src_type = "f" /\ type = "f" /\ e = CopyOver(d, srcid, destid)
        \/ src_type = "f" /\ type = "d" /\ e = CopyOverNamed(d, srcid, newid)
        \/ src_type = "f" /\ type = "d" /\ e = CopyNew(d, srcid, destid, name, u)
        \/ src_type = "d" /\ type = "d" /\ same
             /\ e = digui(rmDirFunc(d, u, newid), name, srcid, destid, u, stray)
        \/ src_type = "d" /\ type = "d" /\ e = digui(d, name, srcid, destid, u, stray)
        \/ src_type = "f" /\ destid = -1 /\ e = CopyNew(d, srcid, father, Last(pathdest), u)
        \/ src_type = "d" /\ destid = -1 /\ e = digui(d, Last(pathdest), srcid, father, u, stray)
    <2> DEFINE r == cp(d, u, dir, src, dest, stray)
    <2>1. r = IF srcid = -1 THEN Result(d, -1)
              ELSE IF src_type = "none" \/ (destid # -1 /\ dest_type = "none") THEN Result(Crash(d), -1)
              ELSE IF stray /\ destid # -1 THEN Result(d, 0)
              ELSE CASE src_type = "f" /\ dest_type = "f" -> Result(CopyOver(d, srcid, destid), 0)
                     [] src_type = "f" /\ dest_type = "d" /\ same -> Result(CopyOverNamed(d, srcid, newid), 0)
                     [] src_type = "f" /\ dest_type = "d" /\ ~same ->
                          Result(CopyNew(d, srcid, destid, name, u), 0)
                     [] src_type = "d" /\ dest_type = "d" ->
                          Result(digui(IF same THEN rmDirFunc(d, u, newid) ELSE d,
                                       name, srcid, destid, u, stray), 0)
                     [] src_type = "d" /\ dest_type = "f" -> Result(d, -1)
                     [] destid = -1 /\ father = -1 -> Result(d, -1)
                     [] src_type = "f" /\ destid = -1 /\ father # -1 ->
                          Result(CopyNew(d, srcid, father, Last(pathdest), u), 0)
                     [] OTHER -> Result(digui(d, Last(pathdest), srcid, father, u, stray), 0)
      BY DEF cp
    <2>2. e = r.db /\ \A x, ret : Result(x, ret).db = x
      BY DEF Result
    <2>3. dest_type = IF destid = -1 THEN "none" ELSE type
      OBVIOUS
    <2> HIDE DEF e, r, srcid, destid, src_type, type, dest_type, same, newid, father, name, pathdest
    <2>4. CASE srcid = -1 \/ src_type = "none" \/ (destid # -1 /\ dest_type = "none")
      BY <2>1, <2>2, <2>4
    <2>5. CASE srcid # -1 /\ src_type # "none" /\ ~(destid # -1 /\ dest_type = "none") /\ stray /\ destid # -1
      BY <2>1, <2>2, <2>5
    <2>6. CASE srcid # -1 /\ src_type # "none" /\ destid # -1 /\ dest_type # "none" /\ ~stray
      <3>1. CASE src_type = "f"
        BY <1>7, <2>1, <2>2, <2>3, <2>6, <3>1
      <3>2. CASE src_type = "d"
        BY <1>7, <2>1, <2>2, <2>3, <2>6, <3>2
      <3>3. QED
        BY <1>7, <2>6, <3>1, <3>2
    <2>7. CASE srcid # -1 /\ src_type # "none" /\ destid = -1
      <3>1. CASE src_type = "f"
        BY <1>7, <2>1, <2>2, <2>3, <2>7, <3>1
      <3>2. CASE src_type = "d"
        BY <1>7, <2>1, <2>2, <2>3, <2>7, <3>2
      <3>3. QED
        BY <1>7, <2>7, <3>1, <3>2
    <2>8. QED
      BY <2>4, <2>5, <2>6, <2>7
  <1> SUFFICES Served(u, d, e, self)
    OBVIOUS
  <1> HIDE DEF srcid, destid, newid, father, pathdest, e, src_type, type, same, self
  <1>9. CASE e \in {d, Crash(d)}
    <2>1. Kept(u, d, Crash(d)) /\ ~Crash(d).up
      BY CrashKept
    <2>2. Served(u, d, Crash(d), self)
      BY <2>1 DEF Served
    <2>3. Served(u, d, d, self)
      BY DoneSame, DoneServed
    <2>4. QED
      BY <1>9, <2>2, <2>3
  <1>10. CASE src_type = "f" /\ type = "f" /\ e = CopyOver(d, srcid, destid)
    <2>1. srcid \in DOMAIN d.file /\ destid \in DOMAIN d.file /\ d.file[srcid].type = "f" /\ d.file[destid].type = "f"
      BY <1>7, <1>10
    <2>2. d.file[destid].user_id = u
      BY <1>2, <2>1 DEF Resolved, Exists
    <2>3. Kept(u, d, e) /\ Grown(d, e)
          /\ (e.up => (Within(d) => Within(e)) /\ (Exact(d) /\ srcid # destid => Exact(e)))
      BY <1>10, <2>1, <2>2, CopyOverKept
    <2>4. ~self => srcid # destid
      BY <1>10 DEF self
    <2>5. QED
      BY <2>3, <2>4, GrownTaken DEF Served
  <1>11. CASE src_type = "f" /\ type = "d" /\ e = CopyOverNamed(d, srcid, newid)
    <2>1. srcid \in DOMAIN d.file /\ d.file[srcid].type = "f"
      BY <1>7, <1>11
    <2>2. Exists(d, newid) => d.file[newid].user_id = u
      BY <1>6, <2>1 DEF Resolved
    <2>3. Kept(u, d, e) /\ Grown(d, e) /\ (e.up => Tallied(d, e))
      BY <1>11, <2>1, <2>2, CopyOverNamedKept
    <2>4. QED
      BY <2>3, GrownTaken DEF Served, Tallied
  <1>12. CASE src_type = "f" /\ type = "d" /\ e = CopyNew(d, srcid, destid, name, u)
    <2>1. srcid \in DOMAIN d.file /\ d.file[srcid].type = "f"
      BY <1>7, <1>12
    <2>2. Done(u, d, CopyNew(d, srcid, destid, name, u))
      BY <1>2, <1>5, <2>1, CopyNewDone
    <2>3. QED
      BY <1>12, <2>2, DoneServed
  <1>13. CASE src_type = "d" /\ type = "d" /\ same
              /\ e = digui(rmDirFunc(d, u, newid), name, srcid, destid, u, stray)
    <2>1. srcid \in DOMAIN d.file /\ destid \in DOMAIN d.file
      BY <1>7, <1>13
    <2>2. name \notin {".", ".."} /\ name \in STRING
      BY <1>2, <1>5, <2>1 DEF Line, PlainAbove, Exists
    <2>3. Named(d, u, destid, name) # {}
      <3>1. PICK i \in DOMAIN d.file : d.file[i].father_id = destid /\ d.file[i].file_name = name
        BY <1>13 DEF same
      <3>2. d.file[i].user_id = u
        BY <1>2, <2>1, <3>1, BelowOwn DEF Resolved, Exists
      <3>3. QED
        BY <3>1, <3>2 DEF Named, getls_id, Children
    <2>4. newid \in Named(d, u, destid, name)
      BY <1>6, <2>1, <2>2, <2>3, NextByName
    <2>5. newid \in DOMAIN d.file /\ d.file[newid].father_id = destid /\ d.file[newid].user_id = u
      BY <2>4, NamedRows
    <2> HIDE DEF name
    <2>6. QED
      BY <1>2, <1>13, <2>1, <2>2, <2>5, OverDir
  <1>14. CASE src_type = "d" /\ type = "d" /\ e = digui(d, name, srcid, destid, u, stray)
    <2>1. name \in STRING
      BY <1>5, <1>7, <1>14
    <2> HIDE DEF name
    <2>2. QED
      BY <1>2, <1>14, <2>1, NewDir
  <1>15. CASE src_type = "f" /\ destid = -1 /\ e = CopyNew(d, srcid, father, Last(pathdest), u)
    <2>1. srcid \in DOMAIN d.file /\ d.file[srcid].type = "f"
      BY <1>7, <1>15
    <2>2. Done(u, d, e)
      BY <1>3, <1>4, <1>15, <2>1, CopyNewDone
    <2>3. QED
      BY <2>2, DoneServed
  <1>16. CASE src_type = "d" /\ destid = -1 /\ e = digui(d, Last(pathdest), srcid, father, u, stray)
    BY <1>3, <1>4, <1>16, NewDir
  <1>17. QED
    BY <1>8, <1>9, <1>10, <1>11, <1>12, <1>13, <1>14, <1>15, <1>16

\* rm.
LEMMA RmServed ==
  ASSUME NEW d, Sound(d), NEW u, NEW dir \in Seq(STRING), NEW path \in Paths, NEW self
  PROVE  Served(u, d, rm(d, u, dir, path).db, self)
  <1> DEFINE id == getFileId(d, u, getPath(dir, path))
             e == rm(d, u, dir, path).db
  <1>1. Resolved(d, u, id)
    BY GetPath, PathResolved
  <1>2. \/ e = d
        \/ getFileTypeFromId(d, id) = "d" /\ e = rmDirFunc(d, u, id)
        \/ getFileTypeFromId(d, id) # "d" /\ e = rmFileFunc(d, id)
    BY DEF rm, Result
  <1> HIDE DEF id, e
  <1>3. Exists(d, id) => d.file[id].user_id = u
    BY <1>1 DEF Resolved
  <1>4. Served(u, d, e, self)
    <2>1. CASE e = d
      BY <2>1, DoneSame, DoneServed
    <2>2. CASE e = rmDirFunc(d, u, id)
      BY <1>3, <2>2, RmDir DEF Served, Tallied
    <2>3. CASE getFileTypeFromId(d, id) # "d" /\ e = rmFileFunc(d, id)
      <3>1. Kept(u, d, e) /\ Tallied(d, e) /\ Removed(d, e, id)
        BY <1>3, <2>3, RmFile
      <3>2. id \in DOMAIN d.file => d.file[id].type = "f"
        BY <2>3 DEF getFileTypeFromId, Exists, Sound, Fits, Rows
      <3>3. Taken(d, e)
        BY <3>1, <3>2 DEF Removed, Taken, Lost
      <3>4. QED
        BY <3>1, <3>3 DEF Served, Tallied
    <2>4. QED
      BY <1>2, <2>1, <2>2, <2>3
  <1>5. QED
    BY <1>4 DEF e

\* A transfer: a content without a count gets one with its first row.
LEMMA RecordDone ==
  ASSUME NEW d, Sound(d), NEW u, NEW row, Fits(d, row, u), row.type = "f", row.file_md5 \notin DOMAIN d.real,
         NEW e, e = [Insert(d, row) EXCEPT !.real = [c \in DOMAIN d.real \union {row.file_md5} |->
                                                       IF c = row.file_md5 THEN 1 ELSE d.real[c]]]
  PROVE  Done(u, d, e)
  <1> DEFINE m == row.file_md5
             b == Insert(d, row)
             R == [c \in DOMAIN d.real \union {m} |-> IF c = m THEN 1 ELSE d.real[c]]
  <1>1. Kept(u, d, b) /\ Sound(b)
    BY InsertKept DEF Kept
  <1>2. DOMAIN b.file = DOMAIN d.file \union {d.next} /\ b.real = d.real /\ b.up = d.up /\ b.next = d.next + 1
    BY InsertGrown
  <1>3. \A c : IF c = m THEN Cardinality(Files(b, c)) = Cardinality(Files(d, c)) + 1
                        ELSE Files(b, c) = Files(d, c)
    BY FilesInsert
  <1>a. m \in Md5
    BY DEF Fits
  <1>b. e = [b EXCEPT !.real = R]
    OBVIOUS
  <1>c. /\ DOMAIN R = DOMAIN d.real \union {m} /\ R[m] = 1 /\ \A c \in DOMAIN d.real : R[c] = d.real[c]
        /\ R = [c \in DOMAIN R |-> R[c]]
    OBVIOUS
  <1> HIDE DEF b, m, R
  <1>4. e = [file |-> b.file, real |-> R, next |-> b.next, up |-> b.up]
    BY <1>1, <1>b DEF Sound
  <1>5. e.file = b.file /\ e.real = R /\ e.up = d.up
    BY <1>2, <1>4
  <1>6. \A c \in DOMAIN d.real : d.real[c] \in Int
    BY DEF Sound
  <1>7. Kept(u, b, e)
    <2>1. e = [file |-> b.file, real |-> e.real, next |-> b.next, up |-> e.up]
      BY <1>4, <1>5, <1>2
    <2>2. e.up \in BOOLEAN /\ DOMAIN e.real \subseteq Md5
      BY <1>5, <1>a, <1>c DEF Sound
    <2>3. e.real = [c \in DOMAIN e.real |-> e.real[c]] /\ \A c \in DOMAIN e.real : e.real[c] \in Int
      BY <1>5, <1>6, <1>c
    <2>4. QED
      BY <1>1, <2>1, <2>2, <2>3, RealKept
  <1>8. Kept(u, d, e)
    BY <1>1, <1>7, KeptThen
  <1>9. \A c : Files(e, c) = Files(b, c)
    BY <1>5 DEF Files
  <1>10. \A c : Cardinality(Files(d, c)) \in Nat
    BY FilesFinite
  <1>11. m \notin DOMAIN d.real
    BY DEF m
  <1>12. ASSUME Within(d) PROVE Within(e)
    <2>1. ASSUME NEW c \in DOMAIN e.real PROVE e.real[c] \in 1..Cardinality(Files(e, c))
      <3>1. CASE c = m
        <4>1. e.real[c] = 1 /\ Cardinality(Files(e, c)) = Cardinality(Files(d, c)) + 1
          BY <1>3, <1>5, <1>9, <1>c, <3>1
        <4>2. QED
          BY <1>10, <4>1
      <3>2. CASE c # m
        BY <1>3, <1>5, <1>9, <1>12, <1>c, <2>1, <3>2 DEF Within
      <3>3. QED
        BY <3>1, <3>2
    <2>2. QED
      BY <2>1 DEF Within
  <1>13. ASSUME Exact(d) PROVE Exact(e)
    <2>1. ASSUME NEW c \in Md5 PROVE Cardinality(Files(e, c)) = Count(e, c)
      <3>1. Cardinality(Files(d, c)) = IF c \in DOMAIN d.real THEN d.real[c] ELSE 0
        BY <1>13 DEF Exact, Count
      <3>2. CASE c = m
        BY <1>3, <1>5, <1>9, <1>11, <1>c, <3>1, <3>2 DEF Count
      <3>3. CASE c # m
        BY <1>3, <1>5, <1>9, <1>c, <3>1, <3>3 DEF Count
      <3>4. QED
        BY <3>2, <3>3
    <2>2. QED
      BY <2>1 DEF Exact
  <1>14. QED
    BY <1>2, <1>5, <1>8, <1>12, <1>13 DEF Done, Tallied, Grown

-----------------------------------------------------------------------------
(* The sessions.                                                           *)

IInv ==
  /\ Sound(db) /\ db.next <= MaxId + 1
  /\ pwd \in [User -> Seq(STRING)] /\ whole \subseteq Md5
  /\ user_id \in [Session -> User \union {NoUser}] /\ father_id \in [Session -> Int]
  /\ \A s \in Session : Resolved(db, user_id[s], father_id[s])
  /\ db.up => Within(db)
  /\ db.up /\ ~selfCopied => Exact(db)

\* What every step of session s does.
Serves(s) ==
  /\ db.up /\ (~selfCopied' => ~selfCopied)
  /\ db' = db \/ (user_id[s] \in User /\ Served(user_id[s], db, db', selfCopied') /\ db'.next <= MaxId + 1)
  /\ pwd' \in [User -> Seq(STRING)] /\ whole' \subseteq Md5
  /\ user_id' \in [Session -> User \union {NoUser}] /\ father_id' \in [Session -> Int]
  /\ \A r \in Session : Resolved(db, user_id'[r], father_id'[r])

\* A cached id stays the user's own, or without a row, whatever others do.
LEMMA ResolvedKept ==
  ASSUME NEW d, Sound(d), NEW u, NEW e, Kept(u, d, e), NEW v, NEW c, Resolved(d, v, c)
  PROVE  Resolved(e, v, c)
  <1>1. c \in -1..(d.next - 1) /\ d.next \in Nat /\ e.next \in Nat /\ d.next <= e.next
    BY DEF Resolved, Kept, Sound
  <1>2. c \in -1..(e.next - 1)
    BY <1>1
  <1>3. ASSUME c \in DOMAIN e.file PROVE c \in DOMAIN d.file
    BY <1>1, <1>3 DEF Kept
  <1>4. ASSUME c \in DOMAIN e.file PROVE e.file[c].user_id = v
    BY <1>3, <1>4 DEF Kept, Resolved, Exists
  <1>5. QED
    BY <1>2, <1>4 DEF Resolved, Exists

\* The id 0 is that of no row.
LEMMA NoDir ==
  ASSUME NEW d, Sound(d), NEW u
  PROVE  Resolved(d, u, 0)
  BY DEF Resolved, Exists, Sound

LEMMA Single ==
  ASSUME NEW S, NEW x \in S
  PROVE  <<x>> \in Seq(S)
  <1>1. <<>> \in Seq(S)
    OBVIOUS
  <1>2. Append(<<>>, x) \in Seq(S)
    BY <1>1, AppendProperties
  <1>3. Append(<<>>, x) = <<x>>
    OBVIOUS
  <1>4. QED
    BY <1>2, <1>3

\* The homes of the users are where it begins.
LEMMA InitInv == Init => IInv
  <1> SUFFICES ASSUME Init PROVE IInv
    OBVIOUS
  <1> DEFINE n == Cardinality(User)
  <1>1. n \in Nat /\ n <= MaxId
    BY UserAssumption, MaxIdAssumption, FS_CardinalityType
  <1>2. Homes \in [1..n -> User]
    <2>1. PICK f : f \in Bijection(1..n, User)
      BY UserAssumption, FS_CardinalityType DEF ExistsBijection
    <2>2. f \in [1..n -> User] /\ IsInjective(f)
      BY <2>1 DEF Bijection, Injection
    <2>3. QED
      BY <2>2 DEF Homes, SetToSeq
  <1> HIDE DEF n
  <1>3. /\ db.file = [i \in 1..n |-> Row(0, Homes[i], "0", "d", Homes[i])]
        /\ db.real = [m \in {} |-> 0] /\ db.next = n + 1 /\ db.up = TRUE
        /\ db = [file |-> db.file, real |-> db.real, next |-> db.next, up |-> db.up]
    BY DEF Init, n
  <1>4. DOMAIN db.file = 1..n /\ DOMAIN db.real = {}
    BY <1>3
  <1>5. ASSUME NEW i \in DOMAIN db.file PROVE Fits(db, db.file[i], db.file[i].user_id) /\ db.file[i].type = "d"
    <2>1. db.file[i] = Row(0, Homes[i], "0", "d", Homes[i]) /\ Homes[i] \in User
      BY <1>2, <1>3, <1>4
    <2>2. db.file[i] \in Rows
      BY <2>1, UserAssumption DEF Row, Rows
    <2>3. db.file[i].father_id = 0 /\ db.file[i].type = "d" /\ db.file[i].file_md5 = "0"
      BY <2>1 DEF Row
    <2>4. 0 \in -1..(db.next - 1) /\ ~Exists(db, 0)
      BY <1>1, <1>3, <1>4 DEF Exists
    <2>5. QED
      BY <2>2, <2>3, <2>4 DEF Fits
  <1>6. Sound(db)
    <2>1. db.next \in Nat \ {0} /\ db.up \in BOOLEAN /\ DOMAIN db.file \subseteq 1..(db.next - 1)
      <3>1. db.next = n + 1 /\ db.up = TRUE /\ DOMAIN db.file = 1..n
        BY <1>3, <1>4
      <3>2. n + 1 \in Nat \ {0} /\ (n + 1) - 1 = n
        BY <1>1
      <3>3. QED
        BY <3>1, <3>2
    <2>2. db.file = [i \in DOMAIN db.file |-> db.file[i]] /\ db.real = [m \in DOMAIN db.real |-> db.real[m]]
      BY <1>3
    <2>3. QED
      BY <1>3, <1>4, <1>5, <2>1, <2>2 DEF Sound
  <1>7. Within(db)
    BY <1>4 DEF Within
  <1>8. Exact(db)
    <2>1. \A m : Files(db, m) = {}
      BY <1>5 DEF Files
    <2>2. QED
      BY <1>4, <2>1, FS_EmptySet DEF Exact, Count
  <1>9. db.next <= MaxId + 1
    BY <1>1, <1>3, MaxIdAssumption
  <1>10. pwd \in [User -> Seq(STRING)] /\ whole \subseteq Md5
    <2>1. ASSUME NEW u \in User PROVE <<u>> \in Seq(STRING)
      <3>1. u \in STRING
        BY UserAssumption
      <3>2. QED
        BY <3>1, Single
    <2>2. QED
      BY <2>1 DEF Init
  <1>11. user_id \in [Session -> User \union {NoUser}] /\ father_id \in [Session -> Int]
         /\ \A s \in Session : father_id[s] = 0
    BY DEF Init
  <1>12. \A s \in Session : Resolved(db, user_id[s], father_id[s])
    BY <1>6, <1>11, NoDir
  <1>13. QED
    BY <1>6, <1>7, <1>8, <1>9, <1>10, <1>11, <1>12 DEF IInv

\* A step that serves a session keeps the invariant.
LEMMA ServesKeeps ==
  ASSUME NEW s \in Session, IInv, Serves(s)
  PROVE  IInv'
  <1>1. CASE db' = db
    BY <1>1 DEF IInv, Serves
  <1>2. CASE user_id[s] \in User /\ Served(user_id[s], db, db', selfCopied') /\ db'.next <= MaxId + 1
    <2>1. Kept(user_id[s], db, db') /\ Sound(db')
      BY <1>2 DEF Served, Kept
    <2>2. \A r \in Session : Resolved(db', user_id'[r], father_id'[r])
      BY <2>1, ResolvedKept DEF Serves, IInv
    <2>3. db'.up => Within(db')
      BY <1>2 DEF Served, Serves, IInv
    <2>4. db'.up /\ ~selfCopied' => Exact(db')
      BY <1>2 DEF Served, Serves, IInv
    <2>5. /\ pwd' \in [User -> Seq(STRING)] /\ whole' \subseteq Md5
          /\ user_id' \in [Session -> User \union {NoUser}] /\ father_id' \in [Session -> Int]
      BY DEF Serves
    <2>6. QED
      BY <1>2, <2>1, <2>2, <2>3, <2>4, <2>5 DEF IInv
  <1>3. QED
    BY <1>1, <1>2 DEF Serves

\* A command of a session that is logged in, on a path.
LEMMA AtWork ==
  ASSUME IInv, NEW s \in Session, user_id[s] # NoUser
  PROVE  user_id[s] \in User /\ pwd[user_id[s]] \in Seq(STRING)
  BY DEF IInv

LEMMA PathIn == ASSUME NEW p \in Path PROVE p \in Paths
  BY PathAssumption DEF Paths

\* The sessions stay as they are.
LEMMA Unmoved ==
  ASSUME IInv, NEW s \in Session, db.up, user_id[s] # NoUser, ~selfCopied' => ~selfCopied,
         Served(user_id[s], db, db', selfCopied'), db'.next <= MaxId + 1,
         whole' \subseteq Md5, UNCHANGED <<pwd, user_id, father_id>>
  PROVE  Serves(s)
  <1>1. user_id[s] \in User
    BY AtWork
  <1>2. QED
    BY <1>1 DEF IInv, Serves

\* The commands, one by one.
LEMMA MkdirServes ==
  ASSUME IInv, NEW s \in Session, NEW p \in Path, Mkdir(s, p)
  PROVE  Serves(s)
  <1>1. user_id[s] \in User /\ pwd[user_id[s]] \in Seq(STRING) /\ p \in Paths
    BY AtWork, PathIn DEF Mkdir, Ready
  <1>2. db' = makedir(db, user_id[s], pwd[user_id[s]], p).db /\ db'.next <= MaxId + 1 /\ p.parts # <<>>
    BY DEF Mkdir, Commit
  <1>3. Done(user_id[s], db, db')
    BY <1>1, <1>2, MakedirDone DEF IInv
  <1>4. Served(user_id[s], db, db', selfCopied')
    BY <1>3, DoneServed
  <1>5. QED
    BY <1>2, <1>4, Unmoved DEF Mkdir, Ready, IInv

LEMMA RmServes ==
  ASSUME IInv, NEW s \in Session, NEW p \in Path, Rm(s, p)
  PROVE  Serves(s)
  <1>1. user_id[s] \in User /\ pwd[user_id[s]] \in Seq(STRING) /\ p \in Paths
    BY AtWork, PathIn DEF Rm, Ready
  <1>2. db' = rm(db, user_id[s], pwd[user_id[s]], p).db /\ db'.next <= MaxId + 1
    BY DEF Rm, Commit
  <1>3. Served(user_id[s], db, db', selfCopied')
    BY <1>1, <1>2, RmServed DEF IInv
  <1>4. QED
    BY <1>2, <1>3, Unmoved DEF Rm, Ready, IInv

LEMMA MvServes ==
  ASSUME IInv, NEW s \in Session, NEW p \in Path, NEW q \in Path, Mv(s, p, q)
  PROVE  Serves(s)
  <1>1. user_id[s] \in User /\ pwd[user_id[s]] \in Seq(STRING) /\ p \in Paths /\ q \in Paths
    BY AtWork, PathIn DEF Mv, Ready
  <1>2. db' = mv(db, user_id[s], pwd[user_id[s]], p, q).db /\ db'.next <= MaxId + 1
    BY DEF Mv, Commit
  <1>3. Done(user_id[s], db, db')
    BY <1>1, <1>2, MvDone DEF IInv
  <1>4. Served(user_id[s], db, db', selfCopied')
    BY <1>3, DoneServed
  <1>5. QED
    BY <1>2, <1>4, Unmoved DEF Mv, Ready, IInv

LEMMA CpServes ==
  ASSUME IInv, NEW s \in Session, NEW p \in Path, NEW q \in Path, NEW stray \in BOOLEAN, Cp(s, p, q, stray)
  PROVE  Serves(s)
  <1> DEFINE u == user_id[s]
             self == SelfCopy(u, p, q)
  <1>1. u \in User /\ pwd[u] \in Seq(STRING) /\ p \in Paths /\ q \in Paths
    BY AtWork, PathIn DEF Cp, Ready
  <1>2. db' = cp(db, u, pwd[u], p, q, stray).db /\ db'.next <= MaxId + 1 /\ selfCopied' = (selfCopied \/ self)
    BY DEF Cp, Commit
  <1>3. self <=> /\ getFileId(db, u, getPath(pwd[u], p)) = getFileId(db, u, getPath(pwd[u], q))
                 /\ getFileTypeFromId(db, getFileId(db, u, getPath(pwd[u], p))) = "f"
    BY DEF SelfCopy
  <1> HIDE DEF self
  <1>4. Served(u, db, db', /\ getFileId(db, u, getPath(pwd[u], p)) = getFileId(db, u, getPath(pwd[u], q))
                           /\ getFileTypeFromId(db, getFileId(db, u, getPath(pwd[u], p))) = "f")
    BY <1>1, <1>2, CpServed DEF IInv
  <1>5. Served(u, db, db', selfCopied')
    BY <1>2, <1>3, <1>4 DEF Served
  <1>6. QED
    BY <1>2, <1>5, Unmoved DEF Cp, Ready, IInv

\* The new row of an upload.
LEMMA UploadFits ==
  ASSUME IInv, NEW s \in Session, user_id[s] # NoUser, NEW name \in Name, NEW m \in Md5
  PROVE  LET row == Row(father_id[s], name, m, "f", user_id[s])
         IN Fits(db, row, user_id[s]) /\ row.type = "f" /\ row.file_md5 = m
  <1> DEFINE row == Row(father_id[s], name, m, "f", user_id[s])
  <1>1. user_id[s] \in User /\ name \in STRING
    BY AtWork, NameAssumption
  <1>2. Fits(db, row, user_id[s])
    BY <1>1, RowFits DEF IInv
  <1>3. QED
    BY <1>2 DEF Row

LEMMA UploadInstantServes ==
  ASSUME IInv, NEW s \in Session, NEW name \in Name, NEW m \in Md5, UploadInstant(s, name, m)
  PROVE  Serves(s)
  <1> DEFINE row == Row(father_id[s], name, m, "f", user_id[s])
  <1>1. Fits(db, row, user_id[s]) /\ row.type = "f" /\ row.file_md5 = m
    BY UploadFits DEF UploadInstant, Ready
  <1>2. /\ db' = addcountfrommad5(Insert(db, row), m) /\ db'.next <= MaxId + 1 /\ m \in DOMAIN db.real
    BY DEF UploadInstant, Commit, UploadRow
  <1> HIDE DEF row
  <1>3. Done(user_id[s], db, addcountfrommad5(Insert(db, row), row.file_md5))
    BY <1>1, <1>2, InsertFile DEF IInv
  <1>4. Served(user_id[s], db, db', selfCopied')
    BY <1>1, <1>2, <1>3, DoneServed
  <1>5. QED
    BY <1>2, <1>4, Unmoved DEF UploadInstant, Ready, IInv

\* What a transfer records has its row and its count at once.
LEMMA RecordedServed ==
  ASSUME IInv, NEW s \in Session, user_id[s] # NoUser, NEW name \in Name, NEW m \in Md5, NEW self
  PROVE  Served(user_id[s], db, Recorded(s, name, m), self)
  <1> DEFINE row == Row(father_id[s], name, m, "f", user_id[s])
             e == Recorded(s, name, m)
  <1>1. Fits(db, row, user_id[s]) /\ row.type = "f" /\ row.file_md5 = m /\ Sound(db)
    BY UploadFits DEF IInv
  <1>2. CASE m \in DOMAIN db.real
    <2>1. e = db
      BY <1>2 DEF Recorded
    <2>2. QED
      BY <1>1, <2>1, DoneSame, DoneServed
  <1>3. CASE m \notin DOMAIN db.real
    <2> HIDE DEF row
    <2>1. Insert(db, row).real = db.real
      BY <1>1, InsertGrown
    <2>2. e = [Insert(db, row) EXCEPT !.real = [c \in DOMAIN db.real \union {m} |-> IF c = m THEN 1 ELSE db.real[c]]]
      BY <1>3, <2>1 DEF Recorded, UploadRow, row
    <2> HIDE DEF e
    <2>3. e = [Insert(db, row) EXCEPT !.real = [c \in DOMAIN db.real \union {row.file_md5} |->
                                                  IF c = row.file_md5 THEN 1 ELSE db.real[c]]]
      BY <1>1, <2>2
    <2>4. Done(user_id[s], db, e)
      BY <1>1, <1>3, <2>3, RecordDone
    <2>5. QED
      BY <2>4, DoneServed DEF e
  <1>4. QED
    BY <1>2, <1>3

LEMMA UploadServes ==
  ASSUME IInv, NEW s \in Session, NEW name \in Name, NEW m \in Md5, Upload(s, name, m)
  PROVE  Serves(s)
  <1>1. db' = Recorded(s, name, m) /\ db'.next <= MaxId + 1 /\ user_id[s] # NoUser /\ db.up
    BY DEF Upload, Commit, Ready
  <1>2. Served(user_id[s], db, db', selfCopied')
    BY <1>1, RecordedServed
  <1>3. QED
    BY <1>1, <1>2, Unmoved DEF Upload, IInv

\* A session is over.
LEMMA Left ==
  ASSUME IInv, NEW s \in Session,
         user_id' = [user_id EXCEPT ![s] = NoUser], father_id' = [father_id EXCEPT ![s] = 0]
  PROVE  /\ user_id' \in [Session -> User \union {NoUser}] /\ father_id' \in [Session -> Int]
         /\ \A r \in Session : Resolved(db, user_id'[r], father_id'[r])
  <1>1. Resolved(db, NoUser, 0)
    BY NoDir DEF IInv
  <1>2. QED
    BY <1>1 DEF IInv

LEMMA UploadCutServes ==
  ASSUME IInv, NEW s \in Session, NEW name \in Name, NEW m \in Md5, UploadCut(s, name, m)
  PROVE  Serves(s)
  <1>1. db' = Recorded(s, name, m) /\ db'.next <= MaxId + 1 /\ user_id[s] # NoUser /\ db.up
    BY DEF UploadCut, Commit, Ready
  <1>2. Served(user_id[s], db, db', selfCopied')
    BY <1>1, RecordedServed
  <1>3. /\ user_id' \in [Session -> User \union {NoUser}] /\ father_id' \in [Session -> Int]
        /\ \A r \in Session : Resolved(db, user_id'[r], father_id'[r])
    BY Left DEF UploadCut
  <1>4. user_id[s] \in User
    BY <1>1, AtWork
  <1>5. UNCHANGED <<pwd, whole, selfCopied>>
    BY DEF UploadCut
  <1>6. QED
    BY <1>1, <1>2, <1>3, <1>4, <1>5 DEF Serves, IInv

LEMMA LeaveServes ==
  ASSUME IInv, NEW s \in Session, Leave(s)
  PROVE  Serves(s)
  <1>1. /\ user_id' \in [Session -> User \union {NoUser}] /\ father_id' \in [Session -> Int]
        /\ \A r \in Session : Resolved(db, user_id'[r], father_id'[r])
    BY Left DEF Leave
  <1>2. QED
    BY <1>1 DEF Leave, Serves, IInv

\* The cached id is looked up anew.
LEMMA Cached ==
  ASSUME IInv, NEW s \in Session, NEW u \in User, NEW dir \in [User -> Seq(STRING)],
         user_id' = [user_id EXCEPT ![s] = u], father_id' = [father_id EXCEPT ![s] = PwdId(db, dir, u)]
  PROVE  /\ user_id' \in [Session -> User \union {NoUser}] /\ father_id' \in [Session -> Int]
         /\ \A r \in Session : Resolved(db, user_id'[r], father_id'[r])
  <1>1. Resolved(db, u, PwdId(db, dir, u))
    BY PathResolved DEF PwdId, IInv
  <1>2. PwdId(db, dir, u) \in Int
    BY <1>1 DEF Resolved, IInv, Sound
  <1>3. QED
    BY <1>1, <1>2 DEF IInv

LEMMA LoginServes ==
  ASSUME IInv, NEW s \in Session, NEW u \in User, Login(s, u)
  PROVE  Serves(s) /\ pwd' = [pwd EXCEPT ![u] = <<u>>]
  <1>1. pwd' = [pwd EXCEPT ![u] = <<u>>] /\ pwd' \in [User -> Seq(STRING)]
    <2>1. u \in STRING
      BY UserAssumption
    <2>2. <<u>> \in Seq(STRING)
      BY <2>1, Single
    <2>3. QED
      BY <2>2 DEF Login, IInv
  <1>2. user_id' = [user_id EXCEPT ![s] = u] /\ father_id' = [father_id EXCEPT ![s] = PwdId(db, pwd', u)]
    BY DEF Login
  <1>3. /\ user_id' \in [Session -> User \union {NoUser}] /\ father_id' \in [Session -> Int]
        /\ \A r \in Session : Resolved(db, user_id'[r], father_id'[r])
    BY <1>1, <1>2, Cached
  <1>4. QED
    BY <1>1, <1>3 DEF Login, Serves, IInv

LEMMA SameUser ==
  ASSUME IInv, NEW s \in Session
  PROVE  user_id = [user_id EXCEPT ![s] = user_id[s]]
  BY DEF IInv

LEMMA PwdServes ==
  ASSUME IInv, NEW s \in Session, Pwd(s)
  PROVE  Serves(s)
  <1>1. user_id[s] \in User /\ pwd \in [User -> Seq(STRING)]
    BY AtWork DEF Pwd, Ready, IInv
  <1>2. user_id' = [user_id EXCEPT ![s] = user_id[s]]
        /\ father_id' = [father_id EXCEPT ![s] = PwdId(db, pwd, user_id[s])]
    BY SameUser DEF Pwd
  <1>3. /\ user_id' \in [Session -> User \union {NoUser}] /\ father_id' \in [Session -> Int]
        /\ \A r \in Session : Resolved(db, user_id'[r], father_id'[r])
    BY <1>1, <1>2, Cached
  <1>4. QED
    BY <1>3 DEF Pwd, Ready, Serves, IInv

\* cd stores a path of plain names that leads to a row.
LEMMA ChangeDirPlain ==
  ASSUME NEW d, Sound(d), NEW u, NEW dir \in Seq(STRING), NEW path \in Paths, changeDir(d, u, dir, path).ret # -1
  PROVE  changeDir(d, u, dir, path).pwd \in Seq(Plain) \ {<<>>}
  <1> DEFINE new == Normal(getPath(dir, path))
             id == getFileId(d, u, new)
  <1>1. new \in Seq(Plain)
    BY GetPath, NormalPlain
  <1>2. /\ id # -1 /\ getFileTypeFromId(d, id) = "d" => changeDir(d, u, dir, path) = [pwd |-> new, ret |-> id]
        /\ ~(id # -1 /\ getFileTypeFromId(d, id) = "d") => changeDir(d, u, dir, path) = [pwd |-> dir, ret |-> -1]
    BY DEF changeDir
  <1> HIDE DEF id, new
  <1>3. getFileTypeFromId(d, id) = "d" /\ changeDir(d, u, dir, path).pwd = new
    BY <1>2
  <1>4. new # <<>>
    BY <1>3, RootPath DEF id
  <1>5. QED
    BY <1>1, <1>3, <1>4

LEMMA CdServes ==
  ASSUME IInv, NEW s \in Session, NEW p \in Path, Cd(s, p)
  PROVE  /\ Serves(s) /\ user_id[s] \in User
         /\ \E dir \in Seq(Plain) \ {<<>>} : pwd' = [pwd EXCEPT ![user_id[s]] = dir]
  <1> DEFINE u == user_id[s]
             moved == changeDir(db, u, pwd[u], p)
  <1>1. u \in User /\ pwd[u] \in Seq(STRING) /\ p \in Paths
    BY AtWork, PathIn DEF Cd, Ready
  <1>2. moved.ret # -1 /\ pwd' = [pwd EXCEPT ![u] = moved.pwd]
        /\ father_id' = [father_id EXCEPT ![s] = PwdId(db, pwd', u)]
        /\ user_id' = [user_id EXCEPT ![s] = u]
    BY SameUser DEF Cd
  <1>3. moved.pwd \in Seq(Plain) \ {<<>>}
    BY <1>1, <1>2, ChangeDirPlain DEF IInv
  <1> HIDE DEF moved
  <1>4. moved.pwd \in Seq(STRING)
    BY <1>3, PlainIn
  <1>5. pwd' \in [User -> Seq(STRING)]
    BY <1>1, <1>2, <1>4 DEF IInv
  <1>6. /\ user_id' \in [Session -> User \union {NoUser}] /\ father_id' \in [Session -> Int]
        /\ \A r \in Session : Resolved(db, user_id'[r], father_id'[r])
    BY <1>1, <1>2, <1>5, Cached
  <1>7. Serves(s)
    BY <1>5, <1>6 DEF Cd, Ready, Serves, IInv
  <1>8. QED
    BY <1>1, <1>2, <1>3, <1>7

\* Somebody is served.
LEMMA SomeUser ==
  ASSUME IInv, Next
  PROVE  User # {}
  <1>1. PICK s \in Session : user_id[s] # NoUser \/ \E u \in User : Login(s, u)
    BY DEF Next, Leave, Pwd, Mkdir, Rm, Cd, Mv, Cp, UploadInstant, Upload, UploadCut, Ready
  <1>2. QED
    BY <1>1, AtWork

\* Every step serves a session.
LEMMA NextServes ==
  ASSUME IInv, Next
  PROVE  \E s \in Session : Serves(s)
  <1>1. PICK s \in Session :
          \/ \E u \in User : Login(s, u)
          \/ Leave(s)
          \/ Pwd(s)
          \/ \E p \in Path : Mkdir(s, p)
          \/ \E p \in Path : Rm(s, p)
          \/ \E p \in Path : Cd(s, p)
          \/ \E p, q \in Path : Mv(s, p, q)
          \/ \E p, q \in Path : \E stray \in BOOLEAN : Cp(s, p, q, stray)
          \/ \E name \in Name, m \in Md5 : UploadInstant(s, name, m)
          \/ \E name \in Name, m \in Md5 : Upload(s, name, m)
          \/ \E name \in Name, m \in Md5 : UploadCut(s, name, m)
    BY DEF Next
  <1>2. CASE \E u \in User : Login(s, u)
    BY <1>2, LoginServes
  <1>3. CASE Leave(s)
    BY <1>3, LeaveServes
  <1>4. CASE Pwd(s)
    BY <1>4, PwdServes
  <1>5. CASE \E p \in Path : Mkdir(s, p)
    BY <1>5, MkdirServes
  <1>6. CASE \E p \in Path : Rm(s, p)
    BY <1>6, RmServes
  <1>7. CASE \E p \in Path : Cd(s, p)
    BY <1>7, CdServes
  <1>8. CASE \E p, q \in Path : Mv(s, p, q)
    BY <1>8, MvServes
  <1>9. CASE \E p, q \in Path : \E stray \in BOOLEAN : Cp(s, p, q, stray)
    BY <1>9, CpServes
  <1>10. CASE \E name \in Name, m \in Md5 : UploadInstant(s, name, m)
    BY <1>10, UploadInstantServes
  <1>11. CASE \E name \in Name, m \in Md5 : Upload(s, name, m)
    BY <1>11, UploadServes
  <1>12. CASE \E name \in Name, m \in Md5 : UploadCut(s, name, m)
    BY <1>12, UploadCutServes
  <1>13. QED
    BY <1>1, <1>2, <1>3, <1>4, <1>5, <1>6, <1>7, <1>8, <1>9, <1>10, <1>11, <1>12

-----------------------------------------------------------------------------
(* What holds of every behaviour.                                          *)

\* IInv holds whatever commands the sessions of the users give, in whatever
\* order: one row at a time, a command of one user keeps the rows of the
\* others, and the counts follow the rows.
THEOREM Invariance == Spec => []IInv
  <1>1. Init => IInv
    BY InitInv
  <1>2. IInv /\ [Next]_vars => IInv'
    <2> SUFFICES ASSUME IInv, [Next]_vars PROVE IInv'
      OBVIOUS
    <2>1. CASE Next
      BY <2>1, NextServes, ServesKeeps
    <2>2. CASE UNCHANGED vars
      BY <2>2 DEF vars, IInv
    <2>3. QED
      BY <2>1, <2>2
  <1>3. QED
    BY <1>1, <1>2, PTL DEF Spec

\* getFileId: no path leads a user to a row of somebody else, though ".." is
\* followed without looking at the owner.
THEOREM PathsLeadToOwn == Spec => []ResolvesToOwn
  <1>1. IInv => ResolvesToOwn
    <2> SUFFICES ASSUME IInv, NEW u \in User, NEW p \in Path, Exists(db, Resolve(u, p))
                 PROVE  db.file[Resolve(u, p)].user_id = u
      BY DEF ResolvesToOwn
    <2>1. getPath(pwd[u], p) \in Seq(STRING)
      BY PathIn, GetPath DEF IInv
    <2>2. Resolved(db, u, Resolve(u, p))
      BY <2>1, PathResolved DEF Resolve, IInv
    <2>3. QED
      BY <2>2 DEF Resolved
  <1>2. QED
    BY <1>1, Invariance, PTL

\* CmdAnalyse: the directory id a session has cached for its uploads, stale as
\* it may be, is never the id of somebody else's row.
THEOREM CachedIdIsOwn == Spec => []CachedDirIsOwn
  <1>1. IInv => CachedDirIsOwn
    BY DEF IInv, CachedDirIsOwn, Resolved
  <1>2. QED
    BY <1>1, Invariance, PTL

\* addcountfrommad5, delcountfrommd5: whatever is copied over whatever,
\* file_real counts at least 1 and at most the rows of a content.
THEOREM NoCountAboveRows == Spec => []CountsWithinRows
  <1>1. IInv => CountsWithinRows
    BY DEF IInv, CountsWithinRows, Within
  <1>2. QED
    BY <1>1, Invariance, PTL

\* The counts of file_real are exact until a file is copied over itself,
\* whatever trees rm and cp have walked through.
THEOREM CountsAreExact == Spec => []CountsExact
  <1>1. IInv => CountsExact
    BY DEF IInv, CountsExact, Exact, Count
  <1>2. QED
    BY <1>1, Invariance, PTL

\* A command changes, adds and removes rows of its own user only.
THEOREM CommandsKeepToOwnRows == Spec => OwnRowsOnly
  <1> DEFINE Own(u, i) ==
               \/ i \in DOMAIN db.file /\ i \in DOMAIN db'.file /\ db'.file[i] = db.file[i]
               \/ /\ \E s \in Session : user_id[s] = u
                  /\ i \in DOMAIN db.file => db.file[i].user_id = u
                  /\ i \in DOMAIN db'.file => db'.file[i].user_id = u
             Owned == \E u \in User : \A i \in DOMAIN db.file \union DOMAIN db'.file : Own(u, i)
  <1>1. ASSUME IInv, Next PROVE Owned
    <2>1. PICK s \in Session : Serves(s)
      BY <1>1, NextServes
    <2>2. CASE db' = db
      <3>1. PICK u : u \in User
        BY <1>1, SomeUser
      <3>2. QED
        BY <2>2, <3>1
    <2>3. CASE user_id[s] \in User /\ Served(user_id[s], db, db', selfCopied')
      <3>1. Kept(user_id[s], db, db')
        BY <2>3 DEF Served
      <3>2. ASSUME NEW i \in DOMAIN db.file \union DOMAIN db'.file PROVE Own(user_id[s], i)
        BY <3>1 DEF Kept
      <3>3. QED
        BY <2>3, <3>2
    <2>4. QED
      BY <2>1, <2>2, <2>3 DEF Serves
  <1>2. IInv /\ [Next]_vars => [Owned]_vars
    BY <1>1
  <1>3. QED
    BY <1>2, Invariance, PTL DEF Spec, OwnRowsOnly

\* rmDirFunc, digui: a directory that is removed takes its rows along, until a
\* file is copied over itself or the server is gone.
THEOREM NothingIsLeftBelow == Spec => DirGoesWithItsRows
  <1> DEFINE Gone == db'.up /\ ~selfCopied' =>
               \A i \in DOMAIN db'.file : LET up == db'.file[i].father_id
                 IN up \in DOMAIN db.file \ DOMAIN db'.file => db.file[up].type = "f"
  <1>1. ASSUME IInv, Next PROVE Gone
    <2>1. PICK s \in Session : Serves(s)
      BY <1>1, NextServes
    <2>2. CASE db' = db
      BY <2>2
    <2>3. CASE Served(user_id[s], db, db', selfCopied')
      <3> SUFFICES ASSUME db'.up, ~selfCopied' PROVE Taken(db, db')
        BY DEF Taken, Lost
      <3>1. Exact(db)
        BY <1>1, <2>1 DEF Serves, IInv
      <3>2. QED
        BY <2>3, <3>1 DEF Served
    <2>4. QED
      BY <2>1, <2>2, <2>3 DEF Serves
  <1>2. IInv /\ [Next]_vars => [Gone]_vars
    BY <1>1
  <1>3. QED
    BY <1>2, Invariance, PTL DEF Spec, DirGoesWithItsRows

-----------------------------------------------------------------------------
(* Types.  A login makes the user's name the working directory: it is a    *)
(* plain name unless the user is called "." or "..".                       *)

PlainUsers == {".", ".."} \intersect User = {}

PlainPwd == pwd \in [User -> Seq(Plain) \ {<<>>}]

\* The home of a user has a plain name.
LEMMA HomePlain ==
  ASSUME PlainUsers, NEW u \in User
  PROVE  <<u>> \in Seq(Plain) \ {<<>>}
  <1>1. u \in Plain
    BY UserAssumption DEF Plain, PlainUsers
  <1>2. <<u>> \in Seq(Plain)
    BY <1>1, Single
  <1>3. <<u>> # <<>>
    OBVIOUS
  <1>4. QED
    BY <1>2, <1>3

\* Only a login and cd set a working directory.
LEMMA PlainPwdKept ==
  ASSUME PlainUsers, IInv, PlainPwd, Next
  PROVE  PlainPwd'
  <1>1. PICK s \in Session :
          \/ UNCHANGED pwd
          \/ \E u \in User : Login(s, u)
          \/ \E p \in Path : Cd(s, p)
    BY DEF Next, Leave, Pwd, Mkdir, Rm, Mv, Cp, UploadInstant, Upload, UploadCut
  <1>2. CASE UNCHANGED pwd
    BY <1>2 DEF PlainPwd
  <1>3. ASSUME NEW u \in User, Login(s, u) PROVE PlainPwd'
    <2>1. pwd' = [pwd EXCEPT ![u] = <<u>>] /\ <<u>> \in Seq(Plain) \ {<<>>}
      BY <1>3, LoginServes, HomePlain
    <2>2. QED
      BY <2>1 DEF PlainPwd
  <1>4. ASSUME NEW p \in Path, Cd(s, p) PROVE PlainPwd'
    <2>1. PICK dir \in Seq(Plain) \ {<<>>} : pwd' = [pwd EXCEPT ![user_id[s]] = dir]
      BY <1>4, CdServes
    <2>2. QED
      BY <2>1 DEF PlainPwd
  <1>5. QED
    BY <1>1, <1>2, <1>3, <1>4

\* The types follow from the invariant.
LEMMA TypeInv ==
  ASSUME IInv, PlainPwd
  PROVE  TypeOK
  <1>1. db.next \in Nat \ {0} /\ MaxId \in Nat /\ db.next <= MaxId + 1
    BY MaxIdAssumption DEF IInv, Sound
  <1>2. 1..(db.next - 1) \subseteq 1..MaxId /\ -1..(db.next - 1) \subseteq IdOrNone
    BY <1>1 DEF IdOrNone
  <1>3. DOMAIN db.file \subseteq 1..MaxId /\ DOMAIN db.real \subseteq Md5
    BY <1>2 DEF IInv, Sound
  <1>4. ASSUME NEW i \in DOMAIN db.file
        PROVE  /\ db.file[i].father_id \in IdOrNone
               /\ db.file[i].type \in {"d", "f"}
               /\ db.file[i].user_id \in User
               /\ db.file[i].type = "f" => db.file[i].file_md5 \in Md5
    <2>1. Fits(db, db.file[i], db.file[i].user_id)
      BY DEF IInv, Sound
    <2>2. QED
      BY <1>2, <2>1 DEF Fits, Rows
  <1>5. ASSUME NEW u \in User
        PROVE  pwd[u] # <<>> /\ {".", ".."} \intersect {pwd[u][i] : i \in DOMAIN pwd[u]} = {}
    <2>1. pwd[u] \in Seq(Plain) /\ pwd[u] # <<>>
      BY DEF PlainPwd
    <2>2. \A i \in DOMAIN pwd[u] : pwd[u][i] \notin {".", ".."}
      BY <2>1, PlainIn
    <2>3. QED
      BY <2>1, <2>2
  <1>6. father_id \in [Session -> IdOrNone]
    BY <1>2 DEF IInv, Resolved
  <1>7. QED
    BY <1>3, <1>4, <1>5, <1>6 DEF TypeOK, IInv

\* The tables, the working directories and the ids a session keeps have their
\* types, and no working directory is empty or has "." or ".." in it: changeDir
\* stores the path that it normalised, a login the home of the user.
THEOREM Types == PlainUsers /\ Spec => []TypeOK
  <1>1. PlainUsers /\ Init => PlainPwd
    BY HomePlain DEF Init, PlainPwd
  <1>2. PlainUsers /\ IInv /\ PlainPwd /\ [Next]_vars => PlainPwd'
    BY PlainPwdKept DEF vars, PlainPwd
  <1>3. IInv /\ PlainPwd => TypeOK
    BY TypeInv
  <1>4. ASSUME PlainUsers PROVE Spec => []TypeOK
    <2>1. Init => PlainPwd
      BY <1>1, <1>4
    <2>2. IInv /\ PlainPwd /\ [Next]_vars => PlainPwd'
      BY <1>2, <1>4
    <2>3. QED
      BY <1>3, <2>1, <2>2, Invariance, PTL DEF Spec
  <1>5. QED
    BY <1>4
=============================================================================
