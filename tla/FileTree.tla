------------------------------ MODULE FileTree ------------------------------
(***************************************************************************)
(* The commands of the net disk as functions on the database:              *)
(* server/src/command.c and server/src/mysql_operation.c.                  *)
(*                                                                         *)
(* A database d is a record:                                               *)
(*   d.file   the table file: a row for each id in use, with the id of the *)
(*            parent row (0 for a home directory), the name, the md5 ("0"  *)
(*            for a directory), the type ("d" or "f") and the owner        *)
(*   d.real   the table file_real: how many file rows share a content      *)
(*   d.next   the next AUTO_INCREMENT id of the table file                 *)
(*   d.up     FALSE once a command dereferenced the null pointer that      *)
(*            database_operate hands out for an empty result, or recursed  *)
(*            without end; the signal ends the process                     *)
(*                                                                         *)
(* A path is a record: abs says whether its text begins with '/', parts    *)
(* are the components that myStrTok yields.  file_size, log lines and the  *)
(* texts sent to the client are left out, and so are the fixed array       *)
(* sizes (20 components, 16 and 200 children), which no instance reaches.  *)
(*                                                                         *)
(* gettypefromid writes a letter and its NUL into one char.  Where the NUL *)
(* lands is the compiler's choice: either in dead bytes, or (stray) on the *)
(* live variable next to it, which is src_type in cp and the first child   *)
(* id in digui.                                                            *)
(***************************************************************************)
EXTENDS Integers, SequencesExt

CONSTANTS Dotted   \* the names that contain a '.'

Row(father_id, name, md5, type, user_id) ==
  [father_id |-> father_id, file_name |-> name, file_md5 |-> md5,
   type |-> type, user_id |-> user_id]

Exists(d, id) == id \in DOMAIN d.file

Crash(d) == [d EXCEPT !.up = FALSE]

\* Mutant: the first free id is taken again.
Insert_ReusesIds(d, row) ==
  LET free == CHOOSE i \in 1..d.next : i \notin DOMAIN d.file /\ \A j \in 1..(i - 1) : j \in DOMAIN d.file
  IN [d EXCEPT !.file = [i \in DOMAIN @ \union {free} |-> IF i = free THEN row ELSE @[i]], !.next = @ + 1]

Insert(d, row) ==
  [d EXCEPT !.file = [i \in DOMAIN @ \union {d.next} |-> IF i = d.next THEN row ELSE @[i]], !.next = @ + 1]
Delete(d, id) == [d EXCEPT !.file = [i \in DOMAIN @ \ {id} |-> @[i]]]

Result(d, ret) == [db |-> d, ret |-> ret]

-----------------------------------------------------------------------------
(* Paths.                                                                  *)

\* The rows that a select on father_id returns.
Children(d, id) == {i \in DOMAIN d.file : d.file[i].father_id = id}

\* Mutant: no test of the owner.
getls_id_OfAnyone(d, user_id, id) == Children(d, id)

getls_id(d, user_id, id) == {i \in Children(d, id) : d.file[i].user_id = user_id}

\* The first row of several is taken, in the order of the table.
getNextFileId(d, user_id, cur, name) ==
  LET found == {i \in getls_id(d, user_id, cur) : d.file[i].file_name = name}
  IN CASE name = "."  -> cur
       [] name = ".." -> IF Exists(d, cur) THEN d.file[cur].father_id ELSE -1
       [] OTHER       -> IF found = {} THEN -1 ELSE Min(found)

\* Every component is looked up, also after one was not found.
getFileId(d, user_id, parts) ==
  LET cur[k \in 0..Len(parts)] ==
        IF k = 0 THEN 0 ELSE getNextFileId(d, user_id, cur[k - 1], parts[k])
  IN cur[Len(parts)]

getFileTypeFromId(d, id) == IF Exists(d, id) THEN d.file[id].type ELSE "none"

\* pwd is the working directory that the table user holds for the user.
getPath(pwd, path) == IF path.abs THEN path.parts ELSE pwd \o path.parts

(***************************************************************************)
(* The loop of changeDir and mv that removes "." and "..".  k counts like  *)
(* the code's k: below zero, the next name is stored in front of the array *)
(* and lost.                                                               *)
(***************************************************************************)
Normalise(acc, name) ==
  CASE name = "."  -> acc
    [] name = ".." -> [k |-> acc.k - 1, s |-> IF acc.k > 0 THEN Front(acc.s) ELSE acc.s]
    [] OTHER       -> [k |-> acc.k + 1, s |-> IF acc.k >= 0 THEN Append(acc.s, name) ELSE acc.s]

Normal(parts) ==
  LET acc[k \in 0..Len(parts)] ==
        IF k = 0 THEN [k |-> 0, s |-> <<>>] ELSE Normalise(acc[k - 1], parts[k])
  IN acc[Len(parts)].s

-----------------------------------------------------------------------------
(* The counters of file_real.                                              *)

addcountfrommad5(d, md5) ==
  IF md5 \in DOMAIN d.real THEN [d EXCEPT !.real[md5] = @ + 1] ELSE d

\* One reference less; the row goes with the last reference.
Release(d, md5) ==
  IF d.real[md5] = 1
    THEN [d EXCEPT !.real = [m \in DOMAIN @ \ {md5} |-> @[m]]]
    ELSE [d EXCEPT !.real[md5] = @ - 1]

\* Without a row, the count is read through a null pointer.
delcountfrommd5(d, md5) == IF md5 \in DOMAIN d.real THEN Release(d, md5) ELSE Crash(d)

-----------------------------------------------------------------------------
(* mkdir and rm.                                                           *)

\* The parent of a one-component path is the working directory, also after '/'.
ParentPath(pwd, path) ==
  IF Len(path.parts) = 1 THEN pwd ELSE getPath(pwd, [path EXCEPT !.parts = Front(@)])

makedir(d, user_id, pwd, path) ==
  LET id == getFileId(d, user_id, ParentPath(pwd, path))
      name == Last(path.parts)
      used == \E i \in DOMAIN d.file : d.file[i].father_id = id /\ d.file[i].file_name = name
  IN IF used THEN Result(d, -1) ELSE Result(Insert(d, Row(id, name, "0", "d", user_id)), 0)

\* A file row whose content has no row in file_real is not deleted.
rmFileFunc(d, id) ==
  IF ~Exists(d, id) THEN d
  ELSE IF d.file[id].type = "d" THEN Delete(d, id)
  ELSE IF d.file[id].file_md5 \in DOMAIN d.real
       THEN Delete(Release(d, d.file[id].file_md5), id)
       ELSE d

(***************************************************************************)
(* The recursions of rmDirFunc and digui are loops here.  todo holds the   *)
(* rows still to be visited, each with the depth of the call that has      *)
(* listed it: the deepest call goes on first, in the order of the table.   *)
(* A row is listed once, so there are no more steps than rows.             *)
(***************************************************************************)
First(todo) ==
  CHOOSE t \in todo : \A v \in todo : v.depth < t.depth \/ (v.depth = t.depth /\ t.id <= v.id)

Listed(ids, depth) == {[depth |-> depth, id |-> i] : i \in ids}

\* Mutant: the children of a subdirectory stay.
RmVisit_OneLevel(w, user_id) ==
  IF w.todo = {} THEN w
  ELSE [db |-> rmFileFunc(w.db, First(w.todo).id), todo |-> w.todo \ {First(w.todo)}]

RmVisit(w, user_id) ==
  LET t == First(w.todo)
      gone == rmFileFunc(w.db, t.id)
      below == IF getFileTypeFromId(w.db, t.id) = "d" THEN getls_id(gone, user_id, t.id) ELSE {}
  IN IF w.todo = {} THEN w
     ELSE [db |-> gone, todo |-> (w.todo \ {t}) \union Listed(below, t.depth + 1)]

rmDirFunc(d, user_id, id) ==
  LET gone == rmFileFunc(d, id)
      walk[k \in 0..d.next] ==
        IF k = 0 THEN [db |-> gone, todo |-> Listed(getls_id(gone, user_id, id), 0)]
                 ELSE RmVisit(walk[k - 1], user_id)
  IN walk[d.next].db

rm(d, user_id, pwd, path) ==
  LET id == getFileId(d, user_id, getPath(pwd, path))
  IN IF id = -1 THEN Result(d, -1)
     ELSE IF getFileTypeFromId(d, id) = "d" THEN Result(rmDirFunc(d, user_id, id), 0)
     ELSE Result(rmFileFunc(d, id), 0)

-----------------------------------------------------------------------------
(* mv.                                                                     *)

\* UPDATE of one row: it fails when there is no such row or nothing changes.
Update(d, id, row) ==
  IF ~Exists(d, id) \/ d.file[id] = row THEN Result(d, -1)
                                        ELSE Result([d EXCEPT !.file[id] = row], 0)

\* The row of src, which an UPDATE with WHERE id = src changes.
MovedRow(d, src, name, father_id) ==
  [d.file[src] EXCEPT !.file_name = name, !.father_id = father_id]

mv(d, user_id, pwd, src, dest) ==
  LET srcpath == Normal(getPath(pwd, src))
      destpath == Normal(getPath(pwd, dest))
      srcFileId == getFileId(d, user_id, getPath(pwd, src))
      destFileId == getFileId(d, user_id, getPath(pwd, dest))
      destFileType == getFileTypeFromId(d, destFileId)
      taken == getFileId(d, user_id, Append(destpath, Last(srcpath)))
      fatherid == getFileId(d, user_id, Front(destpath))
      flag == dest.abs \/ Len(dest.parts) > 1 \/ \E i \in DOMAIN dest.parts : dest.parts[i] \in Dotted
  IN CASE srcFileId = -1 \/ destFileType = "f" \/ destpath = <<>> -> Result(d, -1)
       [] ~Exists(d, srcFileId) -> Result(d, -1)
       [] OTHER ->
            IF destFileType = "d"
              THEN IF Exists(d, taken) THEN Result(d, -1)
                   ELSE Update(d, srcFileId, [d.file[srcFileId] EXCEPT !.father_id = destFileId])
              ELSE Update(d, srcFileId, MovedRow(d, srcFileId, Last(destpath),
                          IF flag THEN fatherid ELSE d.file[srcFileId].father_id))

-----------------------------------------------------------------------------
(* cp.                                                                     *)

\* id is the row top or lies below it.
Below(d, id, top) ==
  LET up[k \in 0..d.next] ==
        IF k = 0 THEN id ELSE IF Exists(d, up[k - 1]) THEN d.file[up[k - 1]].father_id ELSE up[k - 1]
  IN \E k \in 0..d.next : up[k] = top

\* The rows that are copied to rows of father_id.
ListedFor(ids, depth, father_id) == {[depth |-> depth, id |-> i, father_id |-> father_id] : i \in ids}

\* One row below the copied directory: a directory has its children listed.
CopyVisit(w, user_id, stray) ==
  LET t == First(w.todo)
      row == w.db.file[t.id]
      dir == Insert(w.db, Row(t.father_id, row.file_name, "0", "d", user_id))
      children == Children(dir, t.id)
  IN IF w.todo = {} \/ ~w.db.up THEN w
     ELSE IF row.type # "d"
          THEN [db |-> addcountfrommad5(
                         Insert(w.db, [row EXCEPT !.father_id = t.father_id, !.user_id = user_id]), row.file_md5),
                todo |-> w.todo \ {t}]
     ELSE IF stray /\ children # {} THEN [w EXCEPT !.db = Crash(dir)]
     ELSE [db |-> dir, todo |-> (w.todo \ {t}) \union ListedFor(children, t.depth + 1, w.db.next)]

CopyBelow(d, srcid, newdestid, user_id, stray) ==
  LET walk[k \in 0..newdestid] ==
        IF k = 0 THEN [db |-> d, todo |-> ListedFor(Children(d, srcid), 0, newdestid)]
                 ELSE CopyVisit(walk[k - 1], user_id, stray)
  IN walk[newdestid].db

(***************************************************************************)
(* digui copies the directory srcid to a new row of destid.  The new row   *)
(* is inserted before the children of srcid are read, so that a copy to a  *)
(* place below srcid finds itself again and never ends; the rows that such *)
(* a copy leaves behind after the first are left out.                      *)
(***************************************************************************)
digui(d, name, srcid, destid, user_id, stray) ==
  LET dir == Insert(d, Row(destid, name, "0", "d", user_id))
  IN IF ~Exists(d, srcid) THEN Crash(d)
     ELSE IF Below(d, destid, srcid) \/ (stray /\ Children(dir, srcid) # {}) THEN Crash(dir)
     ELSE CopyBelow(dir, srcid, d.next, user_id, stray)

\* Mutant: the content that is overwritten stays counted.
CopyOver_KeepsOld(d, srcid, id) ==
  LET md5 == d.file[srcid].file_md5 IN addcountfrommad5([d EXCEPT !.file[id].file_md5 = md5], md5)

\* A file over the file row id: the content of id is released, then replaced.
CopyOver(d, srcid, id) ==
  LET md5 == d.file[srcid].file_md5
      released == delcountfrommd5(d, d.file[id].file_md5)
  IN IF ~released.up THEN released
     ELSE addcountfrommad5([released EXCEPT !.file[id].file_md5 = md5], md5)

\* A file over the row id of the same name in a directory: counted up first.
CopyOverNamed(d, srcid, id) ==
  LET md5 == d.file[srcid].file_md5
      added == addcountfrommad5(d, md5)
      released == IF Exists(d, id) THEN delcountfrommd5(added, d.file[id].file_md5) ELSE Crash(added)
  IN IF ~released.up THEN released ELSE [released EXCEPT !.file[id].file_md5 = md5]

\* Mutant: the new row is not counted.
CopyNew_Uncounted(d, srcid, father_id, name, user_id) ==
  Insert(d, Row(father_id, name, d.file[srcid].file_md5, "f", user_id))

\* A file to a new row.
CopyNew(d, srcid, father_id, name, user_id) ==
  addcountfrommad5(Insert(d, Row(father_id, name, d.file[srcid].file_md5, "f", user_id)),
                   d.file[srcid].file_md5)

cp(d, user_id, pwd, src, dest, stray) ==
  LET pathdest == getPath(pwd, dest)
      srcid == getFileId(d, user_id, getPath(pwd, src))
      destid == getFileId(d, user_id, pathdest)
      src_type == getFileTypeFromId(d, srcid)
      dest_type == IF destid = -1 THEN "none" ELSE getFileTypeFromId(d, destid)
      file_name == d.file[srcid].file_name
      same == \E i \in DOMAIN d.file : d.file[i].father_id = destid /\ d.file[i].file_name = file_name
      newdestid == getFileId(d, user_id, Append(pathdest, file_name))
      father_id == getFileId(d, user_id, Front(pathdest))
  IN IF srcid = -1 THEN Result(d, -1)
     ELSE IF src_type = "none" \/ (destid # -1 /\ dest_type = "none") THEN Result(Crash(d), -1)
     ELSE IF stray /\ destid # -1 THEN Result(d, 0)
     ELSE CASE src_type = "f" /\ dest_type = "f" -> Result(CopyOver(d, srcid, destid), 0)
            [] src_type = "f" /\ dest_type = "d" /\ same -> Result(CopyOverNamed(d, srcid, newdestid), 0)
            [] src_type = "f" /\ dest_type = "d" /\ ~same ->
                 Result(CopyNew(d, srcid, destid, file_name, user_id), 0)
            [] src_type = "d" /\ dest_type = "d" ->
                 Result(digui(IF same THEN rmDirFunc(d, user_id, newdestid) ELSE d,
                              file_name, srcid, destid, user_id, stray), 0)
            [] src_type = "d" /\ dest_type = "f" -> Result(d, -1)
            [] destid = -1 /\ father_id = -1 -> Result(d, -1)
            [] src_type = "f" /\ destid = -1 /\ father_id # -1 ->
                 Result(CopyNew(d, srcid, father_id, Last(pathdest), user_id), 0)
            [] OTHER -> Result(digui(d, Last(pathdest), srcid, father_id, user_id, stray), 0)

-----------------------------------------------------------------------------
(* cd: the new working directory and its id, or the old one and -1.        *)

\* Mutant: the path is stored as it was typed.
changeDir_AsTyped(d, user_id, pwd, path) ==
  LET id == getFileId(d, user_id, getPath(pwd, path))
  IN IF id # -1 /\ getFileTypeFromId(d, id) = "d" THEN [pwd |-> getPath(pwd, path), ret |-> id]
                                                  ELSE [pwd |-> pwd, ret |-> -1]

changeDir(d, user_id, pwd, path) ==
  LET newpath == Normal(getPath(pwd, path))
      id == getFileId(d, user_id, newpath)
  IN IF id # -1 /\ getFileTypeFromId(d, id) = "d" THEN [pwd |-> newpath, ret |-> id]
                                                  ELSE [pwd |-> pwd, ret |-> -1]
=============================================================================
