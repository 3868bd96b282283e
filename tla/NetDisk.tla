------------------------------ MODULE NetDisk ------------------------------
(***************************************************************************)
(* The sessions of the net disk on one database: CmdAnalyse of             *)
(* server/src/UserFunc.c with user_upload of server/src/transFile.c.  Each *)
(* command is one step here: this module is about what sequences of        *)
(* commands of several users and sessions do to the virtual file tree and  *)
(* to the reference counts.  The working directory pwd is kept in the      *)
(* table user, shared by the sessions of a user; father_id is a copy of    *)
(* its id that each session keeps for uploads.                             *)
(***************************************************************************)
EXTENDS FileTree, FiniteSets

CONSTANTS
  User,      \* user names; a user's home directory carries the same name
  Session,   \* sessions served by the pool
  Path,      \* the paths given to the commands
  Md5,       \* contents
  Name,      \* local file names offered for upload
  Commands,  \* the commands the clients use
  MaxId,     \* bound: ids that the table file hands out
  MaxDepth,  \* bound: the length of a working directory
  NoUser     \* the user of a session that is not logged in

ASSUME UserAssumption == IsFiniteSet(User) /\ User \subseteq STRING /\ NoUser \notin User
ASSUME PathAssumption == Path \subseteq [abs : BOOLEAN, parts : Seq(STRING)]
ASSUME NameAssumption == Name \subseteq STRING
ASSUME Md5Assumption == "0" \notin Md5
ASSUME MaxIdAssumption == MaxId \in Nat /\ Cardinality(User) <= MaxId

VARIABLES
  db,         \* the tables file and file_real (FileTree)
  pwd,        \* pwd[u]: the working directory in the table user
  whole,      \* the contents of which all bytes are in ./file
  user_id,    \* user_id[s]: the user logged in, or NoUser
  father_id,  \* father_id[s]: the directory id cached by CmdAnalyse
  selfCopied  \* history: a file was copied over itself

vars == <<db, pwd, whole, user_id, father_id, selfCopied>>

Homes == SetToSeq(User)

\* Every user has signed up: a home directory each, nothing else.
Init ==
  /\ db = [file |-> [i \in 1..Cardinality(User) |-> Row(0, Homes[i], "0", "d", Homes[i])],
           real |-> [m \in {} |-> 0], next |-> Cardinality(User) + 1, up |-> TRUE]
  /\ pwd = [u \in User |-> <<u>>]
  /\ whole = {}
  /\ user_id = [s \in Session |-> NoUser]
  /\ father_id = [s \in Session |-> 0]
  /\ selfCopied = FALSE

\* getpwd: the id of the working directory of user u.
PwdId(d, dir, u) == getFileId(d, u, dir[u])

-----------------------------------------------------------------------------
\* The part common to all commands: a logged-in session of a running server.
Ready(s, command) ==
  /\ db.up
  /\ user_id[s] # NoUser
  /\ command \in Commands

\* The outcome of a command on the tables, within the bound on ids.
Commit(d) ==
  /\ d.next <= MaxId + 1
  /\ db' = d

\* A successful login resets the working directory, then CmdAnalyse begins.
Login(s, u) ==
  /\ db.up
  /\ user_id[s] = NoUser
  /\ user_id' = [user_id EXCEPT ![s] = u]
  /\ pwd' = [pwd EXCEPT ![u] = <<u>>]
  /\ father_id' = [father_id EXCEPT ![s] = PwdId(db, pwd', u)]
  /\ UNCHANGED <<db, whole, selfCopied>>

\* exit, repasswd or a closed connection.
Leave(s) ==
  /\ db.up
  /\ user_id[s] # NoUser
  /\ user_id' = [user_id EXCEPT ![s] = NoUser]
  /\ father_id' = [father_id EXCEPT ![s] = 0]
  /\ UNCHANGED <<db, pwd, whole, selfCopied>>

Mkdir(s, p) ==
  /\ Ready(s, "mkdir")
  /\ p.parts # <<>>
  /\ Commit(makedir(db, user_id[s], pwd[user_id[s]], p).db)
  /\ UNCHANGED <<pwd, whole, user_id, father_id, selfCopied>>

Rm(s, p) ==
  /\ Ready(s, "rm")
  /\ Commit(rm(db, user_id[s], pwd[user_id[s]], p).db)
  /\ UNCHANGED <<pwd, whole, user_id, father_id, selfCopied>>

Mv(s, p, q) ==
  /\ Ready(s, "mv")
  /\ Commit(mv(db, user_id[s], pwd[user_id[s]], p, q).db)
  /\ UNCHANGED <<pwd, whole, user_id, father_id, selfCopied>>

\* src and dest lead to one file row.
SelfCopy(u, p, q) ==
  LET src == getFileId(db, u, getPath(pwd[u], p))
  IN src = getFileId(db, u, getPath(pwd[u], q)) /\ getFileTypeFromId(db, src) = "f"

Cp(s, p, q, stray) ==
  /\ Ready(s, "cp")
  /\ Commit(cp(db, user_id[s], pwd[user_id[s]], p, q, stray).db)
  /\ selfCopied' = (selfCopied \/ SelfCopy(user_id[s], p, q))
  /\ UNCHANGED <<pwd, whole, user_id, father_id>>

\* After a successful cd the session caches the id of the new directory.
Cd(s, p) ==
  /\ Ready(s, "cd")
  /\ LET moved == changeDir(db, user_id[s], pwd[user_id[s]], p)
     IN /\ moved.ret # -1
        /\ Len(moved.pwd) <= MaxDepth
        /\ pwd' = [pwd EXCEPT ![user_id[s]] = moved.pwd]
        /\ father_id' = [father_id EXCEPT ![s] = PwdId(db, pwd', user_id[s])]
  /\ UNCHANGED <<db, whole, user_id, selfCopied>>

\* pwd refreshes the cached id, unless the directory does not exist.
Pwd(s) ==
  /\ Ready(s, "pwd")
  /\ PwdId(db, pwd, user_id[s]) # -1
  /\ father_id' = [father_id EXCEPT ![s] = PwdId(db, pwd, user_id[s])]
  /\ UNCHANGED <<db, pwd, whole, user_id, selfCopied>>

-----------------------------------------------------------------------------
(* upload: user_upload with the transfer that follows.                     *)

\* The first row of the cached directory with the name, or 0.
NamedRow(s, name) ==
  LET rows == {i \in Children(db, father_id[s]) : db.file[i].file_name = name}
  IN IF rows = {} THEN 0 ELSE Min(rows)

\* The name is taken by a row of this user and the content is complete: refused.
Existing(s, name, m) ==
  /\ NamedRow(s, name) # 0
  /\ db.file[NamedRow(s, name)].user_id = user_id[s]
  /\ m \in whole

UploadRow(s, name, m) ==
  Insert(db, Row(father_id[s], name, m, "f", user_id[s]))

\* The whole content is there and counted: one more row, one more reference.
UploadInstant(s, name, m) ==
  /\ Ready(s, "upload")
  /\ ~Existing(s, name, m)
  /\ m \in DOMAIN db.real /\ m \in whole
  /\ Commit(addcountfrommad5(UploadRow(s, name, m), m))
  /\ UNCHANGED <<pwd, whole, user_id, father_id, selfCopied>>

\* What a transfer writes: a content with no row in file_real is recorded
\* first; a counted but incomplete content is only completed.
Recorded(s, name, m) ==
  IF m \in DOMAIN db.real THEN db
  ELSE [UploadRow(s, name, m) EXCEPT !.real = [c \in DOMAIN @ \union {m} |-> IF c = m THEN 1 ELSE @[c]]]

Upload(s, name, m) ==
  /\ Ready(s, "upload")
  /\ ~Existing(s, name, m)
  /\ m \notin DOMAIN db.real \/ m \notin whole
  /\ Commit(Recorded(s, name, m))
  /\ whole' = whole \union {m}
  /\ UNCHANGED <<pwd, user_id, father_id, selfCopied>>

\* The client disconnects during the transfer; the session is over.
UploadCut(s, name, m) ==
  /\ Ready(s, "upload")
  /\ ~Existing(s, name, m)
  /\ m \notin whole
  /\ Commit(Recorded(s, name, m))
  /\ user_id' = [user_id EXCEPT ![s] = NoUser]
  /\ father_id' = [father_id EXCEPT ![s] = 0]
  /\ UNCHANGED <<pwd, whole, selfCopied>>

-----------------------------------------------------------------------------
Next ==
  \E s \in Session :
     \/ \E u \in User : Login(s, u)
     \/ Leave(s)
     \/ Pwd(s)
     \/ \E p \in Path : Mkdir(s, p)
     \/ \E p \in Path : Rm(s, p)
     \/ \E p \in Path : Cd(s, p)
     \/ \E p, q \in Path : Mv(s, p, q)
     \/ \E p, q \in Path : \E stray \in BOOLEAN : Cp(s, p, q, stray)
     \/ \E name \in Name, m \in Md5 : UploadInstant(s, name, m)
     \/ \E name \in Name, m \in Md5 : Upload(s, name, m)
     \/ \E name \in Name, m \in Md5 : UploadCut(s, name, m)

Spec == Init /\ [][Next]_vars

-----------------------------------------------------------------------------
IdOrNone == 0..MaxId \union {-1}

\* The paths that mean something for user u now.
Resolve(u, p) == getFileId(db, u, getPath(pwd[u], p))

Files(d, m) == {i \in DOMAIN d.file : d.file[i].type = "f" /\ d.file[i].file_md5 = m}

(***************************************************************************)
(* Types.  A working directory is never empty and has no "." or "..": cd   *)
(* stores the path that it normalised.                                     *)
(***************************************************************************)
TypeOK ==
  /\ DOMAIN db.file \subseteq 1..MaxId
  /\ \A i \in DOMAIN db.file :
       /\ db.file[i].father_id \in IdOrNone
       /\ db.file[i].type \in {"d", "f"}
       /\ db.file[i].user_id \in User
       /\ db.file[i].type = "f" => db.file[i].file_md5 \in Md5
  /\ DOMAIN db.real \subseteq Md5
  /\ \A u \in User : pwd[u] # <<>> /\ {".", ".."} \intersect {pwd[u][i] : i \in DOMAIN pwd[u]} = {}
  /\ whole \subseteq Md5
  /\ user_id \in [Session -> User \union {NoUser}]
  /\ father_id \in [Session -> IdOrNone]

\* No path leads a user to a row of somebody else: names are looked up among
\* the user's rows, and ".." is followed without looking at the owner.
ResolvesToOwn ==
  \A u \in User, p \in Path :
    Exists(db, Resolve(u, p)) => db.file[Resolve(u, p)].user_id = u

\* The directory id that a session has cached for its uploads may be stale, or
\* even that of a file, but it is never the id of somebody else's row.
CachedDirIsOwn ==
  \A s \in Session : Exists(db, father_id[s]) => db.file[father_id[s]].user_id = user_id[s]

\* file_real never counts more rows than there are, whatever was copied over
\* whatever: a content that no row names is not counted any more.
CountsWithinRows ==
  db.up => \A m \in DOMAIN db.real : db.real[m] \in 1..Cardinality(Files(db, m))

\* Until a file is copied over itself, the counts are exact.
CountsExact ==
  db.up /\ ~selfCopied =>
    \A m \in Md5 : Cardinality(Files(db, m)) = IF m \in DOMAIN db.real THEN db.real[m] ELSE 0

\* A step of one session changes, adds and removes rows of its user only.
OwnRowsOnly ==
  [][\E u \in User : \A i \in DOMAIN db.file \union DOMAIN db'.file :
       \/ i \in DOMAIN db.file /\ i \in DOMAIN db'.file /\ db'.file[i] = db.file[i]
       \/ /\ \E s \in Session : user_id[s] = u
          /\ i \in DOMAIN db.file => db.file[i].user_id = u
          /\ i \in DOMAIN db'.file => db'.file[i].user_id = u]_vars

\* A directory that rm or cp removes takes its rows along.
DirGoesWithItsRows ==
  [][db'.up /\ ~selfCopied' =>
       \A i \in DOMAIN db'.file : LET up == db'.file[i].father_id
         IN up \in DOMAIN db.file \ DOMAIN db'.file => db.file[up].type = "f"]_vars
=============================================================================
