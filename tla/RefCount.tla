------------------------------ MODULE RefCount ------------------------------
(***************************************************************************)
(* The commands that keep the tables file and file_real together, one SQL  *)
(* statement a step: rmFileFunc, rmDirFunc and cp of                       *)
(* server/src/command.c, digui and the two counters of                     *)
(* server/src/mysql_operation.c, and user_upload of                        *)
(* server/src/transFile.c.  Nothing makes the statements of a command      *)
(* atomic: the sessions are interleaved between them, and the server may   *)
(* end between them.  Paths are resolved already (NetDisk): a command      *)
(* starts with the ids of rows of its user.  Selects of one row that       *)
(* follow each other are one step; a row that is missing for one of them   *)
(* is a null pointer, whichever it is.                                     *)
(***************************************************************************)
EXTENDS Integers, FiniteSets

CONSTANTS
  Session,   \* sessions served by the pool
  User,      \* users
  UserOf,    \* UserOf[s]: the user logged in on session s
  Md5,       \* contents
  NoMd5,     \* what a directory has for its md5
  Commands,  \* the commands the clients use
  MaxId,     \* bound: ids that the table file hands out
  MaxExits   \* bound: how often the server ends

ASSUME UserOfAssumption == UserOf \in [Session -> User]
ASSUME Md5Assumption == NoMd5 \notin Md5
ASSUME MaxIdAssumption == MaxId \in Nat
ASSUME MaxExitsAssumption == MaxExits \in Nat
ASSUME SessionAssumption == IsFiniteSet(Session)

VARIABLES
  file,     \* the rows of the table file by id, without names and sizes
  next,     \* the next id of its AUTO_INCREMENT
  real,     \* the table file_real: md5 to file_count
  whole,    \* the contents of which all bytes are in ./file
  my,       \* my[s]: the local variables of the command of session s
  exits,    \* how often the server has ended
  leaked,   \* history: references counted for rows that an exit prevented
  spoiled,  \* history: contents whose counting was disturbed
  raced     \* history: users whose copy of a directory took a row of another

vars == <<file, next, real, whole, my, exits, leaked, spoiled, raced>>

Id == 1..MaxId
Row == [father_id : 0..MaxId, file_md5 : Md5 \union {NoMd5}, user_id : User]

(***************************************************************************)
(* cmd: the command.  pc: its next statement.  todo: the rows that         *)
(* rmDirFunc and digui have still to visit, with the father of the copy,   *)
(* in an order that the set leaves open as SQL does.  row: the row that    *)
(* the command removes, changes or has inserted; src: the one it copies.   *)
(* found, full: what an upload has read of file_real and of ./file.        *)
(***************************************************************************)
Place == {"idle", "next", "list", "dec", "select", "erase", "delete", "insert", "add", "dest",
          "read", "update", "max", "lookup", "enter", "receive"}

Local == [cmd : {"none", "rm", "new", "over", "into", "tree", "upload"}, pc : Place,
          todo : SUBSET (Id \X (0..MaxId)), row : 0..MaxId, src : 0..MaxId, father : 0..MaxId,
          md5 : Md5 \union {NoMd5}, found : BOOLEAN, full : BOOLEAN]

Idle == [cmd |-> "none", pc |-> "idle", todo |-> {}, row |-> 0, src |-> 0,
         father |-> 0, md5 |-> NoMd5, found |-> FALSE, full |-> FALSE]

\* Every user has a home, which stands for father 0 here.
Init ==
  /\ file = [i \in {} |-> Idle]
  /\ next = 1
  /\ real = [m \in {} |-> 0]
  /\ whole = {}
  /\ my = [s \in Session |-> Idle]
  /\ exits = 0
  /\ leaked = [m \in Md5 |-> 0]
  /\ spoiled = {} /\ raced = {}

-----------------------------------------------------------------------------
Rows(m) == {i \in DOMAIN file : file[i].file_md5 = m}
IsDir(i) == file[i].file_md5 = NoMd5
Own(s) == {i \in DOMAIN file : file[i].user_id = UserOf[s]}

\* The rows that a path of s leads to: getNextFileId looks for each name among
\* the rows of the user below the row that the name before has led to.
Found(s) == {i \in Own(s) : file[i].father_id \in {k \in Own(s) : IsDir(k)} \union {0}}
Files(s) == {i \in Found(s) : ~IsDir(i)}
Dirs(s) == {i \in Found(s) : IsDir(i)}

At(s, commands, place) == my[s].cmd \in commands /\ my[s].pc = place

\* The rows a session is about to change, and their contents as they are now.
Held(s) ==
  IF my[s].pc = "receive" THEN {}
  ELSE ({my[s].md5} \union {file[i].file_md5 : i \in {my[s].row, my[s].src} \intersect DOMAIN file})
         \ {NoMd5}

\* Two commands on one content, or a file copied over itself.
Clash ==
  {m \in Md5 : \/ \E s, t \in Session : s # t /\ m \in Held(s) \intersect Held(t)
               \/ \E s \in Session : my[s].cmd = "over" /\ my[s].row = my[s].src /\ m \in Held(s)}

\* The copies that have counted the new reference and not changed the row yet.
Ahead(m) ==
  {s \in Session : /\ my[s].cmd = "into"
                   /\ my[s].pc \in {"dest", "dec", "select", "erase", "read", "update"}
                   /\ my[s].src \in Rows(m)}

-----------------------------------------------------------------------------
(* Shared parts of the commands.                                           *)

Goto(s, place) == my' = [my EXCEPT ![s].pc = place]
Done(s) == my' = [my EXCEPT ![s] = Idle]

\* The walks of rmDirFunc and digui go on with the next row.
Proceed(s, rest) ==
  my' = [my EXCEPT ![s] = IF rest = {} THEN Idle
                          ELSE [Idle EXCEPT !.cmd = my[s].cmd, !.pc = "next", !.todo = rest]]

\* What follows the last count statement of a command.
Onward(s) ==
  IF my[s].cmd = "tree" THEN Proceed(s, my[s].todo) ELSE Done(s)

\* The process ends, by its signal handler or otherwise, and is started again.
ServerEnds ==
  /\ exits < MaxExits
  /\ exits' = exits + 1
  /\ my' = [s \in Session |-> Idle]
  /\ leaked' = [m \in Md5 |-> leaked[m] + Cardinality(Ahead(m))]
  /\ spoiled' = spoiled \union Clash \union UNION {Held(s) : s \in Session}
  /\ UNCHANGED <<file, next, real, whole, raced>>

\* Mutant: the id is not counted on.
Insert_SameId(row) ==
  /\ next <= MaxId
  /\ file' = [i \in DOMAIN file \union {next} |-> IF i = next THEN row ELSE file[i]]
  /\ UNCHANGED next

Insert(row) ==
  /\ next <= MaxId
  /\ file' = [i \in DOMAIN file \union {next} |-> IF i = next THEN row ELSE file[i]]
  /\ next' = next + 1

NewRow(s, m, father) == [father_id |-> father, file_md5 |-> m, user_id |-> UserOf[s]]

Counted(m, n) == IF m \in DOMAIN real THEN [real EXCEPT ![m] = @ + n] ELSE real

-----------------------------------------------------------------------------
(* rm: rmFileFunc on a file, rmDirFunc on a directory.                     *)

StartRm(s, i) ==
  /\ my[s].pc = "idle"
  /\ "rm" \in Commands
  /\ i \in Found(s)
  /\ my' = [my EXCEPT ![s].cmd = "rm", ![s].pc = "next", ![s].todo = {<<i, 0>>}]
  /\ UNCHANGED <<file, next, real, whole>>

\* The row is gone: neither a directory nor a file.
RmMissing(s, i) ==
  /\ At(s, {"rm"}, "next")
  /\ <<i, 0>> \in my[s].todo
  /\ i \notin DOMAIN file
  /\ Proceed(s, my[s].todo \ {<<i, 0>>})
  /\ UNCHANGED <<file, next, real, whole>>

\* A directory goes first, its children after it.
RmDir(s, i) ==
  /\ At(s, {"rm"}, "next")
  /\ <<i, 0>> \in my[s].todo
  /\ i \in DOMAIN file /\ IsDir(i)
  /\ file' = [j \in DOMAIN file \ {i} |-> file[j]]
  /\ my' = [my EXCEPT ![s].pc = "list", ![s].src = i, ![s].todo = @ \ {<<i, 0>>}]
  /\ UNCHANGED <<next, real, whole>>

\* Mutant: the directories below a removed one stay.
RmList_Files(s) ==
  /\ At(s, {"rm"}, "list")
  /\ Proceed(s, my[s].todo \union {<<j, 0>> : j \in {k \in Own(s) : file[k].father_id = my[s].src /\ ~IsDir(k)}})
  /\ UNCHANGED <<file, next, real, whole>>

\* getls_id selects the children among the rows of the user.
RmList(s) ==
  /\ At(s, {"rm"}, "list")
  /\ Proceed(s, my[s].todo \union {<<j, 0>> : j \in {k \in Own(s) : file[k].father_id = my[s].src}})
  /\ UNCHANGED <<file, next, real, whole>>

RmFile(s, i) ==
  /\ At(s, {"rm"}, "next")
  /\ <<i, 0>> \in my[s].todo
  /\ i \in DOMAIN file /\ ~IsDir(i)
  /\ my' = [my EXCEPT ![s].pc = "dec", ![s].row = i, ![s].md5 = file[i].file_md5,
                      ![s].todo = @ \ {<<i, 0>>}]
  /\ UNCHANGED <<file, next, real, whole>>

\* update file_real set file_count = file_count - 1
Dec(s) ==
  /\ At(s, {"rm", "over", "into"}, "dec")
  /\ real' = Counted(my[s].md5, -1)
  /\ Goto(s, "select")
  /\ UNCHANGED <<file, next, whole>>

\* What a command does next, once the count of the row it gives up is settled.
AfterDec(s) == IF my[s].cmd = "rm" THEN "delete" ELSE "read"

\* Mutant: the row of file_real goes one reference early.
Select_AtOne(s) ==
  /\ At(s, {"rm", "over", "into"}, "select")
  /\ my[s].md5 \in DOMAIN real
  /\ Goto(s, IF real[my[s].md5] <= 1 THEN "erase" ELSE AfterDec(s))
  /\ UNCHANGED <<file, next, real, whole>>

\* select file_count: with 0 the row of file_real goes.
Select(s) ==
  /\ At(s, {"rm", "over", "into"}, "select")
  /\ my[s].md5 \in DOMAIN real
  /\ Goto(s, IF real[my[s].md5] = 0 THEN "erase" ELSE AfterDec(s))
  /\ UNCHANGED <<file, next, real, whole>>

\* Without a row in file_real, rmFileFunc returns and leaves the row in file.
RmUncounted(s) ==
  /\ At(s, {"rm"}, "select")
  /\ my[s].md5 \notin DOMAIN real
  /\ Proceed(s, my[s].todo)
  /\ UNCHANGED <<file, next, real, whole>>

Erase(s) ==
  /\ At(s, {"rm", "over", "into"}, "erase")
  /\ real' = [m \in DOMAIN real \ {my[s].md5} |-> real[m]]
  /\ Goto(s, AfterDec(s))
  /\ UNCHANGED <<file, next, whole>>

RmDelete(s) ==
  /\ At(s, {"rm"}, "delete")
  /\ file' = [j \in DOMAIN file \ {my[s].row} |-> file[j]]
  /\ Proceed(s, my[s].todo)
  /\ UNCHANGED <<next, real, whole>>

-----------------------------------------------------------------------------
(* cp of a file: to a new name, over another file, or into a directory     *)
(* that has a file of the name.                                            *)

StartNew(s, i, father) ==
  /\ my[s].pc = "idle"
  /\ "new" \in Commands
  /\ i \in Files(s) /\ father \in Dirs(s) \union {0}
  /\ my' = [my EXCEPT ![s].cmd = "new", ![s].pc = "insert", ![s].md5 = file[i].file_md5,
                      ![s].father = father]
  /\ UNCHANGED <<file, next, real, whole>>

\* The destination gives up its content first.
StartOver(s, i, j) ==
  /\ my[s].pc = "idle"
  /\ "over" \in Commands
  /\ i \in Files(s) /\ j \in Files(s)
  /\ my' = [my EXCEPT ![s].cmd = "over", ![s].pc = "dec", ![s].md5 = file[j].file_md5,
                      ![s].row = j, ![s].src = i]
  /\ UNCHANGED <<file, next, real, whole>>

\* In a directory, the new reference is counted first.
StartInto(s, i, j) ==
  /\ my[s].pc = "idle"
  /\ "into" \in Commands
  /\ i \in Files(s) /\ j \in Files(s)
  /\ my' = [my EXCEPT ![s].cmd = "into", ![s].pc = "add", ![s].md5 = file[i].file_md5,
                      ![s].row = j, ![s].src = i]
  /\ UNCHANGED <<file, next, real, whole>>

\* The md5 of the destination, into the variable that held the source's.
ReadDest(s) ==
  /\ At(s, {"into"}, "dest")
  /\ my[s].row \in DOMAIN file
  /\ my' = [my EXCEPT ![s].pc = "dec", ![s].md5 = file[my[s].row].file_md5]
  /\ UNCHANGED <<file, next, real, whole>>

ReadSrc(s) ==
  /\ At(s, {"over", "into"}, "read")
  /\ my[s].src \in DOMAIN file
  /\ my' = [my EXCEPT ![s].pc = "update", ![s].md5 = file[my[s].src].file_md5]
  /\ UNCHANGED <<file, next, real, whole>>

\* update file set file_md5: no row, no effect.
Update(s) ==
  /\ At(s, {"over", "into"}, "update")
  /\ file' = [i \in DOMAIN file |-> IF i = my[s].row THEN [file[i] EXCEPT !.file_md5 = my[s].md5]
                                                      ELSE file[i]]
  /\ IF my[s].cmd = "over" THEN Goto(s, "add") ELSE Done(s)
  /\ UNCHANGED <<next, real, whole>>

\* update file_real set file_count = file_count + 1: no row, no effect.
Add(s) ==
  /\ At(s, {"new", "over", "tree", "upload"}, "add")
  /\ real' = Counted(my[s].md5, 1)
  /\ Onward(s)
  /\ UNCHANGED <<file, next, whole>>

AddFirst(s) ==
  /\ At(s, {"into"}, "add")
  /\ real' = Counted(my[s].md5, 1)
  /\ Goto(s, "dest")
  /\ UNCHANGED <<file, next, whole>>

\* What the next statement of the command reads is not in the tables.
Missing(s) ==
  \/ At(s, {"over", "into"}, "select") /\ my[s].md5 \notin DOMAIN real
  \/ At(s, {"into"}, "dest") /\ my[s].row \notin DOMAIN file
  \/ At(s, {"over", "into"}, "read") /\ my[s].src \notin DOMAIN file
  \/ At(s, {"tree"}, "next") /\ \E t \in my[s].todo : t[1] \notin DOMAIN file

\* delcountfrommd5 and the selects of one row read an empty result.
NullPointer(s) == Missing(s) /\ ServerEnds

-----------------------------------------------------------------------------
(* mkdir, and cp of a directory: digui.                                    *)

\* The names are compared before; what matters here is the insert.
Mkdir(s, father) ==
  /\ my[s].pc = "idle"
  /\ "mkdir" \in Commands
  /\ father \in Dirs(s) \union {0}
  /\ Insert(NewRow(s, NoMd5, father))
  /\ UNCHANGED <<real, whole, my>>

StartTree(s, i, father) ==
  /\ my[s].pc = "idle"
  /\ "tree" \in Commands
  /\ i \in Dirs(s) /\ father \in (Dirs(s) \union {0}) \ {i}
  /\ my' = [my EXCEPT ![s].cmd = "tree", ![s].pc = "next", ![s].todo = {<<i, father>>}]
  /\ UNCHANGED <<file, next, real, whole>>

\* The row of the copied directory.
TreeDir(s, t) ==
  /\ At(s, {"tree"}, "next")
  /\ t \in my[s].todo
  /\ t[1] \in DOMAIN file /\ IsDir(t[1])
  /\ Insert(NewRow(s, NoMd5, t[2]))
  /\ my' = [my EXCEPT ![s].pc = "max", ![s].row = next, ![s].src = t[1],
                      ![s].todo = @ \ {t}]
  /\ UNCHANGED <<real, whole>>

\* select max(id): the id just inserted, if nobody inserted in between.
TreeMax(s, i) ==
  /\ At(s, {"tree"}, "max")
  /\ i \in DOMAIN file /\ \A j \in DOMAIN file : j <= i
  /\ my' = [my EXCEPT ![s].pc = "list", ![s].father = i]
  /\ UNCHANGED <<file, next, real, whole>>

\* The children of the source, whoever they belong to.
TreeList(s) ==
  /\ At(s, {"tree"}, "list")
  /\ Proceed(s, my[s].todo \union
       {<<j, my[s].father>> : j \in {k \in DOMAIN file : file[k].father_id = my[s].src}})
  /\ UNCHANGED <<file, next, real, whole>>

TreeFile(s, t) ==
  /\ At(s, {"tree"}, "next")
  /\ t \in my[s].todo
  /\ t[1] \in DOMAIN file /\ ~IsDir(t[1])
  /\ my' = [my EXCEPT ![s].pc = "insert", ![s].md5 = file[t[1]].file_md5,
                      ![s].father = t[2], ![s].todo = @ \ {t}]
  /\ UNCHANGED <<file, next, real, whole>>

-----------------------------------------------------------------------------
(* upload.  A name that is taken by a complete content is refused and      *)
(* changes nothing.                                                        *)

\* get_file_size: the size of the stored content, before the tables are read.
\* father is cached since the login or the last cd; that it may have been
\* removed since is left to NetDisk.
StartUpload(s, m, father) ==
  /\ my[s].pc = "idle"
  /\ "upload" \in Commands
  /\ father \in Dirs(s) \union {0}
  /\ my' = [my EXCEPT ![s].cmd = "upload", ![s].pc = "lookup", ![s].md5 = m,
                      ![s].father = father, ![s].full = (m \in whole)]
  /\ UNCHANGED <<file, next, real, whole>>

\* Mutant: the upload that resumes a content counts it once more.
Lookup_CountsResumed(s) ==
  /\ At(s, {"upload"}, "lookup")
  /\ LET found == my[s].md5 \in DOMAIN real
     IN my' = [my EXCEPT ![s].found = found, ![s].pc = IF found /\ ~my[s].full THEN "add" ELSE "insert"]
  /\ UNCHANGED <<file, next, real, whole>>

\* select * from file_real: a counted but incomplete content is only resumed.
Lookup(s) ==
  /\ At(s, {"upload"}, "lookup")
  /\ LET found == my[s].md5 \in DOMAIN real
     IN my' = [my EXCEPT ![s].found = found,
                         ![s].pc = IF found /\ ~my[s].full THEN "receive" ELSE "insert"]
  /\ UNCHANGED <<file, next, real, whole>>

\* Mutant: a copied file is not counted.
InsertFile_Uncounted(s) ==
  /\ At(s, {"new", "tree", "upload"}, "insert")
  /\ Insert(NewRow(s, my[s].md5, my[s].father))
  /\ IF my[s].cmd = "upload" THEN Goto(s, IF my[s].found THEN "add" ELSE "enter") ELSE Onward(s)
  /\ UNCHANGED <<real, whole>>

\* insert into file, for an upload and for a copied file.
InsertFile(s) ==
  /\ At(s, {"new", "tree", "upload"}, "insert")
  /\ Insert(NewRow(s, my[s].md5, my[s].father))
  /\ my' = [my EXCEPT ![s].row = next,
                      ![s].pc = IF my[s].cmd = "upload" /\ ~my[s].found THEN "enter" ELSE "add"]
  /\ UNCHANGED <<real, whole>>

\* insert into file_real: md5 is its key, so a second row is refused.
Enter(s) ==
  /\ At(s, {"upload"}, "enter")
  /\ real' = [m \in DOMAIN real \union {my[s].md5} |->
                IF m \in DOMAIN real THEN real[m] ELSE 1]
  /\ IF my[s].full THEN Done(s) ELSE Goto(s, "receive")
  /\ UNCHANGED <<file, next, whole>>

\* The bytes arrive, or the client leaves in the middle.
Receive(s) ==
  /\ At(s, {"upload"}, "receive")
  /\ \/ whole' = whole \union {my[s].md5}
     \/ UNCHANGED whole
  /\ Done(s)
  /\ UNCHANGED <<file, next, real>>

-----------------------------------------------------------------------------
RmStep(s) ==
  \/ \E i \in Id : StartRm(s, i) \/ RmMissing(s, i) \/ RmDir(s, i) \/ RmFile(s, i)
  \/ RmList(s) \/ RmUncounted(s) \/ RmDelete(s)

CountStep(s) == Dec(s) \/ Select(s) \/ Erase(s) \/ Add(s) \/ AddFirst(s)

CopyStep(s) ==
  \/ \E i \in Id, f \in 0..MaxId : StartNew(s, i, f)
  \/ \E i, j \in Id : StartOver(s, i, j) \/ StartInto(s, i, j)
  \/ ReadDest(s) \/ ReadSrc(s) \/ Update(s)

TreeStep(s) ==
  \/ \E f \in 0..MaxId : Mkdir(s, f)
  \/ \E i \in Id, f \in 0..MaxId : StartTree(s, i, f)
  \/ \E t \in my[s].todo : TreeDir(s, t) \/ TreeFile(s, t)
  \/ \E i \in Id : TreeMax(s, i)
  \/ TreeList(s)

UploadStep(s) ==
  \/ \E m \in Md5, f \in 0..MaxId : StartUpload(s, m, f)
  \/ Lookup(s) \/ InsertFile(s) \/ Enter(s) \/ Receive(s)

Step(s) == RmStep(s) \/ CountStep(s) \/ CopyStep(s) \/ TreeStep(s) \/ UploadStep(s)

\* The copy of a directory goes on below a row that it has not inserted.
TookAnother(s) == At(s, {"tree"}, "list") /\ my[s].father # my[s].row

\* A step of a session leaves a mark on the contents it clashes about.
SessionStep ==
  /\ \E s \in Session : Step(s)
  /\ spoiled' = spoiled \union Clash'
  /\ raced' = raced \union {UserOf[s] : s \in {t \in Session : TookAnother(t)'}}
  /\ UNCHANGED <<exits, leaked>>

Exit == (\E s \in Session : my[s].pc # "idle") /\ ServerEnds

Next == SessionStep \/ Exit \/ (\E s \in Session : NullPointer(s))

Spec == Init /\ [][Next]_vars

-----------------------------------------------------------------------------
TypeOK ==
  /\ next \in 1..(MaxId + 1)
  /\ DOMAIN file \subseteq 1..(next - 1)
  /\ \A i \in DOMAIN file : file[i] \in Row
  /\ DOMAIN real \subseteq Md5
  /\ \A m \in DOMAIN real : real[m] \in Int
  /\ whole \subseteq Md5
  /\ my \in [Session -> Local]
  /\ exits \in 0..MaxExits
  /\ leaked \in [Md5 -> Nat]
  /\ spoiled \subseteq Md5 /\ raced \subseteq User

OneSessionEach == \A s, t \in Session : UserOf[s] = UserOf[t] => s = t

\* A content is never counted for more than its rows and the copies into a
\* directory that have counted and not changed the row yet; only an exit of
\* the server at that place leaves a count behind that no removal takes back.
CountsBounded ==
  \A m \in DOMAIN real : real[m] <= Cardinality(Rows(m)) + Cardinality(Ahead(m)) + leaked[m]

\* The count is exact while no command is at work on the content, unless two
\* commands on it overlapped, the server ended within one, or a file was
\* copied over itself: nothing else disturbs the counting.
ExactUnlessDisturbed ==
  \A m \in Md5 \ spoiled :
    (\A s \in Session : m \notin Held(s)) =>
      Cardinality(Rows(m)) = IF m \in DOMAIN real THEN real[m] ELSE 0

\* A command that has lowered a count finds it again, unless disturbed: a
\* removal does not return without removing, a copy does not end the server.
CountStillThere ==
  \A s \in Session : my[s].pc = "select" /\ my[s].md5 \notin spoiled => my[s].md5 \in DOMAIN real

\* The rows that a removal under way has still to reach.
Doomed ==
  {i \in DOMAIN file : \E s \in Session :
     /\ my[s].cmd = "rm"
     /\ \/ <<i, 0>> \in my[s].todo
        \/ my[s].row = i
        \/ my[s].pc = "list" /\ file[i].father_id = my[s].src}

\* A row that is not at the root is below a directory of its owner, or about to
\* be removed: unless the server ended in a removal, the counting of a content
\* was disturbed, or a copy took the row of another session for its own.
InOwnTree ==
  exits = 0 =>
    \A i \in DOMAIN file \ Doomed :
      LET father == file[i].father_id
      IN father # 0 /\ file[i].file_md5 \notin spoiled /\ file[i].user_id \notin raced =>
           father \in DOMAIN file /\ IsDir(father) /\ file[father].user_id = file[i].user_id

(***************************************************************************)
(* digui reads "the id of the newly created row" into newdestid and copies *)
(* the children below it: a row is below a directory of its owner.         *)
(***************************************************************************)
BelowOwnDir ==
  \A i \in DOMAIN file : file[i].father_id \in DOMAIN file =>
    file[file[i].father_id].user_id = file[i].user_id
=============================================================================
