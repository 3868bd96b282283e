# The net disk, in TLA+

This directory specifies and verifies the network disk of this repository: a
server in C (`server/`) that keeps a virtual file system per user in MySQL, and
a command-line client (`client/`). Every definition is translated from the C
source; comments of the code and the two READMEs are used only as statements
that the code may or may not keep.

Tools: `tlc -config X.cfg MCxxx.tla` for the runs; `tlapm` on
`TaskQueueProofs`, `ThreadPoolProofs`, `NetDiskProofs`, `RefCountProofs`,
`RefCountExactProofs`, `TransferProofs`, `SessionProofs` and `DialogueProofs` for
the proofs.

## 1. Inventory

| Part | Source | State | Operations | Status |
|---|---|---|---|---|
| Thread pool and task queue | `server/src/main.c`, `ThreadPool.c`, `TaskQueue.c` | queue (list, length), mutex, condition variable, `exit_flag`, task nodes on the heap, the backlog of the listener, the pipe | accept and enqueue, take and serve, signal 10 and shutdown | modelled and proved |
| Sessions of the server | `server/src/UserFunc.c` | the socket, `user_id`, the cached `father_id`, the salt it sent, the table `user` | sign up, log in, command loop, new password, exit | modelled (but see section 10) and proved |
| Virtual file tree | `server/src/command.c`, `mysql_operation.c` | the tables `file` and `file_real`, `user.pwd` | `mkdir`, `rm`, `mv`, `cp`, `cd`, `pwd`; `ls` and `tree` only read | modelled, a command per step with its paths (`NetDisk`) and a statement per step without them (`RefCount`); both proved: counts, trees and whose rows they are |
| Transfers | `server/src/transFile.c`, `client/src/command.c` | the stored contents in `./file` | upload (new, instant, resumed, cut), download | modelled, a block per step (`Transfer`); proved |
| Database access | `server/src/database_operate.c` | none | query, result array | its conventions are modelled |
| Client | `client/src/client.c`, `userlogin.c`, `command.c` | where it is in the dialogue, stale variables | the other half of every dialogue | modelled from recv to recv |
| MD5 | `client/src/md5.c` | none | digest of a file | not modelled: a pure computation on bytes |
| System functions, log | `server/src/SystemFunc.c` | log file | socket set-up, time stamps, salts | not modelled, but for the choice of a salt |

How they interact: the main thread passes connections to the workers through
the queue, under one mutex and one condition variable. A worker owns a session
until the client leaves. The sessions share nothing in memory; they meet in the
database (tables `user`, `file`, `file_real`) and in the directory `./file`. A
client and its thread exchange messages of fixed size over TCP, without any
framing, so each side must know which message comes next.

What is hard here: the interleaving of the pool's threads and the shutdown; the
check-then-act on the database between sessions; reference counts kept by hand
over several statements; a dialogue in which one message too many or too few
puts the two programs out of step for good; state that is cached while another
session changes it; a peer that goes away in the middle. `PROJECT.json` lists
these hazards at their lines, with the properties that stand for them.

What makes the parts correct:
- pool: no lost wake-up, no node leaked or used after its free, every connection
  served once and in order, a shutdown that cuts off no session and ends;
- sessions: both sides in step, nobody waits for nobody, a user enters with the
  password of the account, one account per name;
- file tree: a user reaches and changes only rows of his own, reference counts
  equal the number of rows, directories are removed with their rows;
- transfers: what was uploaded is listed, complete, and counted.

## 2. Plan and order

1. `TaskQueue`, `WorkerPool`, `ThreadPool`: the concurrent core, with the
   abstract pool it implements and the proofs. **Done.**
2. `FileTree`, `NetDisk`: the commands on the tables. **Done.**
3. `Session`: the dialogue of client and server. **Done.**
4. `RefCount`: the statements that keep `file` and `file_real` together as
   separate steps of several sessions, with a server that may end between two
   of them; the proofs that counts are bounded, exact unless disturbed, and found
   again, and that rows stay in the trees of their users. **Done.**
5. `Transfer`: upload and download in blocks, resumed, concurrent, cut, with
   offsets that overflow an int, and the proofs of its safety. **Done.**
6. Proofs for `Session`: agreement of the two program counters, for any number
   of sessions. **Done.**
7. Proofs for `NetDisk`: every function of `FileTree`, with its paths, its loops
   and its recursions, keeps rows with their users and the counts with the rows,
   for trees of any depth. **Done.**
8. *Not done:* that the commands of `NetDisk` are what `RefCount` does when no two of
   them overlap. Names and paths are in `NetDisk` only, statements in `RefCount` only.

Instances stay small: two workers and three clients, two users and two
sessions, two contents, three or four paths. Theorems worth proving are the
safety properties of the pool (done), the counts and the trees between any two
statements (done), the same for whole commands with their paths (done), what is
stored and downloaded (done), and agreement in the dialogue (done).

## 3. The thread pool

`TaskQueue` holds the linked list of `TaskQueue.c` (`pHead`, `pTail`, `pNext`,
`queue_len`) next to `fifo`, the sequence it stands for. `ThreadPool` holds the
threads: `mpc` is the main thread between two accesses to shared state
(`epoll_wait`, the events, accept, lock, insert, broadcast, unlock, and the
branch for the exit event), `pc[w]` is a worker in `thread_func`.
`pthread_cond_wait` is two actions, `WCheck` (release and sleep) and `WRelock`
(own the mutex again), and `WSpurious` lets it return by itself. As in the code,
the queue is not tested again after the wait. `calloc` returns any free address,
also one just freed. `WServed` is the whole of `UserFunc`: a session that ends
when its client leaves. `accept` may fail, which ends the process
(`AcceptFails`). `sigfunc` and `ParentExit` are the parent process.

`WorkerPool` is what the pool promises: a queue of connections, each given to
one worker. `ThreadPool` implements it with `waiting` and `serving` read off the
queue and the workers' pointers.

| Run | Shows |
|---|---|
| `pool_safety` | types, the list represents the queue, mutual exclusion, one owner per node, one place per connection, no lost wake-up, at most one task after the flag, no session cut off, refinement of `WorkerPool`; two workers, three clients and addresses (symmetric) |
| `pool_live` | with fair threads and arbitrary clients, no worker stays idle while a task waits; and if every session ends, every client is served, unless there is a shutdown or a failure |
| `pool_shutdown` | *violated*: a worker that passes the test of `exit_flag` just before it is set goes to sleep after the only broadcast, and main joins it for ever |

Bounds: with two workers, one can be in any step while the other one is in any
other; three clients make a queue with a head, a middle and a tail. `MaxSignals`
is the number of signals (one is enough: the byte is never read, and no second
event is handled). The liveness runs use two clients and no symmetry.

Fairness: a thread that can go on does (weak), and one that can take the mutex
again and again gets it (strong), as the kernel's futex queues justify. Nothing
is assumed about clients, spurious wake-ups or failures. `EveryClientServed` and
`pool_shutdown` assume in addition that sessions end (`SessionsEnd`): a client
that never leaves keeps its worker, and the code has no timeout.

## 4. The commands on the tables

`FileTree` has one operator per function of `command.c` and `mysql_operation.c`,
on a record with the tables and with `up`, which is FALSE once a command
dereferenced the null pointer of an empty result or recursed without end (the
signal handler of `UserFunc.c` then ends the process for everybody). Paths are
sequences of components. Kept as they are: look-ups that go on after a missing
component, names lost in front of an array when there are more `..` than
components, a move into a directory tested and a rename not, the order of
counting up and down, the early return of `rmFileFunc`. `gettypefromid` writes
two bytes to one char; where the second lands is the compiler's choice, and `cp`
takes it as the parameter `stray`.

The loops over a path (`getFileId`, `Normal`) are functions of the number of
components done. The recursions of `rmDirFunc` and `digui` are loops too
(`RmVisit`, `CopyVisit`): `todo` is the set of rows that the calls under way have
still to visit, each with the depth of its call, and `First` takes them in the
order of the code: the deepest call goes on, in the order of the table. So a walk
is a function of the number of rows visited, which is what the proofs follow.

`NetDisk` lets sessions of several users run these commands, each as one step:
`pwd[u]` is the working directory in the table `user`, shared by the sessions of
a user; `father_id[s]` is the copy that a session keeps for uploads; `whole` is
the set of contents completely stored. An upload that is cut off leaves its rows
and an incomplete content, and ends the session.

| Run | Shows |
|---|---|
| `disk_counts` | a count never exceeds the rows, is exact until a file is copied over itself, and a directory goes with its rows |
| `disk_users` | with two users and two sessions: no path leads to a foreign row, the cached directory is never a foreign row, a step changes rows of its user only |
| `disk_moves` | the same with `mv`, which can also move home directories |

Bounds: `MaxId` is the number of rows ever inserted (homes included): three or
two new rows give a directory with a file, a copy of it, and a removal in
between; `MaxDepth` is the length of a working directory (a cycle in the tree
would make it unbounded). Two contents are needed to copy one over another.
Sessions and contents are symmetric. The server may have ended, so deadlock is
not checked.

What the commands also do, and no property forbids: `cp` from or to the root
(id 0, which has no row) dereferences a null pointer, which ends the server;
`mkdir` below a path that does not exist inserts a row with the father -1; `mv`
to a plain name renames a row next to another one of that name; `mv` of a
directory below itself leaves a cycle that no path reaches. The runs contain all
of these, and the properties above hold in spite of them (those about counts and
removed directories as long as the server runs).

`CountsExact` speaks of histories without a copy of a file over itself: after
one the entry in `file_real` is gone, and the file can not be removed any more.
`CountsWithinRows` holds always. An upload that completes a content which
another upload left incomplete leaves no row in its directory.

## 5. The dialogue

`Session` models both programs from one recv to the next. `spc[s]` is the recv
in which the thread waits (account, cipher, command, the integer after a
download, the bytes of an upload, the cipher of a new password), `cpc[s]` where
the client waits. `up` and `down` are the two directions of the TCP connection.
The streams carry no types in reality; the model remembers which type the sender
meant, and a recv for another one sets `lost`, which is what the properties are
about. A client may be killed at any point (its unread data then resets the
connection and the server's recv returns -1 once), the server may exit, the
connection to the database may fail, and the local file of a download may not
open: the constant `Fault` says which of these a run allows. A server that exits
with a message unread makes the client's recv fail once, before the stream ends;
some recv calls of the client check for that and some do not. A client that
continues after the end of the stream uses its variables as the code leaves
them. A salt is any salt: `GetRandomStr` seeds `rand` with the second, so salts
repeat.

| Run | Shows |
|---|---|
| `session_dialogue` | every command and every fault with one session: nobody takes a message for another, the two never wait for each other, a client at its prompt faces a thread that is ready for its command, and with fair programs every wait of the client ends |
| `session_pair` | two sessions of one account, with sign-ups and new passwords interleaved: a user enters with the password that the account has at that moment; the connection to the database may fail |

`odd` marks a session after a download about whose final integer the two sides
differ (the local file did not open, or exactly -2 bytes remained). The code goes
out of step there, and the properties speak of all other sessions. Bound: one such download per session, since nobody reads
what a client sends afterwards. All other variables are bounded by the dialogue itself.

What the dialogue also does, and no property forbids: two sign-ups with one name
may both succeed; a client that is killed with
unread data during a sign-up makes recv return -1, and the thread inserts an
account with an empty password; after the end of the stream a client reads its
old variables and may welcome its user to a server that is gone; when the
database cannot be reached the thread ends and leaves the socket open, so the
client waits for ever (which is why `session_dialogue` has no such fault).

Fairness: each thread and each client takes a step if it can (weak). Nobody has
to type anything, and no fault has to happen.

## 6. The statements on the tables

`RefCount` takes the commands of section 4 apart. Every SQL statement is an
action, all sessions are interleaved between them, and the server may end
between any two (`ServerEnds`: the tables and `./file` stay, the local variables
go). `my[s]` holds the local variables of the command that session `s` runs, and
`my[s].pc` names its next statement:

| Command | Statements in their order | Source |
|---|---|---|
| `rm` of a file | `RmFile` (type, md5), `Dec`, `Select`, `Erase` if the count is 0, `RmDelete`; or `RmUncounted` when file_real has no row | `command.c` 542-638 |
| `rm` of a directory | `RmDir` (its row goes first), `RmList`, then each child | `command.c` 518-538 |
| `cp` to a new name | `InsertFile`, `Add` | `command.c` 160-207 |
| `cp` onto a file | `Dec`, `Select`, `Erase`, `ReadSrc`, `Update`, `Add` | `command.c` 139-157 |
| `cp` onto a name in a directory | `AddFirst`, `ReadDest`, `Dec`, `Select`, `Erase`, `ReadSrc`, `Update` | `command.c` 209-246 |
| `cp` of a directory | `TreeDir`, `TreeMax`, `TreeList`, then each child; `TreeFile`, `InsertFile`, `Add` for a file | `mysql_operation.c` 167-275 |
| `mkdir` | `Mkdir` | `command.c` 473-489 |
| upload | `StartUpload` (the size of the stored content), `Lookup`, `InsertFile`, then `Add` or `Enter`, then `Receive` | `transFile.c` 167-238 |

Paths are resolved already: a command starts with ids of rows that a path leads
to (`Found`): rows of its user, at the root or below a directory of the user. The
upload directory that a session has cached may be stale, and a path may lead to
something else than the command needs; both are in `NetDisk`. The recursion of `rmDirFunc` and `digui` is a set
`todo` of rows still to visit. The code visits them depth first, in the order in
which the database returns them; the set allows every order, so whatever holds
here holds for the code. Selects of one row in a row are one step. A select whose empty
result the code reads anyway is `NullPointer`, which ends the server.

Three histories say what disturbs the counting. `spoiled`: contents on which two
commands overlapped, or within whose command the server ended, or of which a
file was copied over itself. `leaked[m]`: references of `m` that were counted
before an exit for a row that was never changed. `raced`: users whose copy of a
directory took a row of somebody else for its own.

| Run | Shows |
|---|---|
| `refcount_files` | types; `CountsBounded`: a count exceeds the rows at most by the copies that count before they change the row, and by what exits leaked there; `ExactUnlessDisturbed`; `CountStillThere`: a command finds the count again that it has lowered |
| `refcount_trees` | with directories: `ExactUnlessDisturbed`, and `InOwnTree`: every row not being removed is below a directory of its owner |
| `refcount_max` | *violated*: an insert between the insert and the `select max(id)` of a recursive copy puts the copied children below a row of another user |

Bounds: two sessions of two users, which are alike (symmetry); one content, since
two sessions with two contents have more than five million states, while the
theorem covers any number and `disk_counts` has two contents with one command at
a time. `MaxId` is 3, 4 and 5 rows: a file, its copy and one more row; a
directory with a file, and its copy; for `refcount_max` a directory with a
directory, both copied, and one insert of the other user. `MaxExits` is 1 for
the files and 0 for the trees. Every command in a run's `Commands` fires; only
the missing count of the four ways to `NullPointer` needs no second session of
the same user, and the runs have one session for each user. Two sessions
of a user are in `disk_users`, a command at a time. Since `getls_id` selects by user,
a removal never reaches rows of another user.

## 7. The blocks

`Transfer` models the bytes. `stored[c]` is the file in `./file` that has the md5
of `c` for a name, `local[s]` what the client of `s` downloads to, `wire[s]` the
blocks that one side has sent and the other has not received. `tr[s]` holds the
variables of both programs: the offset of the thread's descriptor (`pos`), what
the thread still has to receive or to send (`needLen - recvLen`,
`st_size - sendLength`; here `need`), and what the client has read or waits for
(`next`). Sizes and offsets travel as text through `atoi`, which wraps at
`IntMax`. `write` writes where the descriptor is, over what is there or at the
end (`Written`). A download below `BIG_SIZE` sends what `read` finds; from there
on it uses `sendfile`, which stops at the size announced and sends nothing for a
negative offset. `lseek` refuses negative offsets, and nobody looks at its result:
the thread then sends from the start, and when less is stored than it announced
it goes on reading nothing for ever.

Several sessions may upload and download one content. A client may be killed:
during an upload a part of what it has sent still arrives; during a download its
local file keeps what was written, and the next download resumes there, or on
the file of another content that has the name (`mixed`). The server may end.
`Leave` is what all ends of a transfer have in common: the connection is empty,
and the next client, or the next command, begins.

Three histories: `clash`, the contents that grew between the `fstat` and the
`lseek` of an upload, which then writes its blocks at the wrong place; `grew`,
the downloads during which their content grew; `mixed`, as above.

| Run | Shows |
|---|---|
| `transfer` | the stored copy is a beginning of the content and is only added to, whatever uploads run at once, are cut and are resumed, unless it clashed; the local file is a beginning of the content, unless mixed; both programs agree where a transfer ends, unless the content grew in a download, or the size of an upload is no int; neither waits for bytes that nobody sends; and every transfer ends |

Bounds: two sessions, contents of two and three blocks, `IntMax` 3 (so the second
size wraps and the first does not), `Big` 2 (both ways to send occur), at most
two blocks at a time (so blocks are received one by one, together, and with a rest).
These are small, and each case of every action occurs; the proofs cover all others.

Fairness: each pair of programs takes a step of its transfer if it can (weak, per
session). Nobody has to begin one, and neither a client nor the server has to
leave. `TransfersEnd` and `NobodyWaits` leave out local files longer than an int
can say: with the overflown offset the client waits for more than there is.

## 8. What is proved

All theorems hold for any set of sessions, workers, connections, users and
contents. They rest on the named assumptions of the modules alone (and on
`OneSessionEach`, `NoWrap` and `PlainUsers` where they say so); TLC evaluates those assumptions
in the runs.

**The pool.** `TaskQueueProofs` and `ThreadPoolProofs` prove, for any set of workers,
connections and heap addresses, that the specification of the pool satisfies
every safety property that `pool_safety` checks, and that it implements
`WorkerPool`. Assumed: `NULL` is no node, worker or connection, the main thread
is no worker, `MaxSignals` is a natural number.

The inductive invariant `IInv` is the conjunction of the checked invariants with
two more. They are needed because a single step does not see the history:
`FlowInv` says at which program counters the local pointers are set, what the
pending events mean for the backlog, and that all workers are over when main has
left its joins; `LateInv` says that a worker that took a task after the flag was
set is on its way out. Each action has a lemma; the queue part of inserting and
taking a node is in `InsertList` and `GetList`. Steps that leave queue, nodes and
connections alone share `DataFrame`. For the refinement, `MainInsert` is
`Submit`, `WGet` with a task is `Take`, `WServed` is `Finish`, and every other
step is a stutter: that a submitted connection is new to the abstract pool is
`OnePlace`, that the worker had none is `FlowInv`.

**The commands.** `NetDiskProofs` proves every property that `disk_counts`,
`disk_users` and `disk_moves` check, for any users, sessions, paths, names,
contents and any number of rows. Assumed: names and the components of paths are
strings, "0" is no content, there are finitely many users and ids for their home
directories. `Types` has one hypothesis more, that no user is called `.` or `..`:
neither the client nor the server refuses such a name, and a login makes it the
working directory.

`IInv` says that the database is sound (`Sound`), that what the sessions have
cached is `Resolved`, and the two properties of the counts. Soundness is more than
types: a row whose father is there has the owner of its father, and no father has an
id that is still to be handed out. Both are needed for `ResolvesToOwn`, since `..`
is followed without a look at the owner, and since a row may have the father
-1, or one that is gone: an id is never handed out again, so such a row never comes below
somebody else's. Every function of `FileTree` has a lemma that it keeps `Sound`, changes
rows of its user only (`Kept`) and keeps `Within` and `Exact`; `Served` gathers this
for a command, and `Serves` for a step of a session.

The proof system has no induction rule that takes a formula as its parameter.
`Induct` is the one used instead: a set of numbers that contains 0, and k whenever it
contains k - 1, contains all up to n. It follows from the least element of a set,
and each loop uses it with the set of steps up to which its invariant holds.
Likewise a recursive function of the steps is shown to exist before what it yields
is used (`PathLoop` and the three like it).

Two arguments are not about a single row. `rmDirFunc` deletes a directory before it
lists the children, so in between rows have a father that is gone. `RmExact` says
that `todo` has exactly those rows, each once; with exact counts every visited
row goes, so that after as many steps as there were ids nothing is left to
visit, which is `DirGoesWithItsRows`. And `cp` of a directory over one of the
same name removes that one and then copies into the directory above: had the
removal taken the directory above as well, the copy would be lost below a row that
is gone. `Line` excludes this: a row that a path leads to is neither on nor below a
cycle (`Grounded`), so that it cannot be among the rows below one of its own
children (`FromTop` says that a removal takes nothing else); and no row above it
is called `.` or `..` (`PlainAbove`), so that the name of the copied directory, added
to the path, leads to a child and not upwards, although `mkdir` accepts such a name.

**The counts.** `RefCountProofs` proves `CountsBounded` while no user has two
sessions (`OneSessionEach`; two sessions of one user can lower a count twice for
one row, or change a row that is gone), and the types without that assumption.
`CountsBounded` is not inductive: between lowering a count and removing the row
the count is below the rows, and that slack must not be used by anybody else.
`IInv` therefore gives each command a credit: `OwesRow` says that the row a
command works on is still there with the content it has read, so that the rows
"owed" by different sessions are different rows; the count is at most the rows
that nobody owes, plus the copies ahead of their row (`AheadInv`), plus `leaked`.
Each statement then either moves one row between the two sides or one unit
between the count and the credit.

`RefCountExactProofs` turns the bound into an equation, for contents that are not
spoiled: the count is the credit plus the copies ahead of their row (`Settled`).
Downwards the argument is a different one, since now a count must not be lowered
or removed by somebody who has read the tables too early. `ExactInv` says that
the rows a command works on still have the contents it has read (`RowsAsRead`), and
that what it has read of the count is still so (`CountAsRead`): a step of another
session that changed either would hold the same content, which spoils it
(`Clash`). Together with a row of its own that nobody owes, the equation then gives
that the row of `file_real` is there (`CountStillThere`), and with no command at work
it is `ExactUnlessDisturbed`.

`InOwnTree` says where rows are, and is not inductive: a removal deletes the
directory before it lists the children. `TreeInv` adds `ListsOwn` (all children of a
directory that is gone, and not yet listed, are rows of the user who removes it, so
that `getls_id` finds them) and `Fathers` (a command inserts below a directory of its
user, which nobody else removes). A row that a removal leaves although it had
found it is one whose count was missing: `CountAsRead` says that this happens to
spoiled contents only, which is why the trees need the counts.

**The transfers.** `TransferProofs` proves the six safety properties of the run
`transfer`. `IInv` describes an upload by the place in the content where its wire
begins: `Start`, the size as an int less what the thread still needs. While
nobody else wrote between the thread's `fstat` and its `lseek`, that place is also the
offset of its descriptor, so that a block overwrites only its equal or extends
the copy by the next one, even if another session extends the same copy
(`StoredInv`, `RunInv`). A download is described by a sum: what the thread has to
send, the wire and the local file make the size that the client waits for
(`DownInv`); this gives `NobodyWaits` and `EndsInStep`. `LocalIsPrefix` needs in
addition that local files hold nothing that is not stored (`InStore`): only then
does a download with an overflown offset find so much "left" that it takes
`sendfile` and sends nothing. That theorem assumes `NoWrap`: no file is as long
as twice the first number that is no int, above which `atoi` gives a wrong
offset that `lseek` accepts.

**The sessions.** `SessionProofs` proves the types and `EntersWithOwnHash`,
`DialogueProofs` `InStep`, `NobodyWaitsForNobody` and `PhasesAgree`, for any
number of sessions, users, passwords and salts and all faults that the model has;
what is assumed is that `Command` and `Fault` name commands and faults.
The types need `Entry`: a thread in the middle of a sign-up holds a name that a
client sent and a salt of its own, the two that it will write into the table.

The other three say little about how a session got where it is, so none of them
is inductive. `DInv` is a table instead: `Table` has a row for each place of the
client (`AtMenu`, `AtFlag`, ..., `AtRpRet`), which lists the few pairs of streams
that may be under way there, with the place where the thread then waits. A step
of the thread stays in the row, a step of the client goes to another one. When the
thread has closed, only the client's half of the row still counts (`Drained`);
when the client has gone, what it had sent still fits the recv the thread is in
(`UpFits`). A session in which a download ended in two different ways (`odd`) is
left out. The three properties are read off the table, row by row. Sessions
disturb each other only through the table `user`, which only grows and only
changes whole rows: a step of one leaves the row of every other (`Kept`).

## 9. What is only model-checked

Liveness under fairness (`pool_live`, `EveryRequestAnswered`, `TransfersEnd`) is out of
the proof system's reach. All safety properties of the passing runs, the invariants
and those about steps, are proved. The two violated ones (`pool_shutdown`,
`refcount_max`) are counterexamples, which TLC finds.

That `CountsBounded`, `ExactUnlessDisturbed`, `CountStillThere` and `InOwnTree` need
`OneSessionEach` is not a limit of the proofs: two sessions of one user can run
`rm` on the same row. What then still holds of a count is not stated.

## 10. What is not modelled, and why

- The home directory that a sign-up inserts: `NetDisk` starts with all users
  signed up.
- `ls`, `tree`: they change nothing; their answers are in `Session`.
- `file_size`, logging, printed text, fixed array sizes (20 components of a
  path, 16 and 200 children) and messages cut at any byte by a short recv.
- MySQL: a statement is atomic, ids come from AUTO_INCREMENT, rows are read in
  the order of their ids, the connection does not fail once it is open. The
  schema is not in the repository: `RefCount` takes md5 for the key of
  `file_real`, so that a second insert is refused.
- What the blocks of a clashed upload look like afterwards, the 2 GiB that one
  `sendfile` moves at most, and descriptors that run out (`user_upload` closes
  its descriptor on no path).
- Menus, hidden input and the splitting of a typed line; MD5; socket set-up.
