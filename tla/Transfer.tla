------------------------------ MODULE Transfer ------------------------------
(***************************************************************************)
(* The bytes of uploads and downloads: user_upload, user_download and      *)
(* get_file_size of server/src/transFile.c with UploadCommand and          *)
(* DownloadCommand of client/src/command.c.  A content is a sequence of    *)
(* blocks; its stored copy in ./file has its md5 for a name, so all        *)
(* sessions share it.  Sizes and offsets travel as text and pass through   *)
(* atoi.  Several uploads and downloads of one content may be under way,   *)
(* clients leave in the middle and resume later, the server may end.  What *)
(* the transfers do to the tables is in NetDisk and RefCount.              *)
(***************************************************************************)
EXTENDS Integers, SequencesExt, FiniteSets

CONSTANTS
  Session,   \* a client and its thread
  Content,   \* contents
  Size,      \* Size[c]: the number of blocks of content c
  IntMax,    \* the first number that does not fit an int
  Big,       \* BIG_SIZE: from here on a download uses sendfile
  Chunk      \* BUF_LEN: the most that one read, recv or send takes

ASSUME ContentAssumption == Content # {}
ASSUME SizeAssumption == Size \in [Content -> Nat \ {0}]
ASSUME WidthAssumption == IntMax \in Nat \ {0} /\ Big \in Nat /\ Chunk \in Nat \ {0}

VARIABLES
  stored,    \* stored[c]: the blocks in ./file under the md5 of c
  local,     \* local[s]: the file that the client of s downloads to
  wire,      \* wire[s]: blocks sent and not received
  tr,        \* tr[s]: the variables of the transfer of session s
  alive,     \* alive[s]: the client is there
  clash,     \* history: contents that grew between fstat and lseek of an upload
  grew,      \* history: sessions whose download saw its content grow
  mixed      \* history: sessions that resumed on the file of another content

vars == <<stored, local, wire, tr, alive, clash, grew, mixed>>

Whole(c) == [k \in 1..Size[c] |-> <<c, k>>]

\* atoi gives an int: numbers from IntMax on wrap around.
Atoi(n) == ((n + IntMax) % (2 * IntMax)) - IntMax

(***************************************************************************)
(* op: what the session does.  pc: the thread's place in it.  c: content.  *)
(* pos: the offset of the thread's descriptor.  need: the number of blocks *)
(* the thread still has to receive or send.  next: upload, the blocks the  *)
(* client has read or skipped (sendsize); download, the size that the      *)
(* client waits for (filesize).                                            *)
(***************************************************************************)
Idle == [op |-> "none", pc |-> "idle", c |-> CHOOSE c \in Content : TRUE,
         pos |-> 0, need |-> 0, next |-> 0]

\* Client and thread no longer agree on what comes next on the connection.
Lost == [Idle EXCEPT !.op = "lost"]

Init ==
  /\ stored = [c \in Content |-> <<>>]
  /\ local = [s \in Session |-> <<>>]
  /\ wire = [s \in Session |-> <<>>]
  /\ tr = [s \in Session |-> Idle]
  /\ alive = [s \in Session |-> TRUE]
  /\ clash = {} /\ grew = {} /\ mixed = {}

At(s, op, place) == tr[s].op = op /\ tr[s].pc = place

\* The connection is empty again, and in state l; a client that has left is
\* followed by the next one.
Leave(s, l) ==
  /\ tr' = [tr EXCEPT ![s] = l]
  /\ wire' = [wire EXCEPT ![s] = <<>>]
  /\ alive' = [alive EXCEPT ![s] = TRUE]
  /\ grew' = grew \ {s} /\ mixed' = mixed \ {s}

\* Both programs are through with a transfer.  Bytes that nobody asked for are
\* taken for the next message.
Finish(s, agreed) == Leave(s, IF agreed THEN Idle ELSE Lost)

\* The session is over; the client may connect again.
Hangup(s) == Leave(s, Idle)

-----------------------------------------------------------------------------
(* upload.                                                                 *)

\* Mutant: the client sends from the beginning.
Resume_Start(c) == 0

\* UploadCommand seeks to the size of the stored copy that the server reports.
Resume(c) == Len(stored[c])

\* Mutant: the thread waits for the whole file.
Left_All(c) == Atoi(Size[c])

\* What the thread waits for: the size announced less what is there.
Left(c) == Atoi(Size[c]) - Len(stored[c])

\* get_file_size has run: a copy of the size of the file is not sent again.
UpStart(s, c) ==
  /\ tr[s].op = "none"
  /\ Len(stored[c]) # Atoi(Size[c])
  /\ tr' = [tr EXCEPT ![s] = [op |-> "up", pc |-> "seek", c |-> c, pos |-> 0,
                              need |-> Left(c), next |-> Resume(c)]]
  /\ UNCHANGED <<stored, local, wire, alive, clash, grew, mixed>>

\* UploadCommand reads the file and sends a block.
UpSend(s) ==
  /\ tr[s].op = "up"
  /\ alive[s]
  /\ tr[s].next < Size[tr[s].c]
  /\ wire' = [wire EXCEPT ![s] = Append(@, <<tr[s].c, tr[s].next + 1>>)]
  /\ tr' = [tr EXCEPT ![s].next = @ + 1]
  /\ UNCHANGED <<stored, local, alive, clash, grew, mixed>>

\* Mutant: no seek to the end.
SeekEnd_Start(c) == 0

\* lseek to SEEK_END, after the statements on the tables.
SeekEnd(c) == Len(stored[c])

UpSeek(s) ==
  /\ At(s, "up", "seek")
  /\ tr' = [tr EXCEPT ![s].pc = "receive", ![s].pos = SeekEnd(tr[s].c)]
  /\ clash' = IF Left(tr[s].c) = tr[s].need THEN clash ELSE clash \union {tr[s].c}
  /\ UNCHANGED <<stored, local, wire, alive, grew, mixed>>

\* Mutant: the stored file is opened with O_TRUNC.
Written_Truncated(old, pos, blocks) == blocks

\* write at the descriptor's offset, over what is there or beyond it.
Written(old, pos, blocks) ==
  [k \in 1..(IF pos + Len(blocks) > Len(old) THEN pos + Len(blocks) ELSE Len(old)) |->
     IF k \in (pos + 1)..(pos + Len(blocks)) THEN blocks[k - pos] ELSE old[k]]

UpReceive(s, n) ==
  /\ At(s, "up", "receive")
  /\ tr[s].need > 0
  /\ n \in 1..Chunk /\ n <= Len(wire[s])
  /\ LET blocks == SubSeq(wire[s], 1, n)
     IN stored' = [stored EXCEPT ![tr[s].c] = Written(@, tr[s].pos, blocks)]
  /\ wire' = [wire EXCEPT ![s] = SubSeq(@, n + 1, Len(@))]
  /\ tr' = [tr EXCEPT ![s].pos = @ + n, ![s].need = @ - n]
  /\ grew' = grew \union {t \in Session : tr[t].op = "down" /\ tr[t].c = tr[s].c}
  /\ UNCHANGED <<local, alive, clash, mixed>>

\* The thread has what it needs, and reports success.
UpEnd(s) ==
  /\ At(s, "up", "receive")
  /\ tr[s].need <= 0
  /\ Finish(s, wire[s] = <<>> /\ tr[s].next >= Size[tr[s].c])
  /\ UNCHANGED <<stored, local, clash>>

\* Mutant: the loop goes on when recv returns 0.
UpCut_Spinning(s) ==
  /\ At(s, "up", "receive") /\ tr[s].need > 0 /\ ~alive[s] /\ wire[s] = <<>>
  /\ UNCHANGED vars

\* recv returns 0: CLIENT_DISCONNECTION.
UpCut(s) ==
  /\ At(s, "up", "receive")
  /\ tr[s].need > 0
  /\ ~alive[s] /\ wire[s] = <<>>
  /\ Hangup(s)
  /\ UNCHANGED <<stored, local, clash>>

-----------------------------------------------------------------------------
(* download.                                                               *)

\* Mutant: the offset of the client is not used.
Seek_Ignored(offset) == 0

\* Mutant: the failure of lseek is not seen.
Seek_Unchecked(offset) == offset

\* lseek refuses a negative offset: the descriptor stays at the start.
Seek(offset) == IF offset < 0 THEN 0 ELSE offset

\* The name stands for any content, whatever it stood for when the local file
\* was written.  DownloadCommand offers the length of that file, or no file;
\* get_file_size answers with what is left.  sendfile refuses a negative offset
\* and sends nothing.
DownStart(s, c, file) ==
  /\ tr[s].op = "none"
  /\ LET have == Len(file)
         offset == Atoi(have)
         left == Len(stored[c]) - offset
     IN tr' = [tr EXCEPT ![s] = [op |-> "down", pc |-> IF left < Big THEN "send" ELSE "sendfile",
                 c |-> c, pos |-> Seek(offset),
                 need |-> IF left >= Big /\ offset < 0 THEN 0 ELSE left, next |-> have + left]]
  /\ local' = [local EXCEPT ![s] = file]
  /\ mixed' = IF IsPrefix(file, Whole(c)) THEN mixed ELSE mixed \union {s}
  /\ UNCHANGED <<stored, wire, alive, clash, grew>>

Least(m, n) == IF m < n THEN m ELSE n

\* A small file: what read finds is sent, also beyond the size announced.
\* A big one: sendfile stops at the size announced.
Portion(s) ==
  LET there == Len(stored[tr[s].c]) - tr[s].pos
  IN Least(Chunk, IF tr[s].pc = "sendfile" THEN Least(tr[s].need, there) ELSE there)

DownSend(s) ==
  /\ tr[s].op = "down"
  /\ tr[s].need > 0
  /\ wire' = [wire EXCEPT ![s] = @ \o SubSeq(stored[tr[s].c], tr[s].pos + 1, tr[s].pos + Portion(s))]
  /\ tr' = [tr EXCEPT ![s].pos = @ + Portion(s), ![s].need = @ - Portion(s)]
  /\ UNCHANGED <<stored, local, alive, clash, grew, mixed>>

\* The client writes what it receives to the end of its file.
DownReceive(s, n) ==
  /\ tr[s].op = "down"
  /\ Len(local[s]) < tr[s].next
  /\ n \in 1..Chunk /\ n <= Len(wire[s])
  /\ local' = [local EXCEPT ![s] = @ \o SubSeq(wire[s], 1, n)]
  /\ wire' = [wire EXCEPT ![s] = SubSeq(@, n + 1, Len(@))]
  /\ UNCHANGED <<stored, tr, alive, clash, grew, mixed>>

\* Both loops are over.
DownEnd(s) ==
  /\ tr[s].op = "down"
  /\ tr[s].need <= 0
  /\ Len(local[s]) >= tr[s].next
  /\ Finish(s, wire[s] = <<>>)
  /\ UNCHANGED <<stored, local, clash>>

\* The client is killed: send fails, or the integer after the download does
\* not come.  The part of the file that was written stays.
DownCut(s) ==
  /\ tr[s].op = "down"
  /\ Hangup(s)
  /\ UNCHANGED <<stored, local, clash>>

-----------------------------------------------------------------------------
(* The surroundings.                                                       *)

\* A client is killed during an upload.  What it has sent may still arrive, or
\* a part of it.
ClientLeaves(s, n) ==
  /\ tr[s].op = "up"
  /\ alive[s]
  /\ n \in 0..Len(wire[s])
  /\ alive' = [alive EXCEPT ![s] = FALSE]
  /\ wire' = [wire EXCEPT ![s] = SubSeq(@, 1, n)]
  /\ UNCHANGED <<stored, local, tr, clash, grew, mixed>>

\* The user starts the client again after it has lost the thread.
Reconnect(s) ==
  /\ tr[s].op = "lost"
  /\ Hangup(s)
  /\ UNCHANGED <<stored, local, clash>>

\* The server ends and is started again: only ./file is left, and the clients' files.
ServerEnds ==
  /\ \E s \in Session : tr[s].op # "none"
  /\ tr' = [s \in Session |-> Idle]
  /\ wire' = [s \in Session |-> <<>>]
  /\ alive' = [s \in Session |-> TRUE]
  /\ grew' = {} /\ mixed' = {}
  /\ UNCHANGED <<stored, local, clash>>

-----------------------------------------------------------------------------
\* What the two programs do by themselves once a transfer has begun.
Transferring(s) ==
  \/ UpSend(s) \/ UpSeek(s) \/ UpEnd(s) \/ UpCut(s)
  \/ DownSend(s) \/ DownEnd(s)
  \/ \E n \in 1..Chunk : UpReceive(s, n) \/ DownReceive(s, n)

Next ==
  \/ \E s \in Session : \/ Transferring(s)
                        \/ \E c \in Content : UpStart(s, c)
                        \/ \E c \in Content, file \in {local[s], <<>>} : DownStart(s, c, file)
                        \/ DownCut(s) \/ Reconnect(s)
                        \/ \E n \in 0..Len(wire[s]) : ClientLeaves(s, n)
  \/ ServerEnds

Spec == Init /\ [][Next]_vars

\* Both programs go on while they can; nobody has to start or to leave.
FairSpec == Spec /\ \A s \in Session : WF_vars(Transferring(s))

-----------------------------------------------------------------------------
Blocks == UNION {{<<c, k>> : k \in 1..Size[c]} : c \in Content}

Transfers == [op : {"none", "up", "down", "lost"}, pc : {"idle", "seek", "receive", "send", "sendfile"},
              c : Content, pos : Nat, need : Int, next : Int]

TypeOK ==
  /\ stored \in [Content -> Seq(Blocks)]
  /\ local \in [Session -> Seq(Blocks)]
  /\ wire \in [Session -> Seq(Blocks)]
  /\ tr \in [Session -> Transfers]
  /\ alive \in [Session -> BOOLEAN]
  /\ clash \subseteq Content /\ grew \subseteq Session /\ mixed \subseteq Session

\* However many uploads of a content run, are cut off and resumed, its stored
\* copy is a beginning of it: unless it grew between the fstat and the lseek
\* of one of them, which then writes its blocks in the wrong place.
StoredIsPrefix == \A c \in Content \ clash : IsPrefix(stored[c], Whole(c))

\* What is stored is only added to, unless an upload clashed.
StoredOnlyGrows ==
  [][\A c \in Content : c \in clash' \/ IsPrefix(stored[c], stored'[c])]_vars

\* The local file is a beginning of the content that is being downloaded, also
\* while that is being uploaded and after any number of interruptions: unless
\* the download was resumed on the file of another content, or the copy is bad.
LocalIsPrefix ==
  \A s \in Session \ mixed : tr[s].op = "down" /\ clash = {} =>
    IsPrefix(local[s] \o wire[s], Whole(tr[s].c))

\* Client and thread agree where a transfer ends, unless the content grew during
\* a download, or an upload has a size that is no int.
EndsInStep ==
  [][\A s \in Session : tr'[s].op = "lost" /\ tr[s].op # "lost" =>
       \/ tr[s].op = "down" /\ s \in grew
       \/ tr[s].op = "up" /\ (Size[tr[s].c] >= IntMax \/ tr[s].c \in clash)]_vars

\* Neither side of a transfer waits for bytes that the other one does not send:
\* unless the local file is longer than an int can say.
NobodyWaits ==
  \A s \in Session :
    /\ tr[s].op = "up" /\ tr[s].need > 0 =>
         wire[s] # <<>> \/ ~alive[s] \/ tr[s].next < Size[tr[s].c]
    /\ tr[s].op = "down" /\ Len(local[s]) < tr[s].next =>
         wire[s] # <<>> \/ tr[s].need > 0 \/ Len(local[s]) >= IntMax

\* Every transfer ends, unless a file is longer than an int can say.
TransfersEnd ==
  \A s \in Session : []<>(tr[s].op \notin {"up", "down"} \/ Len(local[s]) >= IntMax)
=============================================================================
