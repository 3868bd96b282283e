------------------------------ MODULE Session ------------------------------
(***************************************************************************)
(* The dialogue of a client (client/src) with the thread that serves it    *)
(* (UserFunc.c): signing up, logging in, the commands, and what either     *)
(* side does when the other one goes away.                                 *)
(*                                                                         *)
(* Both sides are sequential programs that wait in recv.  A step runs from *)
(* one recv to the next: the sends in between go into the stream together, *)
(* which nobody can tell apart, because a stream keeps its order.  spc and *)
(* cpc say which recv a side waits in (a client in "menu" or "prompt"      *)
(* waits for its user).  What TCP carries are bytes; here a stream is a    *)
(* sequence of messages, each with the type its sender gave it, and a      *)
(* length and the text that follows are one message.  A recv that meets a  *)
(* message of another type has lost its place in the stream: that sets     *)
(* lost, and the model does not follow such a session further.             *)
(*                                                                         *)
(* What a command does to the tables is the subject of NetDisk; here it    *)
(* succeeds or fails.                                                      *)
(***************************************************************************)
EXTENDS Integers, FiniteSets, Sequences

CONSTANTS
  Sessions,   \* the connections, each with a client and a thread
  Name,       \* user names
  Password,   \* passwords
  Salt,       \* salts
  Command,    \* the kinds of commands that the users type
  Fault       \* which of the faults below can happen

(* Kinds of commands: "change" is cp, mkdir, rm and mv; "list" is ls, tree *)
(* and pwd; "args" is any command whose arguments FindCmdError refuses.    *)
Kinds == {"change", "list", "cd", "download", "upload", "rp", "exit", "args", "unknown"}

(* "connect": database_connect fails; "close": a client is killed;         *)
(* "exit": the server process exits; "open": a client cannot open the      *)
(* local file of a download.                                               *)
Faults == {"connect", "close", "exit", "open"}

ASSUME CommandAssumption == Command \subseteq Kinds /\ Fault \subseteq Faults

VARIABLES
  spc,    \* where the thread of a session waits
  acc,    \* the account that the thread is dealing with
  salt,   \* the salt that it sent last
  uid,    \* user_id of the task: a row of users, or 0
  cpc,    \* where the client waits
  cmd,    \* the command that the client is in
  up,     \* up[s]: from the client to the thread
  down,   \* down[s]: from the thread to the client
  peer,   \* the client's socket: "open", "closed" or "reset"
  users,  \* the rows of the table user, in the order of their ids
  lost,   \* history: a recv met a message of another type
  odd     \* history: a download after which the sides differ about the last integer

server == <<spc, acc, salt, uid>>
client == <<cpc, cmd>>
vars == <<spc, acc, salt, uid, cpc, cmd, up, down, peer, users, lost, odd>>

NoHash == <<"", 0>>                 \* an empty password column
Msg(type, v) == [type |-> type, v |-> v]
Flag(v) == Msg("flag", v)
Text == Msg("text", 0)
Eof == Msg("eof", 0)                \* recv returns 0
Err == Msg("error", 0)              \* recv returns -1

NO_ERROR == 99
RUN_ERROR == -96
ARGS_NUM_ERROR == -98
ERROR_CMD == -99
NO_SUCH_FILE == -2
UPLOAD_EXISTING_FILE == -4

Init ==
  /\ spc = [s \in Sessions |-> "start"]
  /\ acc = [s \in Sessions |-> [opt |-> "", name |-> ""]]
  /\ salt = [s \in Sessions |-> 0]
  /\ uid = [s \in Sessions |-> 0]
  /\ cpc = [s \in Sessions |-> "menu"]
  /\ cmd = [s \in Sessions |-> ""]
  /\ up = [s \in Sessions |-> <<>>]
  /\ down = [s \in Sessions |-> <<>>]
  /\ peer = [s \in Sessions |-> "open"]
  /\ users = <<>>
  /\ lost = [s \in Sessions |-> FALSE]
  /\ odd = [s \in Sessions |-> FALSE]

-----------------------------------------------------------------------------
(* The streams.                                                            *)

Over(s) == spc[s] \in {"over", "dead"}

\* What the thread's recv returns: data first, then an error or the end.
Incoming(s) ==
  IF up[s] # <<>> THEN Head(up[s]) ELSE IF peer[s] = "reset" THEN Err ELSE Eof

\* What each recv of the thread, and of the client, is there to receive.
ServerExpects == [account |-> "account", cipher |-> "cipher", command |-> "command",
                  ack |-> "int", receive |-> "data", rpcipher |-> "cipher"]
ClientExpects == [flag |-> "flag", salt |-> "salt", login |-> "flag", pwd |-> "text",
                  confirm |-> "flag", result |-> "flag", text |-> "text", size |-> "size",
                  content |-> "data", offset |-> "size", done |-> "flag",
                  rpsalt |-> "salt", rpret |-> "flag"]

\* The thread is in the recv pc, recv returns, and takes what it returns.
ServerRecv(s, pc) ==
  /\ spc[s] = pc
  /\ ~lost[s]
  /\ up[s] # <<>> \/ peer[s] # "open"
  /\ Incoming(s).type \in {ServerExpects[pc], "eof", "error"}
  /\ up' = [up EXCEPT ![s] = IF @ = <<>> THEN <<>> ELSE Tail(@)]
  /\ peer' = [peer EXCEPT ![s] = IF Incoming(s) = Err THEN "closed" ELSE @]

\* The thread sends; to a closed socket in vain (sig_func survives SIGPIPE).
Answer(s, msgs) == down' = [down EXCEPT ![s] = IF peer[s] = "open" THEN @ \o msgs ELSE @]

\* What the client's recv returns: after the server closed, the end of stream.
Received(s) == IF down[s] # <<>> THEN Head(down[s]) ELSE Eof

\* The client is in the recv pc, and takes what is expected, an error or the end.
ClientRecv(s, pc) ==
  /\ cpc[s] = pc
  /\ ~lost[s]
  /\ down[s] # <<>> \/ Over(s)
  /\ Received(s).type \in {ClientExpects[pc], "eof", "error"}
  /\ down' = [down EXCEPT ![s] = IF @ = <<>> THEN <<>> ELSE Tail(@)]

\* The value received, or the one the variable had before the stream ended.
Value(s, before) == IF Received(s) \in {Eof, Err} THEN before ELSE Received(s).v

ClientSend(s, msg) == up' = [up EXCEPT ![s] = IF Over(s) THEN @ ELSE Append(@, msg)]

Goto(s, pc) == spc' = [spc EXCEPT ![s] = pc]
ClientGoto(s, pc) == cpc' = [cpc EXCEPT ![s] = pc]

-----------------------------------------------------------------------------
(* The thread: UserFunc.                                                   *)

\* database_connect.  On failure UserFunc returns and closes nothing.
Begin(s) ==
  /\ spc[s] = "start"
  /\ Goto(s, "account")
  /\ UNCHANGED <<acc, salt, uid, client, up, down, peer, users, lost, odd>>

ConnectFails(s) ==
  /\ "connect" \in Fault
  /\ spc[s] = "start"
  /\ Goto(s, "gone")
  /\ UNCHANGED <<acc, salt, uid, client, up, down, peer, users, lost, odd>>

\* recv returned 0: the client is gone, the thread closes and returns.
ServerEof(s) ==
  /\ \E pc \in DOMAIN ServerExpects : ServerRecv(s, pc)
  /\ Incoming(s) = Eof
  /\ Goto(s, "over")
  /\ UNCHANGED <<acc, salt, uid, client, down, users, lost, odd>>

Rows(name) == {i \in DOMAIN users : users[i].name = name}
First(rows) == CHOOSE i \in rows : \A j \in rows : i <= j

\* Any salt: GetRandomStr seeds rand with the second, so that salts repeat.
GetRandomStr == Salt

\* The account that was received; after a failed recv, the zeroed one, which
\* asks for a sign-up without a name.
Account(s) == IF Incoming(s) = Err THEN [opt |-> "signin", name |-> ""] ELSE Incoming(s).v

\* LoginOrSignin, until it waits for the cipher, or refuses the name.
LoginOrSignin(s) ==
  /\ ServerRecv(s, "account")
  /\ Incoming(s) # Eof
  /\ acc' = [acc EXCEPT ![s] = Account(s)]
  /\ LET rows == Rows(Account(s).name)
         signin == Account(s).opt = "signin"
     IN IF (rows = {}) = signin
        THEN \E x \in (IF signin THEN GetRandomStr ELSE {users[First(rows)].salt}) :
               /\ salt' = [salt EXCEPT ![s] = x]
               /\ Answer(s, <<Flag(Cardinality(rows)), Msg("salt", x)>>)
               /\ Goto(s, "cipher")
        ELSE /\ Answer(s, <<Flag(-1)>>)
             /\ UNCHANGED <<salt, spc>>
  /\ UNCHANGED <<uid, client, users, lost, odd>>

\* The password column that recv leaves in new_password.
Hash(s) == IF Incoming(s) = Err THEN NoHash ELSE Incoming(s).v

\* The user is in: UserFunc goes on to CmdAnalyse, which sends the directory.
Enter(s, id) ==
  /\ uid' = [uid EXCEPT ![s] = id]
  /\ Answer(s, <<Flag(id), Text>>)
  /\ Goto(s, "command")

\* Mutant: the row is looked for by its name only.
Matches_ByName(table, name, hash) ==
  {i \in DOMAIN table : table[i].name = name}

Matches(table, name, hash) ==
  {i \in DOMAIN table : table[i].name = name /\ table[i].hash = hash}

\* LoginOrSignin, second half of a sign-up: insert without another look.
SignIn(s) ==
  /\ ServerRecv(s, "cipher")
  /\ Incoming(s) # Eof
  /\ acc[s].opt = "signin"
  /\ users' = Append(users, [name |-> acc[s].name, salt |-> salt[s], hash |-> Hash(s)])
  /\ Enter(s, First(Matches(users', acc[s].name, Hash(s))))
  /\ UNCHANGED <<acc, salt, client, lost, odd>>

\* Mutant: UserFunc does not look at the -1 of LoginOrSignin.
Login_Unchecked(s) ==
  /\ ServerRecv(s, "cipher")
  /\ Incoming(s) # Eof
  /\ acc[s].opt = "login"
  /\ LET rows == Matches(users, acc[s].name, Hash(s))
     IN Enter(s, IF rows = {} THEN -1 ELSE First(rows))
  /\ UNCHANGED <<acc, salt, client, users, lost, odd>>

\* LoginOrSignin, second half of a login.
Login(s) ==
  /\ ServerRecv(s, "cipher")
  /\ Incoming(s) # Eof
  /\ acc[s].opt = "login"
  /\ LET rows == Matches(users, acc[s].name, Hash(s))
     IN IF rows = {}
        THEN /\ Answer(s, <<Flag(-1)>>)
             /\ Goto(s, "account")
             /\ UNCHANGED uid
        ELSE Enter(s, First(rows))
  /\ UNCHANGED <<acc, salt, client, users, lost, odd>>

-----------------------------------------------------------------------------
(* The thread: CmdAnalyse.                                                 *)

\* The command that was received; a failed recv leaves a zeroed one.
Kind(s) == IF Incoming(s).type = "command" THEN Incoming(s).v ELSE "unknown"

\* Mutant: user_upload goes on to its last answer when the file exists.
Replies_ExistsAndDone(kind) ==
  CASE kind = "upload" -> {<<Flag(NO_ERROR), Msg("size", UPLOAD_EXISTING_FILE), Flag(NO_ERROR)>>}
    [] kind = "unknown" -> {<<Flag(ERROR_CMD)>>}
    [] OTHER -> {}

\* What is sent for a command after which the thread waits for the next one.
Replies(kind) ==
  CASE kind = "unknown" -> {<<Flag(ERROR_CMD)>>}
    [] kind = "args"    -> {<<Flag(ARGS_NUM_ERROR)>>}
    [] kind = "change"  -> {<<Flag(NO_ERROR), Flag(f)>> : f \in {NO_ERROR, RUN_ERROR}}
    [] kind \in {"list", "cd"} ->
         {<<Flag(NO_ERROR), Flag(NO_ERROR), Text>>, <<Flag(NO_ERROR), Flag(RUN_ERROR)>>}
    [] kind = "download" -> {<<Flag(NO_ERROR), Msg("size", NO_SUCH_FILE)>>}
    [] kind = "upload"   -> {<<Flag(NO_ERROR), Msg("size", UPLOAD_EXISTING_FILE)>>,
                             <<Flag(NO_ERROR), Msg("size", 0), Flag(NO_ERROR)>>}
    [] OTHER -> {}

CmdAnalyse(s) ==
  /\ ServerRecv(s, "command")
  /\ Incoming(s) # Eof
  /\ \E msgs \in Replies(Kind(s)) : Answer(s, msgs)
  /\ UNCHANGED <<server, client, users, lost, odd>>

\* Mutant: the thread does not wait for the integer that ends a download.
Download_NoAck(s) ==
  /\ ServerRecv(s, "command")
  /\ Kind(s) = "download"
  /\ Answer(s, <<Flag(NO_ERROR), Msg("size", 1), Msg("data", 0)>>)
  /\ UNCHANGED <<server, client, users, lost, odd>>

\* user_download of a file that exists: the bytes that remain of it (less than
\* none, if the client's file is longer), the bytes, then an integer back.
Download(s) ==
  /\ ServerRecv(s, "command")
  /\ Kind(s) = "download"
  /\ \E size \in {-2, -1, 0, 1} :
       /\ Answer(s, <<Flag(NO_ERROR), Msg("size", size)>> \o
                    (IF size > 0 THEN <<Msg("data", 0)>> ELSE <<>>))
       /\ odd' = [odd EXCEPT ![s] = @ \/ size = NO_SUCH_FILE]
  /\ Goto(s, "ack")
  /\ UNCHANGED <<acc, salt, uid, client, users, lost>>

\* Any integer will do, and so will a failed recv.
DownloadAck(s) ==
  /\ ServerRecv(s, "ack")
  /\ Incoming(s) # Eof
  /\ Goto(s, "command")
  /\ UNCHANGED <<acc, salt, uid, client, down, users, lost, odd>>

\* user_upload of a content that is not complete yet.
Upload(s) ==
  /\ ServerRecv(s, "command")
  /\ Kind(s) = "upload"
  /\ Answer(s, <<Flag(NO_ERROR), Msg("size", 1)>>)
  /\ Goto(s, "receive")
  /\ UNCHANGED <<acc, salt, uid, client, users, lost, odd>>

\* Mutant: no answer when the bytes have come.
UploadReceive_Silent(s) ==
  /\ ServerRecv(s, "receive")
  /\ Incoming(s) # Eof
  /\ Goto(s, "command")
  /\ UNCHANGED <<acc, salt, uid, client, down, users, lost, odd>>

\* The bytes have come; after a failed recv there is no answer.
UploadReceive(s) ==
  /\ ServerRecv(s, "receive")
  /\ Incoming(s) # Eof
  /\ Answer(s, IF Incoming(s) = Err THEN <<>> ELSE <<Flag(NO_ERROR)>>)
  /\ Goto(s, "command")
  /\ UNCHANGED <<acc, salt, uid, client, users, lost, odd>>

Exit(s) ==
  /\ ServerRecv(s, "command")
  /\ Kind(s) = "exit"
  /\ Answer(s, <<Flag(NO_ERROR)>>)
  /\ Goto(s, "over")
  /\ UNCHANGED <<acc, salt, uid, client, users, lost, odd>>

\* RePassWd sends a new salt, waits for the cipher, and the user logs in again.
RePassWd(s) ==
  /\ ServerRecv(s, "command")
  /\ Kind(s) = "rp"
  /\ \E x \in GetRandomStr :
       /\ salt' = [salt EXCEPT ![s] = x]
       /\ Answer(s, <<Flag(NO_ERROR), Msg("salt", x)>>)
  /\ Goto(s, "rpcipher")
  /\ UNCHANGED <<acc, uid, client, users, lost, odd>>

\* Mutant: after a new password the thread stays in the command loop.
RePassWdUpdate_StaysIn(s) ==
  /\ ServerRecv(s, "rpcipher")
  /\ Incoming(s) # Eof
  /\ users' = [users EXCEPT ![uid[s]].salt = salt[s], ![uid[s]].hash = Hash(s)]
  /\ Answer(s, <<Flag(NO_ERROR)>>)
  /\ Goto(s, "command")
  /\ UNCHANGED <<acc, salt, uid, client, lost, odd>>

RePassWdUpdate(s) ==
  /\ ServerRecv(s, "rpcipher")
  /\ Incoming(s) # Eof
  /\ users' = [users EXCEPT ![uid[s]].salt = salt[s], ![uid[s]].hash = Hash(s)]
  /\ Answer(s, <<Flag(IF users' = users THEN RUN_ERROR ELSE NO_ERROR)>>)
  /\ Goto(s, "account")
  /\ UNCHANGED <<acc, salt, uid, client, lost, odd>>

\* The process is ended by a signal, or by another session.  A client whose
\* message was not read yet gets an error before the end of the stream.
ServerExit ==
  /\ "exit" \in Fault
  /\ \E s \in Sessions : spc[s] # "dead"
  /\ spc' = [s \in Sessions |-> "dead"]
  /\ down' = [s \in Sessions |->
       IF up[s] # <<>> /\ ~Over(s) /\ peer[s] = "open" THEN Append(down[s], Err) ELSE down[s]]
  /\ UNCHANGED <<acc, salt, uid, client, up, peer, users, lost, odd>>

ThreadStep(s) ==
  \/ ServerEof(s) \/ LoginOrSignin(s) \/ SignIn(s) \/ Login(s)
  \/ CmdAnalyse(s) \/ Download(s) \/ DownloadAck(s) \/ Upload(s) \/ UploadReceive(s)
  \/ Exit(s) \/ RePassWd(s) \/ RePassWdUpdate(s)

-----------------------------------------------------------------------------
(* The client: UserLogin.                                                  *)

\* A send of the client.  After the server closed, SIGPIPE may end the client.
SendOrDie(s, msg, pc) ==
  \/ ClientSend(s, msg) /\ ClientGoto(s, pc) /\ UNCHANGED peer
  \/ /\ Over(s)
     /\ ClientGoto(s, "closed")
     /\ peer' = [peer EXCEPT ![s] = "closed"]
     /\ UNCHANGED up

\* The user chooses to log in or to sign up.
UseChoose(s) ==
  /\ cpc[s] = "menu"
  /\ ~lost[s]
  /\ \E opt \in {"login", "signin"}, name \in Name :
       SendOrDie(s, Msg("account", [opt |-> opt, name |-> name]), "flag")
  /\ UNCHANGED <<server, cmd, down, users, lost, odd>>

\* flag is 0 before recv; only -1 is a refusal.  On an error UserLogin returns,
\* and main goes on as after a login.
RecvFlag(s) ==
  /\ ClientRecv(s, "flag")
  /\ ClientGoto(s, IF Received(s) = Err THEN "pwd" ELSE IF Value(s, 0) = -1 THEN "menu" ELSE "salt")
  /\ UNCHANGED <<server, cmd, up, peer, users, lost, odd>>

\* crypt with the salt (an empty one, if the stream ended).
RecvSalt(s) ==
  /\ ClientRecv(s, "salt")
  /\ IF Received(s) = Err
     THEN ClientGoto(s, "pwd") /\ UNCHANGED <<up, peer>>
     ELSE \E p \in Password : SendOrDie(s, Msg("cipher", <<p, Value(s, 0)>>), "login")
  /\ UNCHANGED <<server, cmd, users, lost, odd>>

Welcome(s) ==
  /\ ClientRecv(s, "login")
  /\ ClientGoto(s, IF Value(s, 0) = -1 THEN "menu" ELSE "pwd")
  /\ UNCHANGED <<server, cmd, up, peer, users, lost, odd>>

\* recv takes text, or the end of the stream; an error ends main.
TakeText(s, pc) ==
  /\ ClientRecv(s, pc)
  /\ ClientGoto(s, IF Received(s) = Err THEN "closed" ELSE "prompt")
  /\ peer' = [peer EXCEPT ![s] = IF Received(s) = Err THEN "closed" ELSE @]
  /\ UNCHANGED <<server, cmd, up, users, lost, odd>>

RecvPwd(s) == TakeText(s, "pwd")

-----------------------------------------------------------------------------
(* The client: the command loop of main.                                   *)

\* SendCommand, first half.  What stays local (clear, an empty line, an upload
\* of a file that is not there) is left out.
Prompt(s, kind) ==
  /\ cpc[s] = "prompt"
  /\ ~lost[s]
  /\ cmd' = [cmd EXCEPT ![s] = kind]
  /\ SendOrDie(s, Msg("command", kind), "confirm")
  /\ UNCHANGED <<server, down, users, lost, odd>>

\* DownloadCommand returns -1 when it cannot open the local file.  No command
\* is sent, but main takes the -1 for success and sends the final integer.
\* Bound: not again in a session whose sides differ already.
DownloadOpenFails(s) ==
  /\ "open" \in Fault
  /\ ~odd[s]
  /\ cpc[s] = "prompt"
  /\ ~lost[s]
  /\ odd' = [odd EXCEPT ![s] = TRUE]
  /\ SendOrDie(s, Msg("int", -1), "prompt")
  /\ UNCHANGED <<server, cmd, down, users, lost>>

\* The recv after the first answer, per command.
AfterConfirm(kind) ==
  CASE kind \in {"change", "list", "cd"} -> "result"
    [] kind = "download" -> "size"
    [] kind = "upload"   -> "offset"
    [] kind = "rp"       -> "rpsalt"
    [] kind = "exit"     -> "closed"
    [] OTHER             -> "prompt"

\* SendCommand, second half; ret still holds the 260 bytes that send reported.
Confirm(s) ==
  /\ ClientRecv(s, "confirm")
  /\ LET next == IF Value(s, 260) = NO_ERROR THEN AfterConfirm(cmd[s]) ELSE "prompt"
     IN /\ ClientGoto(s, next)
        /\ peer' = [peer EXCEPT ![s] = IF next = "closed" THEN "closed" ELSE @]
  /\ UNCHANGED <<server, cmd, up, users, lost, odd>>

\* Mutant: the client waits for the text whatever the result is.
Result_AlwaysText(s) ==
  /\ ClientRecv(s, "result")
  /\ ClientGoto(s, IF cmd[s] # "change" THEN "text" ELSE "prompt")
  /\ UNCHANGED <<server, cmd, up, peer, users, lost, odd>>

\* The result of the command: text follows a list, or a cd, that succeeded.
Result(s) ==
  /\ ClientRecv(s, "result")
  /\ ClientGoto(s, IF cmd[s] # "change" /\ Value(s, NO_ERROR) = NO_ERROR THEN "text" ELSE "prompt")
  /\ UNCHANGED <<server, cmd, up, peer, users, lost, odd>>

RecvText(s) == TakeText(s, "text")

\* DownloadCommand: the size; when nothing remains, the final integer.
DownloadSize(s) ==
  /\ ClientRecv(s, "size")
  /\ LET size == Value(s, 0)
     IN IF size # NO_SUCH_FILE /\ size <= 0 THEN SendOrDie(s, Msg("int", NO_ERROR), "prompt")
        ELSE /\ ClientGoto(s, IF size > 0 THEN "content" ELSE "prompt")
             /\ UNCHANGED <<up, peer>>
  /\ UNCHANGED <<server, cmd, users, lost, odd>>

\* The content; the client exits if the stream ends in it.
DownloadContent(s) ==
  /\ ClientRecv(s, "content")
  /\ IF Received(s) = Eof
     THEN /\ ClientGoto(s, "closed")
          /\ peer' = [peer EXCEPT ![s] = "closed"]
          /\ UNCHANGED up
     ELSE SendOrDie(s, Msg("int", NO_ERROR), "prompt")
  /\ UNCHANGED <<server, cmd, users, lost, odd>>

\* UploadCommand: the offset, then what is missing (everything, if the stream
\* ended).  On an error nothing is sent, but main waits for the answer.
UploadOffset(s) ==
  /\ ClientRecv(s, "offset")
  /\ LET missing == IF Received(s) = Err THEN 0 ELSE Value(s, 1)
     IN IF missing = 1 THEN SendOrDie(s, Msg("data", 0), "done")
        ELSE /\ ClientGoto(s, IF missing = 0 THEN "done" ELSE "prompt")
             /\ UNCHANGED <<up, peer>>
  /\ UNCHANGED <<server, cmd, users, lost, odd>>

UploadDone(s) ==
  /\ ClientRecv(s, "done")
  /\ ClientGoto(s, "prompt")
  /\ UNCHANGED <<server, cmd, up, peer, users, lost, odd>>

\* RepasswdCommand: the salt, the cipher, and any answer, or an error, means a new login.
RepasswdSalt(s) ==
  /\ ClientRecv(s, "rpsalt")
  /\ IF Received(s) = Err
     THEN ClientGoto(s, "menu") /\ UNCHANGED <<up, peer>>
     ELSE \E p \in Password : SendOrDie(s, Msg("cipher", <<p, Value(s, 0)>>), "rpret")
  /\ UNCHANGED <<server, cmd, users, lost, odd>>

RepasswdRet(s) ==
  /\ ClientRecv(s, "rpret")
  /\ ClientGoto(s, "menu")
  /\ UNCHANGED <<server, cmd, up, peer, users, lost, odd>>

ClientStep(s) ==
  \/ RecvFlag(s) \/ RecvSalt(s) \/ Welcome(s) \/ RecvPwd(s) \/ Confirm(s)
  \/ Result(s) \/ RecvText(s) \/ DownloadSize(s) \/ DownloadContent(s)
  \/ UploadOffset(s) \/ UploadDone(s) \/ RepasswdSalt(s) \/ RepasswdRet(s)

\* The client is killed.  Closing a socket with unread data resets the stream.
ClientKilled(s) ==
  /\ "close" \in Fault
  /\ cpc[s] # "closed"
  /\ ClientGoto(s, "closed")
  /\ peer' = [peer EXCEPT ![s] = IF down[s] = <<>> THEN "closed" ELSE "reset"]
  /\ down' = [down EXCEPT ![s] = <<>>]
  /\ UNCHANGED <<server, cmd, up, users, lost, odd>>

\* One side meets a message that it does not expect.
LosePlace(s) ==
  /\ ~lost[s]
  /\ \/ /\ spc[s] \in DOMAIN ServerExpects
        /\ up[s] # <<>>
        /\ Head(up[s]).type # ServerExpects[spc[s]]
     \/ /\ cpc[s] \in DOMAIN ClientExpects
        /\ down[s] # <<>>
        /\ Head(down[s]).type \notin {ClientExpects[cpc[s]], "error"}
  /\ lost' = [lost EXCEPT ![s] = TRUE]
  /\ UNCHANGED <<server, client, up, down, peer, users, odd>>

-----------------------------------------------------------------------------
Next ==
  \/ ServerExit
  \/ \E s \in Sessions :
       \/ Begin(s) \/ ConnectFails(s) \/ ThreadStep(s)
       \/ UseChoose(s) \/ ClientStep(s) \/ DownloadOpenFails(s) \/ ClientKilled(s)
       \/ LosePlace(s)
       \/ \E kind \in Command : Prompt(s, kind)

Spec == Init /\ [][Next]_vars

\* The pool gives every session a thread (ThreadPool), a thread that can run
\* does, and so does a client; nobody has to type anything.
Fairness ==
  \A s \in Sessions :
    /\ WF_vars(Begin(s) \/ ConnectFails(s))
    /\ WF_vars(ThreadStep(s))
    /\ WF_vars(ClientStep(s))

FairSpec == Spec /\ Fairness

-----------------------------------------------------------------------------
TypeOK ==
  /\ spc \in [Sessions -> DOMAIN ServerExpects \union {"start", "gone", "over", "dead"}]
  /\ cpc \in [Sessions -> DOMAIN ClientExpects \union {"menu", "prompt", "closed"}]
  /\ peer \in [Sessions -> {"open", "closed", "reset"}]
  /\ \A s \in Sessions : uid[s] \in 0..Len(users)
  /\ \A i \in DOMAIN users : users[i].name \in Name /\ users[i].salt \in Salt

\* Neither side ever takes a message for another, but after a download that
\* left the two with different ideas of the final integer.
InStep == \A s \in Sessions : lost[s] => odd[s]

\* The two sides never both wait for each other with nothing under way.
NobodyWaitsForNobody ==
  \A s \in Sessions :
    ~odd[s] /\ peer[s] = "open" /\ cpc[s] \in DOMAIN ClientExpects /\ up[s] = <<>> /\ down[s] = <<>>
      => spc[s] \notin DOMAIN ServerExpects

\* A client at its prompt has read all that was sent, and faces a thread that
\* is ready for a command of a logged-in user (at most the integer after a
\* download is still to be taken); at its menu, one that is ready for an account.
PhasesAgree ==
  \A s \in Sessions : ~odd[s] /\ ~Over(s) =>
    /\ cpc[s] = "prompt" =>
         /\ down[s] = <<>>
         /\ uid[s] # 0
         /\ IF spc[s] = "ack" THEN Len(up[s]) = 1 ELSE spc[s] = "command" /\ up[s] = <<>>
    /\ cpc[s] = "menu" => down[s] = <<>> /\ up[s] = <<>> /\ spc[s] \in {"start", "gone", "account"}

\* A user is let in with the password that the row had at that moment, or has
\* just been entered in the row: never with a cipher made from another salt.
EntersWithOwnHash ==
  [][\A s \in Sessions : uid'[s] # uid[s] =>
       LET row == users'[uid'[s]]
       IN row.name = acc[s].name /\ row.hash = Hash(s)]_vars

\* Whatever it waits for, a client gets an answer, or the end of the stream.
EveryRequestAnswered ==
  \A s \in Sessions : (cpc[s] \in DOMAIN ClientExpects) ~> (cpc[s] \notin DOMAIN ClientExpects \/ odd[s])
=============================================================================
