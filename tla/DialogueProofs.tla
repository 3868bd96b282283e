--------------------------- MODULE DialogueProofs ---------------------------
(***************************************************************************)
(* The two sides of a session agree, for any number of sessions, users,    *)
(* passwords, salts and commands, and for every fault.                     *)
(*                                                                         *)
(* The invariant is a table: for each place of the client it lists what    *)
(* may be under way in the two streams, and where the thread then waits.   *)
(* A step of the thread moves a session along a row, a step of the client  *)
(* to another row; after the server has closed, what is left for the       *)
(* client is still a row, the thread's place no longer matters; after the  *)
(* client has gone, what is left for the thread fits the recv it is in.    *)
(***************************************************************************)
EXTENDS SessionProofs

(***************************************************************************)
(* What is under way when the client waits in a recv, or for its user:     *)
(* d is what the thread has sent, u what the client has sent, p where the  *)
(* thread waits, k the command.                                            *)
(***************************************************************************)
Greeting == {"start", "gone", "account"}

AtMenu(d, u, p) == d = <<>> /\ u = <<>> /\ p \in Greeting

AtFlag(d, u, p) ==
  \/ d = <<>> /\ (\E a \in Accounts : u = <<a>>) /\ p \in Greeting
  \/ u = <<>> /\ p = "cipher" /\ \E w \in Nat, m \in Salts : d = <<Flag(w), m>>
  \/ u = <<>> /\ p = "account" /\ d = <<Flag(-1)>>

AtSalt(d, u, p) == u = <<>> /\ p = "cipher" /\ \E m \in Salts : d = <<m>>

AtLogin(d, u, p, id) ==
  \/ d = <<>> /\ (\E h \in Ciphers : u = <<h>>) /\ p = "cipher"
  \/ u = <<>> /\ p = "account" /\ d = <<Flag(-1)>>
  \/ u = <<>> /\ p = "command" /\ id # 0 /\ \E w \in Nat : d = <<Flag(w), Text>>

AtText(d, u, p) == u = <<>> /\ p = "command" /\ d = <<Text>>

AtPrompt(d, u, p) ==
  d = <<>> /\ ((p = "command" /\ u = <<>>) \/ (p = "ack" /\ u = <<Done>>))

AtConfirm(d, u, p, k) ==
  \/ /\ d = <<>> /\ k \in Command
     /\ \/ p = "command" /\ u = <<Msg("command", k)>>
        \/ p = "ack" /\ u = <<Done, Msg("command", k)>>
  \/ /\ u = <<>>
     /\ \/ p = "command" /\ d \in Replies(k)
        \/ p = "ack" /\ k = "download" /\ \/ \E z \in {-1, 0} : d = <<Flag(NO_ERROR), Msg("size", z)>>
                                          \/ d = <<Flag(NO_ERROR), Msg("size", 1), Data>>
        \/ p = "receive" /\ k = "upload" /\ d = <<Flag(NO_ERROR), Msg("size", 1)>>
        \/ p = "rpcipher" /\ k = "rp" /\ \E m \in Salts : d = <<Flag(NO_ERROR), m>>
        \/ p = "over" /\ k = "exit" /\ d = <<Flag(NO_ERROR)>>

AtResult(d, u, p, k) ==
  /\ u = <<>> /\ p = "command"
  /\ \/ k = "change" /\ \E f \in {NO_ERROR, RUN_ERROR} : d = <<Flag(f)>>
     \/ k \in {"list", "cd"} /\ d \in {<<Flag(NO_ERROR), Text>>, <<Flag(RUN_ERROR)>>}

AtSize(d, u, p) ==
  /\ u = <<>>
  /\ \/ p = "command" /\ d = <<Msg("size", NO_SUCH_FILE)>>
     \/ p = "ack" /\ \E z \in {-1, 0} : d = <<Msg("size", z)>>
     \/ p = "ack" /\ d = <<Msg("size", 1), Data>>

AtContent(d, u, p) == u = <<>> /\ p = "ack" /\ d = <<Data>>

AtOffset(d, u, p) ==
  /\ u = <<>>
  /\ \/ p = "command" /\ d = <<Msg("size", UPLOAD_EXISTING_FILE)>>
     \/ p = "command" /\ d = <<Msg("size", 0), Flag(NO_ERROR)>>
     \/ p = "receive" /\ d = <<Msg("size", 1)>>

AtDone(d, u, p) ==
  \/ u = <<>> /\ p = "command" /\ d = <<Flag(NO_ERROR)>>
  \/ u = <<Data>> /\ p = "receive" /\ d = <<>>

AtRpSalt(d, u, p) == u = <<>> /\ p = "rpcipher" /\ \E m \in Salts : d = <<m>>

AtRpRet(d, u, p) ==
  \/ d = <<>> /\ p = "rpcipher" /\ \E h \in Ciphers : u = <<h>>
  \/ u = <<>> /\ p = "account" /\ \E f \in {NO_ERROR, RUN_ERROR} : d = <<Flag(f)>>

Outside == {"menu", "flag", "salt", "login"}

Table(c, k, id, d, u, p) ==
  /\ c \in ClientPlaces \ {"closed"}
  /\ c \notin Outside => id # 0
  /\ c = "menu" => AtMenu(d, u, p)
  /\ c = "flag" => AtFlag(d, u, p)
  /\ c = "salt" => AtSalt(d, u, p)
  /\ c = "login" => AtLogin(d, u, p, id)
  /\ c \in {"pwd", "text"} => AtText(d, u, p)
  /\ c = "prompt" => AtPrompt(d, u, p)
  /\ c = "confirm" => AtConfirm(d, u, p, k)
  /\ c = "result" => AtResult(d, u, p, k)
  /\ c = "size" => AtSize(d, u, p)
  /\ c = "content" => AtContent(d, u, p)
  /\ c = "offset" => AtOffset(d, u, p)
  /\ c = "done" => AtDone(d, u, p)
  /\ c = "rpsalt" => AtRpSalt(d, u, p)
  /\ c = "rpret" => AtRpRet(d, u, p)

\* What the client has still sent is for the recv that the thread is in.
UpFits(p, u) ==
  \/ u = <<>>
  \/ p \in Greeting /\ \E a \in Accounts : u = <<a>>
  \/ p \in {"cipher", "rpcipher"} /\ \E h \in Ciphers : u = <<h>>
  \/ p = "command" /\ \E m \in Commands : u = <<m>>
  \/ p = "ack" /\ (u = <<Done>> \/ \E m \in Commands : u = <<Done, m>>)
  \/ p = "receive" /\ u = <<Data>>

Drained(s) ==
  \/ down[s] \in {<<>>, <<Err>>}
  \/ \E p \in ServerPlaces : Table(cpc[s], cmd[s], uid[s], down[s], <<>>, p)

Agree(s) ==
  /\ ~lost[s]
  /\ ~Over(s) /\ peer[s] = "open" => Table(cpc[s], cmd[s], uid[s], down[s], up[s], spc[s])
  /\ ~Over(s) /\ peer[s] # "open" => UpFits(spc[s], up[s])
  /\ Over(s) /\ peer[s] = "open" => Drained(s)

Good(s) == odd[s] \/ Agree(s)

DInv == TInv /\ \A s \in Sessions : Good(s)

-----------------------------------------------------------------------------
(* Short sequences.                                                        *)

LEMMA One ==
  ASSUME NEW x
  PROVE  <<x>> # <<>> /\ Head(<<x>>) = x /\ Tail(<<x>>) = <<>> /\ Len(<<x>>) = 1
  OBVIOUS

LEMMA Two ==
  ASSUME NEW x, NEW y
  PROVE  <<x, y>> # <<>> /\ Head(<<x, y>>) = x /\ Tail(<<x, y>>) = <<y>> /\ Len(<<x, y>>) = 2
  OBVIOUS

LEMMA Three ==
  ASSUME NEW x, NEW y, NEW z
  PROVE  <<x, y, z>> # <<>> /\ Head(<<x, y, z>>) = x /\ Tail(<<x, y, z>>) = <<y, z>>
  OBVIOUS

LEMMA Joined ==
  ASSUME NEW x, NEW y, NEW z
  PROVE  /\ Append(<<>>, x) = <<x>> /\ Append(<<x>>, y) = <<x, y>>
         /\ <<>> \o <<x>> = <<x>> /\ <<>> \o <<x, y>> = <<x, y>> /\ <<>> \o <<x, y, z>> = <<x, y, z>>
         /\ <<x, y>> \o <<z>> = <<x, y, z>> /\ <<x, y>> \o <<>> = <<x, y>>
  <1> DEFINE S == {x, y, z}
  <1>1. /\ <<>> \in Seq(S) /\ <<x>> \in Seq(S) /\ <<x, y>> \in Seq(S) /\ <<x, y, z>> \in Seq(S)
        /\ <<z>> \in Seq(S)
    OBVIOUS
  <1>2. Append(<<>>, x) = <<x>>
    OBVIOUS
  <1>3. Append(<<x>>, y) = <<x, y>>
    <2>1. /\ Append(<<x>>, y) \in Seq(S) /\ Len(Append(<<x>>, y)) = 2
          /\ Append(<<x>>, y)[1] = x /\ Append(<<x>>, y)[2] = y
      BY <1>1, AppendProperties
    <2>2. Len(<<x, y>>) = 2 /\ <<x, y>>[1] = x /\ <<x, y>>[2] = y
      OBVIOUS
    <2>3. \A i \in 1..2 : i = 1 \/ i = 2
      OBVIOUS
    <2> HIDE DEF S
    <2> QED BY <1>1, <2>1, <2>2, <2>3, SeqEqual
  <1>4. /\ <<>> \o <<x>> = <<x>> /\ <<>> \o <<x, y>> = <<x, y>> /\ <<>> \o <<x, y, z>> = <<x, y, z>>
        /\ <<x, y>> \o <<>> = <<x, y>>
    BY <1>1, ConcatEmptySeq
  <1>5. <<x, y>> \o <<z>> = <<x, y, z>>
    <2>1. /\ <<x, y>> \o <<z>> \in Seq(S) /\ Len(<<x, y>> \o <<z>>) = 3
          /\ (<<x, y>> \o <<z>>)[1] = x /\ (<<x, y>> \o <<z>>)[2] = y /\ (<<x, y>> \o <<z>>)[3] = z
      BY <1>1, ConcatProperties
    <2>2. Len(<<x, y, z>>) = 3 /\ <<x, y, z>>[1] = x /\ <<x, y, z>>[2] = y /\ <<x, y, z>>[3] = z
      OBVIOUS
    <2>3. \A i \in 1..3 : i = 1 \/ i = 2 \/ i = 3
      OBVIOUS
    <2> HIDE DEF S
    <2> QED BY <1>1, <2>1, <2>2, <2>3, SeqEqual
  <1> QED BY <1>2, <1>3, <1>4, <1>5

-----------------------------------------------------------------------------
(* The table, place by place.                                              *)

LEMMA Places ==
  ASSUME NEW k, NEW id, NEW d, NEW u, NEW p
  PROVE  /\ Table("menu", k, id, d, u, p) <=> AtMenu(d, u, p)
         /\ Table("flag", k, id, d, u, p) <=> AtFlag(d, u, p)
         /\ Table("salt", k, id, d, u, p) <=> AtSalt(d, u, p)
         /\ Table("login", k, id, d, u, p) <=> AtLogin(d, u, p, id)
         /\ Table("pwd", k, id, d, u, p) <=> id # 0 /\ AtText(d, u, p)
         /\ Table("text", k, id, d, u, p) <=> id # 0 /\ AtText(d, u, p)
         /\ Table("prompt", k, id, d, u, p) <=> id # 0 /\ AtPrompt(d, u, p)
         /\ Table("confirm", k, id, d, u, p) <=> id # 0 /\ AtConfirm(d, u, p, k)
         /\ Table("result", k, id, d, u, p) <=> id # 0 /\ AtResult(d, u, p, k)
         /\ Table("size", k, id, d, u, p) <=> id # 0 /\ AtSize(d, u, p)
         /\ Table("content", k, id, d, u, p) <=> id # 0 /\ AtContent(d, u, p)
         /\ Table("offset", k, id, d, u, p) <=> id # 0 /\ AtOffset(d, u, p)
         /\ Table("done", k, id, d, u, p) <=> id # 0 /\ AtDone(d, u, p)
         /\ Table("rpsalt", k, id, d, u, p) <=> id # 0 /\ AtRpSalt(d, u, p)
         /\ Table("rpret", k, id, d, u, p) <=> id # 0 /\ AtRpRet(d, u, p)
  BY DEF Table, Outside, ClientPlaces, ClientExpects

LEMMA ManyPlaces ==
  ASSUME NEW c \in ClientPlaces \ {"closed"}
  PROVE  c \in {"menu", "flag", "salt", "login", "pwd", "text", "prompt", "confirm", "result", "size",
                "content", "offset", "done", "rpsalt", "rpret"}
  BY DEF ClientPlaces, ClientExpects

\* Every answer of a command begins with a flag.
LEMMA RepliesBegin ==
  ASSUME NEW k, NEW d \in Replies(k)
  PROVE  d # <<>> /\ \E w \in Int : Head(d) = Flag(w)
  <1> USE DEF NO_ERROR, RUN_ERROR, ARGS_NUM_ERROR, ERROR_CMD
  <1>1. CASE k \in {"unknown", "args"}
    BY <1>1, One DEF Replies
  <1>2. CASE k = "change"
    BY <1>2, Two DEF Replies
  <1>3. CASE k \in {"list", "cd"}
    BY <1>3, Two, Three DEF Replies
  <1>4. CASE k = "download"
    BY <1>4, Two DEF Replies
  <1>5. CASE k = "upload"
    <2>1. d \in {<<Flag(NO_ERROR), Msg("size", UPLOAD_EXISTING_FILE)>>,
                 <<Flag(NO_ERROR), Msg("size", 0), Flag(NO_ERROR)>>}
      BY <1>5 DEF Replies
    <2>2. d # <<>> /\ Head(d) = Flag(NO_ERROR)
      BY <2>1, Two, Three
    <2> QED BY <2>2
  <1> QED BY <1>1, <1>2, <1>3, <1>4, <1>5 DEF Replies

\* What is on its way to the client is what its recv is there to receive.
LEMMA ClientFits ==
  ASSUME NEW c, NEW k, NEW id, NEW d, NEW u, NEW p, Table(c, k, id, d, u, p), d # <<>>
  PROVE  c \in DOMAIN ClientExpects /\ Head(d).type = ClientExpects[c] /\ u = <<>>
  <1> USE DEF ClientExpects, Flag, Msg, Text, Data, Salts
  <1>1. c \in ClientPlaces \ {"closed"}
    BY DEF Table
  <1>2. CASE c \in {"menu", "prompt"}
    BY <1>2, Places DEF AtMenu, AtPrompt
  <1>3. CASE c \in {"flag", "login"}
    BY <1>3, Places, One, Two DEF AtFlag, AtLogin
  <1>4. CASE c \in {"salt", "pwd", "text"}
    BY <1>4, Places, One DEF AtSalt, AtText
  <1>5. CASE c = "confirm"
    <2>1. u = <<>>
      BY <1>5, Places DEF AtConfirm
    <2>2. CASE p = "command" /\ d \in Replies(k)
      BY <1>5, <2>1, <2>2, RepliesBegin
    <2>3. CASE ~(p = "command" /\ d \in Replies(k))
      BY <1>5, <2>1, <2>3, Places, One, Two, Three DEF AtConfirm
    <2> QED BY <2>2, <2>3
  <1>6. CASE c = "result"
    BY <1>6, Places, One, Two DEF AtResult
  <1>7. CASE c \in {"size", "content"}
    BY <1>7, Places, One, Two DEF AtSize, AtContent
  <1>8. CASE c \in {"offset", "done"}
    BY <1>8, Places, One, Two DEF AtOffset, AtDone
  <1>9. CASE c \in {"rpsalt", "rpret"}
    BY <1>9, Places, One DEF AtRpSalt, AtRpRet
  <1> QED BY <1>1, <1>2, <1>3, <1>4, <1>5, <1>6, <1>7, <1>8, <1>9, ManyPlaces

\* What is on its way to the thread, by the place of the thread.
LEMMA Asks ==
  ASSUME NEW c, NEW k, NEW id, NEW d, NEW u, NEW p, Table(c, k, id, d, u, p), u # <<>>
  PROVE  /\ d = <<>>
         /\ p \in Greeting \union {"cipher", "command", "ack", "receive", "rpcipher"}
         /\ p \in Greeting => c = "flag" /\ \E a \in Accounts : u = <<a>>
         /\ p = "cipher" => c = "login" /\ \E h \in Ciphers : u = <<h>>
         /\ p = "command" => c = "confirm" /\ k \in Command /\ u = <<Msg("command", k)>>
         /\ p = "ack" => \/ c = "prompt" /\ u = <<Done>>
                         \/ c = "confirm" /\ k \in Command /\ u = <<Done, Msg("command", k)>>
         /\ p = "receive" => c = "done" /\ u = <<Data>>
         /\ p = "rpcipher" => c = "rpret" /\ \E h \in Ciphers : u = <<h>>
         /\ c \notin {"flag", "login"} => id # 0
  <1> USE DEF Greeting
  <1>1. c \in ClientPlaces \ {"closed"} /\ (c \notin {"flag", "login", "menu", "salt"} => id # 0)
    BY DEF Table, Outside
  <1>2. CASE c \in {"menu", "prompt", "flag", "salt", "login", "pwd", "text"}
    BY <1>1, <1>2, Places DEF AtMenu, AtPrompt, AtFlag, AtSalt, AtLogin, AtText
  <1>3. CASE c = "confirm"
    BY <1>1, <1>3, Places DEF AtConfirm
  <1>4. CASE c \in {"result", "size", "content", "offset"}
    BY <1>1, <1>4, Places DEF AtResult, AtSize, AtContent, AtOffset
  <1>5. CASE c \in {"done", "rpsalt", "rpret"}
    BY <1>1, <1>5, Places DEF AtDone, AtRpSalt, AtRpRet
  <1> QED BY <1>1, <1>2, <1>3, <1>4, <1>5, ManyPlaces

LEMMA AsksFits ==
  ASSUME NEW c, NEW k, NEW id, NEW d, NEW u, NEW p, Table(c, k, id, d, u, p)
  PROVE  UpFits(p, u)
  BY Asks DEF UpFits, Commands

LEMMA UpFitsHead ==
  ASSUME NEW p \in DOMAIN ServerExpects, NEW u, UpFits(p, u), u # <<>>
  PROVE  /\ Head(u).type = ServerExpects[p]
         /\ Tail(u) = <<>> \/ (p = "ack" /\ \E m \in Commands : Tail(u) = <<m>>)
  <1>1. CASE p = "account"
    <2>1. PICK a \in Accounts : u = <<a>>
      BY <1>1 DEF UpFits
    <2>2. a.type = "account"
      BY DEF Accounts, Msg
    <2> QED BY <1>1, <2>1, <2>2, One DEF ServerExpects
  <1>2. CASE p \in {"cipher", "rpcipher"}
    <2>1. PICK h \in Ciphers : u = <<h>>
      BY <1>2 DEF UpFits, Greeting
    <2>2. h.type = "cipher"
      BY DEF Ciphers, Msg
    <2> QED BY <1>2, <2>1, <2>2, One DEF ServerExpects
  <1>3. CASE p = "command"
    <2>1. PICK m \in Commands : u = <<m>>
      BY <1>3 DEF UpFits, Greeting
    <2>2. m.type = "command"
      BY DEF Commands, Msg
    <2> QED BY <1>3, <2>1, <2>2, One DEF ServerExpects
  <1>4. CASE p = "ack"
    <2>1. u = <<Done>> \/ \E m \in Commands : u = <<Done, m>>
      BY <1>4 DEF UpFits, Greeting
    <2>2. Done.type = "int"
      BY DEF Done, Msg
    <2>3. Head(u) = Done /\ (Tail(u) = <<>> \/ \E m \in Commands : Tail(u) = <<m>>)
      <3>1. CASE u = <<Done>>
        BY <3>1, One
      <3>2. CASE \E m \in Commands : u = <<Done, m>>
        BY <3>2, Two
      <3> QED BY <2>1, <3>1, <3>2
    <2> QED BY <1>4, <2>2, <2>3 DEF ServerExpects
  <1>5. CASE p = "receive"
    <2>1. u = <<Data>>
      BY <1>5 DEF UpFits, Greeting
    <2>2. Data.type = "data"
      BY DEF Data, Msg
    <2> QED BY <1>5, <2>1, <2>2, One DEF ServerExpects
  <1> QED BY <1>1, <1>2, <1>3, <1>4, <1>5 DEF ServerExpects

-----------------------------------------------------------------------------
(* The steps of a thread whose client is there.                            *)

Now(s) == Table(cpc[s], cmd[s], uid[s], down[s], up[s], spc[s])

LEMMA StillAgrees ==
  ASSUME NEW s, ~lost[s], UNCHANGED lost, peer'[s] = "open", ~Over(s)', Now(s)'
  PROVE  Agree(s)'
  BY DEF Agree, Now

LEMMA Heard ==
  ASSUME TInv, NEW s \in Sessions, Agree(s), NEW pc \in DOMAIN ServerExpects, ServerRecv(s, pc), peer[s] = "open"
  PROVE  /\ ~lost[s] /\ ~Over(s) /\ Now(s) /\ spc[s] = pc
         /\ up[s] # <<>> /\ Incoming(s) = Head(up[s]) /\ up'[s] = Tail(up[s])
         /\ down[s] = <<>> /\ peer'[s] = "open"
  <1>1. spc[s] = pc /\ ~Over(s)
    BY ServerTakes DEF TInv, Over, ServerExpects
  <1>2. Now(s) /\ ~lost[s]
    BY <1>1 DEF Agree, Now
  <1>3. up[s] # <<>> /\ Incoming(s) = Head(up[s]) /\ up'[s] = Tail(up[s]) /\ peer' = peer
    BY ServerTakes DEF TInv
  <1>4. down[s] = <<>>
    BY <1>2, <1>3, Asks DEF Now
  <1> QED BY <1>1, <1>2, <1>3, <1>4

\* What the thread then takes, and where the client waits for the answer.
LEMMA Takes ==
  ASSUME TInv, NEW s \in Sessions, Agree(s), NEW pc \in DOMAIN ServerExpects, ServerRecv(s, pc), peer[s] = "open"
  PROVE  /\ pc = "account" => cpc[s] = "flag" /\ up'[s] = <<>>
         /\ pc = "cipher" => cpc[s] = "login" /\ up'[s] = <<>>
         /\ pc = "command" => /\ cpc[s] = "confirm" /\ up'[s] = <<>> /\ uid[s] # 0
                              /\ cmd[s] \in Command /\ Incoming(s) = Msg("command", cmd[s])
         /\ pc = "ack" => /\ uid[s] # 0
                          /\ \/ cpc[s] = "prompt" /\ up'[s] = <<>>
                             \/ /\ cpc[s] = "confirm" /\ cmd[s] \in Command
                                /\ up'[s] = <<Msg("command", cmd[s])>>
         /\ pc = "receive" => cpc[s] = "done" /\ up'[s] = <<>> /\ uid[s] # 0 /\ Incoming(s) = Data
         /\ pc = "rpcipher" => cpc[s] = "rpret" /\ up'[s] = <<>> /\ uid[s] # 0
  <1> DEFINE u == up[s]
             k == cmd[s]
             c == cpc[s]
  <1>1. /\ Table(c, k, uid[s], down[s], u, pc) /\ u # <<>>
        /\ Incoming(s) = Head(u) /\ up'[s] = Tail(u)
    BY Heard DEF Now
  <1> HIDE DEF u, k, c
  <1>2. /\ pc \in Greeting => c = "flag" /\ \E a \in Accounts : u = <<a>>
        /\ pc = "cipher" => c = "login" /\ \E h \in Ciphers : u = <<h>>
        /\ pc = "command" => c = "confirm" /\ k \in Command /\ u = <<Msg("command", k)>>
        /\ pc = "ack" => \/ c = "prompt" /\ u = <<Done>>
                         \/ c = "confirm" /\ k \in Command /\ u = <<Done, Msg("command", k)>>
        /\ pc = "receive" => c = "done" /\ u = <<Data>>
        /\ pc = "rpcipher" => c = "rpret" /\ \E h \in Ciphers : u = <<h>>
        /\ c \notin {"flag", "login"} => uid[s] # 0
    BY <1>1, Asks
  <1>3. CASE pc = "account"
    BY <1>1, <1>2, <1>3, One DEF Greeting, c
  <1>4. CASE pc \in {"cipher", "rpcipher"}
    BY <1>1, <1>2, <1>4, One DEF c
  <1>5. CASE pc = "command"
    BY <1>1, <1>2, <1>5, One DEF c, k
  <1>6. CASE pc = "ack"
    <2>1. CASE u = <<Done>>
      <3>1. Tail(u) = <<>> /\ u # <<Done, Msg("command", k)>>
        BY <2>1, One, Two
      <3> QED BY <1>1, <1>2, <1>6, <3>1 DEF c
    <2>2. CASE u = <<Done, Msg("command", k)>>
      <3>1. Tail(u) = <<Msg("command", k)>> /\ u # <<Done>>
        BY <2>2, One, Two
      <3> QED BY <1>1, <1>2, <1>6, <3>1 DEF c, k
    <2> QED BY <1>2, <1>6, <2>1, <2>2
  <1>7. CASE pc = "receive"
    BY <1>1, <1>2, <1>7, One DEF c
  <1> QED BY <1>3, <1>4, <1>5, <1>6, <1>7 DEF ServerExpects

LEMMA Answering ==
  ASSUME TInv, NEW s \in Sessions, NEW msgs \in Seq(DownMsg), Answer(s, msgs), peer[s] = "open", down[s] = <<>>
  PROVE  down'[s] = msgs
  <1>1. down'[s] = <<>> \o msgs
    BY Answered DEF TInv
  <1> QED BY <1>1, ConcatEmptySeq

LEMMA Going ==
  ASSUME TInv, NEW s \in Sessions, NEW pc \in DOMAIN ServerExpects, Goto(s, pc)
  PROVE  spc'[s] = pc /\ ~Over(s)'
  BY DEF TInv, Types, Goto, Over, ServerExpects

LEMMA LoginOrSigninAgrees ==
  ASSUME TInv, NEW s \in Sessions, Agree(s), LoginOrSignin(s), peer[s] = "open"
  PROVE  Agree(s)'
  <1> DEFINE rows == Rows(Account(s).name)
             signin == Account(s).opt = "signin"
  <1>1. /\ TInv /\ TInv' /\ Kept(s) /\ ServerRecv(s, "account")
        /\ UNCHANGED <<uid, cpc, cmd, lost>>
    BY LoginOrSigninKept, KeptIsEnough DEF LoginOrSignin, client
  <1>2. /\ ~lost[s] /\ ~Over(s) /\ Now(s) /\ spc[s] = "account" /\ up[s] # <<>> /\ up'[s] = Tail(up[s])
        /\ down[s] = <<>> /\ peer'[s] = "open"
    BY <1>1, Heard DEF ServerExpects
  <1>3. cpc[s] = "flag" /\ up'[s] = <<>>
    BY <1>1, Takes DEF ServerExpects
  <1>4. CASE (rows = {}) = signin
    <2>1. PICK x \in (IF signin THEN GetRandomStr ELSE {users[First(rows)].salt}) :
             /\ salt' = [salt EXCEPT ![s] = x]
             /\ Answer(s, <<Flag(Cardinality(rows)), Msg("salt", x)>>)
             /\ Goto(s, "cipher")
      BY <1>4 DEF LoginOrSignin
    <2>2. spc'[s] = "cipher" /\ ~Over(s)'
      BY <2>1, Going DEF ServerExpects
    <2>3. salt'[s] = x /\ salt'[s] \in Salt
      BY <1>1, <2>1, <2>2 DEF TInv, Types, Entry
    <2>4. Cardinality(rows) \in Nat
      BY Counted DEF TInv
    <2>5. <<Flag(Cardinality(rows)), Msg("salt", x)>> \in Seq(DownMsg)
      BY <2>3, <2>4, Answers
    <2>6. down'[s] = <<Flag(Cardinality(rows)), Msg("salt", x)>>
      BY <1>2, <2>1, <2>5, Answering
    <2>7. Msg("salt", x) \in Salts
      BY <2>3 DEF Salts
    <2>8. AtFlag(down'[s], up'[s], spc'[s])
      BY <1>3, <2>2, <2>4, <2>6, <2>7 DEF AtFlag
    <2>9. Now(s)'
      BY <1>1, <1>3, <2>8, Places DEF Now
    <2> QED BY <1>1, <1>2, <2>2, <2>9, StillAgrees
  <1>5. CASE (rows = {}) # signin
    <2>1. Answer(s, <<Flag(-1)>>) /\ UNCHANGED spc
      BY <1>5 DEF LoginOrSignin
    <2>2. <<Flag(-1)>> \in Seq(DownMsg)
      BY Answers
    <2>3. down'[s] = <<Flag(-1)>>
      BY <1>2, <2>1, <2>2, Answering
    <2>4. AtFlag(down'[s], up'[s], spc'[s])
      BY <1>2, <1>3, <2>1, <2>3 DEF AtFlag
    <2>5. Now(s)'
      BY <1>1, <1>3, <2>4, Places DEF Now
    <2>6. ~Over(s)'
      BY <1>2, <2>1 DEF Over
    <2> QED BY <1>1, <1>2, <2>5, <2>6, StillAgrees
  <1> QED BY <1>4, <1>5

\* The cipher came: the user enters, or is refused.
LEMMA CipherAgrees ==
  ASSUME TInv, NEW s \in Sessions, Agree(s), SignIn(s) \/ Login(s), peer[s] = "open"
  PROVE  Agree(s)'
  <1>1. /\ ServerRecv(s, "cipher") /\ UNCHANGED <<cpc, cmd, lost>>
    BY DEF SignIn, Login, client
  <1>2. /\ ~lost[s] /\ ~Over(s) /\ Now(s) /\ spc[s] = "cipher" /\ up[s] # <<>> /\ up'[s] = Tail(up[s])
        /\ down[s] = <<>> /\ peer'[s] = "open"
    BY <1>1, Heard DEF ServerExpects
  <1>3. cpc[s] = "login" /\ up'[s] = <<>>
    BY <1>1, Takes DEF ServerExpects
  <1>4. ASSUME NEW id \in Nat, id # 0, Enter(s, id)
        PROVE  Agree(s)'
    <2>1. <<Flag(id), Text>> \in Seq(DownMsg)
      BY Answers
    <2>2. down'[s] = <<Flag(id), Text>>
      BY <1>2, <1>4, <2>1, Answering DEF Enter
    <2>3. spc'[s] = "command" /\ ~Over(s)'
      BY <1>4, Going DEF Enter, ServerExpects
    <2>4. uid'[s] = id
      BY <1>4 DEF Enter, TInv, Types
    <2>5. AtLogin(down'[s], up'[s], spc'[s], uid'[s])
      BY <1>3, <1>4, <2>2, <2>3, <2>4 DEF AtLogin
    <2>6. Now(s)'
      BY <1>1, <1>3, <2>5, Places DEF Now
    <2> QED BY <1>1, <1>2, <2>3, <2>6, StillAgrees
  <1>5. CASE SignIn(s)
    <2>1. Enter(s, First(Matches(users', acc[s].name, Hash(s))))
      BY <1>5 DEF SignIn
    <2>2. /\ First(Matches(users', acc[s].name, Hash(s))) \in Nat
          /\ First(Matches(users', acc[s].name, Hash(s))) # 0
      BY <1>5, SignInFinds, LenProperties
    <2> QED BY <1>4, <2>1, <2>2
  <1>6. CASE Login(s)
    <2> DEFINE rows == Matches(users, acc[s].name, Hash(s))
    <2>1. CASE rows # {}
      <3>1. Enter(s, First(rows))
        BY <1>6, <2>1 DEF Login
      <3>2. First(rows) \in Nat /\ First(rows) # 0
        <4>1. First(rows) \in 1..Len(users)
          BY <2>1, LoginFinds
        <4>2. Len(users) \in Nat
          BY LenProperties DEF TInv, Types
        <4> QED BY <4>1, <4>2
      <3> QED BY <1>4, <3>1, <3>2
    <2>2. CASE rows = {}
      <3>1. Answer(s, <<Flag(-1)>>) /\ Goto(s, "account") /\ UNCHANGED uid
        BY <1>6, <2>2 DEF Login
      <3>2. <<Flag(-1)>> \in Seq(DownMsg)
        BY Answers
      <3>3. down'[s] = <<Flag(-1)>>
        BY <1>2, <3>1, <3>2, Answering
      <3>4. spc'[s] = "account" /\ ~Over(s)'
        BY <3>1, Going DEF ServerExpects
      <3>5. AtLogin(down'[s], up'[s], spc'[s], uid'[s])
        BY <1>3, <3>3, <3>4 DEF AtLogin
      <3>6. Now(s)'
        BY <1>1, <1>3, <3>5, Places DEF Now
      <3> QED BY <1>1, <1>2, <3>4, <3>6, StillAgrees
    <2> QED BY <2>1, <2>2
  <1> QED BY <1>5, <1>6

\* The command that the client waits for is the one that the thread received.
LEMMA Commanded ==
  ASSUME TInv, NEW s \in Sessions, Agree(s), ServerRecv(s, "command"), peer[s] = "open"
  PROVE  /\ ~lost[s] /\ cpc[s] = "confirm" /\ up'[s] = <<>> /\ uid[s] # 0 /\ Kind(s) = cmd[s] /\ cmd[s] \in Command
         /\ down[s] = <<>> /\ peer'[s] = "open" /\ spc[s] = "command" /\ ~Over(s)
  <1>1. /\ ~lost[s] /\ spc[s] = "command" /\ ~Over(s) /\ down[s] = <<>> /\ peer'[s] = "open"
    BY Heard DEF ServerExpects
  <1>2. /\ cpc[s] = "confirm" /\ up'[s] = <<>> /\ uid[s] # 0 /\ cmd[s] \in Command
        /\ Incoming(s) = Msg("command", cmd[s])
    BY Takes DEF ServerExpects
  <1>3. Kind(s) = cmd[s]
    BY <1>2 DEF Kind, Msg
  <1> QED BY <1>1, <1>2, <1>3

LEMMA CommandAgrees ==
  ASSUME TInv, NEW s \in Sessions, Agree(s), peer[s] = "open", ~odd'[s],
         CmdAnalyse(s) \/ Download(s) \/ Upload(s) \/ RePassWd(s)
  PROVE  Agree(s)'
  <1>1. ServerRecv(s, "command") /\ UNCHANGED <<uid, cpc, cmd, lost>>
    BY DEF CmdAnalyse, Download, Upload, RePassWd, server, client
  <1>2. /\ ~lost[s] /\ cpc[s] = "confirm" /\ up'[s] = <<>> /\ uid[s] # 0 /\ Kind(s) = cmd[s]
        /\ down[s] = <<>> /\ peer'[s] = "open" /\ spc[s] = "command" /\ ~Over(s)
    BY <1>1, Commanded
  <1>3. SUFFICES ~Over(s)' /\ AtConfirm(down'[s], <<>>, spc'[s], cmd[s])
    <2>1. Now(s)'
      BY <1>1, <1>2, <1>3, Places DEF Now
    <2> QED BY <1>1, <1>2, <1>3, <2>1, StillAgrees
  <1>4. CASE CmdAnalyse(s)
    <2>1. PICK msgs \in Replies(cmd[s]) : Answer(s, msgs) /\ UNCHANGED spc
      BY <1>2, <1>4 DEF CmdAnalyse, server
    <2>2. down'[s] = msgs
      BY <1>2, <2>1, RepliesTyped, Answering
    <2> QED BY <1>2, <2>1, <2>2 DEF AtConfirm, Over
  <1>5. CASE Download(s)
    <2>1. PICK size \in {-2, -1, 0, 1} :
            /\ Answer(s, <<Flag(NO_ERROR), Msg("size", size)>> \o
                         (IF size > 0 THEN <<Msg("data", 0)>> ELSE <<>>))
            /\ odd' = [odd EXCEPT ![s] = @ \/ size = NO_SUCH_FILE]
      BY <1>5 DEF Download
    <2>2. size # -2 /\ cmd[s] = "download"
      BY <1>2, <1>5, <2>1 DEF TInv, Types, Download, NO_SUCH_FILE
    <2>3. spc'[s] = "ack" /\ ~Over(s)'
      BY <1>5, Going DEF Download, ServerExpects
    <2>4. Flag(NO_ERROR) \in DownMsg /\ Msg("size", size) \in DownMsg /\ Data \in DownMsg
      BY <2>1, Answers DEF NO_ERROR
    <2>5. CASE size = 1
      <3>1. Answer(s, <<Flag(NO_ERROR), Msg("size", 1), Data>>)
        <4>1. (IF size > 0 THEN <<Msg("data", 0)>> ELSE <<>>) = <<Data>>
          BY <2>5 DEF Data
        <4>2. <<Flag(NO_ERROR), Msg("size", size)>> \o <<Data>> = <<Flag(NO_ERROR), Msg("size", 1), Data>>
          BY <2>5, Joined
        <4> QED BY <2>1, <4>1, <4>2
      <3>2. down'[s] = <<Flag(NO_ERROR), Msg("size", 1), Data>>
        <4>1. <<Flag(NO_ERROR), Msg("size", 1), Data>> \in Seq(DownMsg)
          BY <2>4, <2>5
        <4> QED BY <1>2, <3>1, <4>1, Answering
      <3> QED BY <2>2, <2>3, <3>2 DEF AtConfirm
    <2>6. CASE size \in {-1, 0}
      <3>1. Answer(s, <<Flag(NO_ERROR), Msg("size", size)>>)
        <4>1. (IF size > 0 THEN <<Msg("data", 0)>> ELSE <<>>) = <<>>
          BY <2>6
        <4>2. <<Flag(NO_ERROR), Msg("size", size)>> \o <<>> = <<Flag(NO_ERROR), Msg("size", size)>>
          BY Joined
        <4> QED BY <2>1, <4>1, <4>2
      <3>2. down'[s] = <<Flag(NO_ERROR), Msg("size", size)>>
        <4>1. <<Flag(NO_ERROR), Msg("size", size)>> \in Seq(DownMsg)
          BY <2>4
        <4> QED BY <1>2, <3>1, <4>1, Answering
      <3> QED BY <2>2, <2>3, <2>6, <3>2 DEF AtConfirm
    <2> QED BY <2>1, <2>2, <2>5, <2>6
  <1>6. CASE Upload(s)
    <2>1. /\ Answer(s, <<Flag(NO_ERROR), Msg("size", 1)>>) /\ cmd[s] = "upload"
          /\ spc'[s] = "receive" /\ ~Over(s)'
      BY <1>2, <1>6, Going DEF Upload, ServerExpects
    <2>2. <<Flag(NO_ERROR), Msg("size", 1)>> \in Seq(DownMsg)
      BY Answers DEF NO_ERROR
    <2>3. down'[s] = <<Flag(NO_ERROR), Msg("size", 1)>>
      BY <1>2, <2>1, <2>2, Answering
    <2> QED BY <2>1, <2>3 DEF AtConfirm
  <1>7. CASE RePassWd(s)
    <2>1. PICK x \in Salt : Answer(s, <<Flag(NO_ERROR), Msg("salt", x)>>)
      BY <1>7 DEF RePassWd, GetRandomStr
    <2>2. cmd[s] = "rp" /\ spc'[s] = "rpcipher" /\ ~Over(s)'
      BY <1>2, <1>7, Going DEF RePassWd, ServerExpects
    <2>3. <<Flag(NO_ERROR), Msg("salt", x)>> \in Seq(DownMsg) /\ Msg("salt", x) \in Salts
      BY Answers DEF NO_ERROR, Salts
    <2>4. down'[s] = <<Flag(NO_ERROR), Msg("salt", x)>>
      BY <1>2, <2>1, <2>3, Answering
    <2> QED BY <2>2, <2>3, <2>4 DEF AtConfirm
  <1> QED BY <1>4, <1>5, <1>6, <1>7

LEMMA ExitAgrees ==
  ASSUME TInv, NEW s \in Sessions, Agree(s), peer[s] = "open", Exit(s)
  PROVE  Agree(s)'
  <1>1. /\ ~lost[s] /\ cpc[s] = "confirm" /\ uid[s] # 0 /\ Kind(s) = cmd[s]
        /\ down[s] = <<>> /\ peer'[s] = "open"
    BY Commanded DEF Exit
  <1>2. <<Flag(NO_ERROR)>> \in Seq(DownMsg)
    BY Answers DEF NO_ERROR
  <1>3. down'[s] = <<Flag(NO_ERROR)>>
    BY <1>1, <1>2, Answering DEF Exit
  <1>4. spc'[s] = "over" /\ cmd[s] = "exit" /\ UNCHANGED <<uid, cpc, cmd, lost>>
    BY <1>1 DEF Exit, Goto, TInv, Types, client
  <1>5. AtConfirm(down'[s], <<>>, "over", cmd[s])
    BY <1>3, <1>4 DEF AtConfirm
  <1>6. Table(cpc[s], cmd[s], uid[s], down'[s], <<>>, "over")
    BY <1>1, <1>5, Places
  <1>7. "over" \in ServerPlaces
    BY DEF ServerPlaces
  <1>8. Drained(s)'
    BY <1>4, <1>6, <1>7 DEF Drained
  <1> QED BY <1>1, <1>4, <1>8 DEF Agree, Over

LEMMA DownloadAckAgrees ==
  ASSUME TInv, NEW s \in Sessions, Agree(s), peer[s] = "open", DownloadAck(s)
  PROVE  Agree(s)'
  <1>1. ServerRecv(s, "ack") /\ UNCHANGED <<uid, cpc, cmd, down, lost>>
    BY DEF DownloadAck, client
  <1>2. /\ ~lost[s] /\ down[s] = <<>> /\ peer'[s] = "open" /\ uid[s] # 0
        /\ \/ cpc[s] = "prompt" /\ up'[s] = <<>>
           \/ cpc[s] = "confirm" /\ cmd[s] \in Command /\ up'[s] = <<Msg("command", cmd[s])>>
    BY <1>1, Heard, Takes DEF ServerExpects
  <1>3. spc'[s] = "command" /\ ~Over(s)'
    BY Going DEF DownloadAck, ServerExpects
  <1>4. CASE cpc[s] = "prompt" /\ up'[s] = <<>>
    <2>1. AtPrompt(down'[s], up'[s], spc'[s])
      BY <1>1, <1>2, <1>3, <1>4 DEF AtPrompt
    <2>2. Now(s)'
      BY <1>1, <1>2, <1>4, <2>1, Places DEF Now
    <2> QED BY <1>1, <1>2, <1>3, <2>2, StillAgrees
  <1>5. CASE cpc[s] = "confirm" /\ cmd[s] \in Command /\ up'[s] = <<Msg("command", cmd[s])>>
    <2>1. AtConfirm(down'[s], up'[s], spc'[s], cmd'[s])
      BY <1>1, <1>2, <1>3, <1>5 DEF AtConfirm
    <2>2. Now(s)'
      BY <1>1, <1>2, <1>5, <2>1, Places DEF Now
    <2> QED BY <1>1, <1>2, <1>3, <2>2, StillAgrees
  <1> QED BY <1>2, <1>4, <1>5

LEMMA UploadReceiveAgrees ==
  ASSUME TInv, NEW s \in Sessions, Agree(s), peer[s] = "open", UploadReceive(s)
  PROVE  Agree(s)'
  <1>1. ServerRecv(s, "receive") /\ UNCHANGED <<uid, cpc, cmd, lost>>
    BY DEF UploadReceive, client
  <1>2. /\ ~lost[s] /\ down[s] = <<>> /\ peer'[s] = "open" /\ uid[s] # 0
        /\ cpc[s] = "done" /\ up'[s] = <<>> /\ Incoming(s) = Data
    BY <1>1, Heard, Takes DEF ServerExpects
  <1>3. Answer(s, <<Flag(NO_ERROR)>>)
    BY <1>2 DEF UploadReceive, Data, Msg, Err
  <1>4. <<Flag(NO_ERROR)>> \in Seq(DownMsg)
    BY Answers DEF NO_ERROR
  <1>5. down'[s] = <<Flag(NO_ERROR)>>
    BY <1>2, <1>3, <1>4, Answering
  <1>6. spc'[s] = "command" /\ ~Over(s)'
    BY Going DEF UploadReceive, ServerExpects
  <1>7. AtDone(down'[s], up'[s], spc'[s])
    BY <1>2, <1>5, <1>6 DEF AtDone
  <1>8. Now(s)'
    BY <1>1, <1>2, <1>7, Places DEF Now
  <1> QED BY <1>1, <1>2, <1>6, <1>8, StillAgrees

LEMMA RePassWdUpdateAgrees ==
  ASSUME TInv, NEW s \in Sessions, Agree(s), peer[s] = "open", RePassWdUpdate(s)
  PROVE  Agree(s)'
  <1>1. ServerRecv(s, "rpcipher") /\ UNCHANGED <<uid, cpc, cmd, lost>>
    BY DEF RePassWdUpdate, client
  <1>2. /\ ~lost[s] /\ down[s] = <<>> /\ peer'[s] = "open" /\ uid[s] # 0
        /\ cpc[s] = "rpret" /\ up'[s] = <<>>
    BY <1>1, Heard, Takes DEF ServerExpects
  <1>3. PICK f \in {NO_ERROR, RUN_ERROR} : Answer(s, <<Flag(f)>>)
    BY DEF RePassWdUpdate
  <1>4. <<Flag(f)>> \in Seq(DownMsg)
    BY Answers DEF NO_ERROR, RUN_ERROR
  <1>5. down'[s] = <<Flag(f)>>
    BY <1>2, <1>3, <1>4, Answering
  <1>6. spc'[s] = "account" /\ ~Over(s)'
    BY Going DEF RePassWdUpdate, ServerExpects
  <1>7. AtRpRet(down'[s], up'[s], spc'[s])
    BY <1>2, <1>5, <1>6 DEF AtRpRet
  <1>8. Now(s)'
    BY <1>1, <1>2, <1>7, Places DEF Now
  <1> QED BY <1>1, <1>2, <1>6, <1>8, StillAgrees

\* The client is gone: what it has sent is taken in turn.
LEMMA GoneAgrees ==
  ASSUME TInv, NEW s \in Sessions, Agree(s), peer[s] # "open", ThreadStep(s), UNCHANGED lost
  PROVE  Agree(s)'
  <1>1. PICK pc \in DOMAIN ServerExpects : ServerRecv(s, pc) /\ (pc = "ack" => spc'[s] \in {"command", "over"})
    <2>1. CASE DownloadAck(s) \/ ServerEof(s)
      BY <2>1 DEF DownloadAck, ServerEof, Goto, TInv, Types, ServerExpects
    <2>2. CASE ~(DownloadAck(s) \/ ServerEof(s))
      BY <2>2 DEF ThreadStep, LoginOrSignin, SignIn, Login, CmdAnalyse, Download, Upload, UploadReceive,
                  Exit, RePassWd, RePassWdUpdate, ServerExpects
    <2> QED BY <2>1, <2>2
  <1>2. spc[s] = pc /\ ~Over(s) /\ ~lost[s] /\ peer'[s] # "open"
    BY <1>1, ServerTakes, RecvKept DEF TInv, Over, ServerExpects, Agree
  <1>3. UpFits(pc, up[s])
    BY <1>2 DEF Agree
  <1>4. up'[s] = <<>> \/ (pc = "ack" /\ \E m \in Commands : up'[s] = <<m>>)
    <2>1. up'[s] = IF up[s] = <<>> THEN <<>> ELSE Tail(up[s])
      BY <1>1, ServerTakes DEF TInv
    <2>2. CASE up[s] # <<>>
      BY <1>1, <1>3, <2>1, <2>2, UpFitsHead
    <2> QED BY <2>1, <2>2
  <1>5. ~Over(s)' => UpFits(spc'[s], up'[s])
    BY <1>1, <1>4 DEF UpFits, Over
  <1> QED BY <1>2, <1>5 DEF Agree

LEMMA ThreadAgrees ==
  ASSUME TInv, NEW s \in Sessions, Good(s), ThreadStep(s)
  PROVE  Good(s)'
  <1>1. UNCHANGED lost /\ (odd[s] => odd'[s])
    BY DEF ThreadStep, ServerEof, LoginOrSignin, SignIn, Login, CmdAnalyse, Download, DownloadAck, Upload,
           UploadReceive, Exit, RePassWd, RePassWdUpdate, TInv, Types
  <1>2. SUFFICES ASSUME Agree(s), ~odd'[s] PROVE Agree(s)'
    BY <1>1 DEF Good
  <1>3. CASE peer[s] = "open"
    <2>1. ~ServerEof(s)
      BY <1>3, ServerTakes, UpKinds DEF ServerEof, TInv
    <2> QED BY <1>2, <1>3, <2>1, LoginOrSigninAgrees, CipherAgrees, CommandAgrees, ExitAgrees, DownloadAckAgrees,
               UploadReceiveAgrees, RePassWdUpdateAgrees DEF ThreadStep
  <1>4. CASE peer[s] # "open"
    BY <1>1, <1>2, <1>4, GoneAgrees
  <1> QED BY <1>3, <1>4

LEMMA BeginAgrees ==
  ASSUME TInv, NEW s \in Sessions, Good(s), Begin(s) \/ ConnectFails(s)
  PROVE  Good(s)'
  <1>1. /\ spc[s] = "start" /\ spc'[s] \in Greeting
        /\ UNCHANGED <<uid, cpc, cmd, up, down, peer, lost, odd>>
    BY DEF Begin, ConnectFails, Goto, client, TInv, Types, Greeting
  <1>2. SUFFICES ASSUME Agree(s) PROVE Agree(s)'
    BY <1>1 DEF Good
  <1>3. ~Over(s) /\ ~Over(s)'
    BY <1>1 DEF Over, Greeting
  <1>4. CASE peer[s] = "open"
    <2>1. Table(cpc[s], cmd[s], uid[s], down[s], up[s], "start")
      BY <1>1, <1>2, <1>3, <1>4 DEF Agree
    <2>2. cpc[s] \in {"menu", "flag"}
      <3>1. CASE up[s] # <<>>
        BY <2>1, <3>1, Asks DEF Greeting
      <3>2. CASE up[s] = <<>>
        <4>1. cpc[s] \in ClientPlaces \ {"closed"}
          BY <2>1 DEF Table
        <4> QED BY <2>1, <4>1, ManyPlaces, Places DEF AtSalt, AtLogin, AtText, AtPrompt, AtConfirm,
                   AtResult, AtSize, AtContent, AtOffset, AtDone, AtRpSalt, AtRpRet
      <3> QED BY <3>1, <3>2
    <2>3. AtMenu(down[s], up[s], "start") => AtMenu(down[s], up[s], spc'[s])
      BY <1>1 DEF AtMenu
    <2>4. AtFlag(down[s], up[s], "start") => AtFlag(down[s], up[s], spc'[s])
      BY <1>1 DEF AtFlag, Greeting
    <2>5. Table(cpc[s], cmd[s], uid[s], down[s], up[s], spc'[s])
      BY <2>1, <2>2, <2>3, <2>4, Places
    <2> QED BY <1>1, <1>2, <1>3, <1>4, <2>5 DEF Agree
  <1>5. CASE peer[s] # "open"
    <2>1. UpFits("start", up[s])
      BY <1>1, <1>2, <1>3, <1>5 DEF Agree
    <2>2. UpFits(spc'[s], up[s])
      BY <1>1, <2>1 DEF UpFits, Greeting
    <2> QED BY <1>1, <1>2, <1>3, <1>5, <2>2 DEF Agree
  <1> QED BY <1>4, <1>5

-----------------------------------------------------------------------------
(* The steps of a client.                                                  *)

\* What the client takes, when the stream is not at its end.
LEMMA Reads ==
  ASSUME TInv, NEW s \in Sessions, Agree(s), NEW pc \in DOMAIN ClientExpects, ClientRecv(s, pc)
  PROVE  /\ ~lost[s] /\ cpc[s] = pc /\ peer[s] = "open"
         /\ \/ /\ Over(s) /\ down[s] \in {<<>>, <<Err>>} /\ down'[s] = <<>>
               /\ Received(s) = IF down[s] = <<>> THEN Eof ELSE Err
            \/ /\ down[s] # <<>> /\ down'[s] = Tail(down[s])
               /\ Received(s) = Head(down[s]) /\ Received(s) \notin {Eof, Err}
               /\ \E p : /\ Table(pc, cmd[s], uid[s], down[s], <<>>, p)
                         /\ IF Over(s) THEN p \in ServerPlaces ELSE p = spc[s] /\ up[s] = <<>>
  <1>1. /\ cpc[s] = pc /\ ~lost[s]
        /\ down[s] # <<>> => Received(s) = Head(down[s]) /\ Received(s) \in DownMsg
        /\ down[s] = <<>> => Over(s) /\ Received(s) = Eof
        /\ down'[s] = IF down[s] = <<>> THEN <<>> ELSE Tail(down[s])
    BY ClientTakes DEF TInv, Agree
  <1>2. peer[s] = "open"
    BY <1>1 DEF TInv, Entry, ClientExpects
  <1>3. CASE down[s] = <<>>
    BY <1>1, <1>2, <1>3
  <1>4. CASE down[s] = <<Err>> /\ Over(s)
    BY <1>1, <1>2, <1>4, One
  <1>5. CASE down[s] # <<>> /\ ~(down[s] = <<Err>> /\ Over(s))
    <2>1. PICK p, u : /\ Table(pc, cmd[s], uid[s], down[s], u, p)
                      /\ IF Over(s) THEN u = <<>> /\ p \in ServerPlaces ELSE u = up[s] /\ p = spc[s]
      BY <1>1, <1>2, <1>5 DEF Agree, Drained
    <2>2. u = <<>> /\ Head(down[s]).type = ClientExpects[pc]
      BY <1>5, <2>1, ClientFits
    <2>3. Received(s) \notin {Eof, Err}
      BY <1>1, <1>5, <2>2 DEF Eof, Err, Msg, ClientExpects
    <2> QED BY <1>1, <1>2, <1>5, <2>1, <2>2, <2>3
  <1> QED BY <1>3, <1>4, <1>5

\* The client is in pc, and d is under way to it.
Before(s, pc, d, p) ==
  /\ Table(pc, cmd[s], uid[s], d, <<>>, p) /\ d = down[s] /\ d # <<>>
  /\ Received(s) = Head(d) /\ Received(s) \notin {Eof, Err}

After(s, c, d, u, p) == Table(c, cmd[s], uid[s], d, u, p)

MayMove(s, pc, c) == \A d, p : Before(s, pc, d, p) => c = "closed" \/ After(s, c, Tail(d), <<>>, p)

MaySend(s, pc, msg, c) ==
  \A d, p : Before(s, pc, d, p) => Tail(d) = <<>> /\ After(s, c, <<>>, <<msg>>, p)

\* The client goes on to a place that the table allows, with what is left.
LEMMA MovesAgrees ==
  ASSUME TInv, NEW s \in Sessions, Agree(s), NEW pc, NEW c, Moves(s, pc, c), MayMove(s, pc, c)
  PROVE  Agree(s)'
  <1>1. /\ pc \in DOMAIN ClientExpects /\ ClientRecv(s, pc)
        /\ cpc'[s] = c /\ UNCHANGED <<spc, cmd, uid, up, lost>>
        /\ IF c = "closed" THEN peer'[s] = "closed" ELSE peer'[s] = peer[s]
    BY DEF Moves, ClientGoto, server, TInv, Types
  <1>2. ~lost[s] /\ cpc[s] = pc /\ peer[s] = "open"
    BY <1>1, Reads
  <1>3. CASE Over(s) /\ down'[s] = <<>>
    BY <1>1, <1>2, <1>3 DEF Agree, Over, Drained
  <1>4. CASE ~(Over(s) /\ down'[s] = <<>>)
    <2>1. PICK p : /\ Table(pc, cmd[s], uid[s], down[s], <<>>, p) /\ down[s] # <<>>
                   /\ Received(s) = Head(down[s]) /\ Received(s) \notin {Eof, Err}
                   /\ down'[s] = Tail(down[s])
                   /\ IF Over(s) THEN p \in ServerPlaces ELSE p = spc[s] /\ up[s] = <<>>
      BY <1>1, <1>4, Reads
    <2>2. c = "closed" \/ Table(c, cmd[s], uid[s], down'[s], <<>>, p)
      BY <2>1 DEF MayMove, Before, After
    <2>3. CASE c = "closed"
      BY <1>1, <1>2, <2>1, <2>3 DEF Agree, Over, UpFits
    <2>4. CASE c # "closed"
      BY <1>1, <1>2, <2>1, <2>2, <2>4 DEF Agree, Over, Drained
    <2> QED BY <2>3, <2>4
  <1> QED BY <1>3, <1>4

\* The client takes the last that was under way, and sends.
LEMMA SendsAgrees ==
  ASSUME TInv, NEW s \in Sessions, Agree(s), NEW pc, NEW msg, NEW c, Sends(s, pc, msg, c),
         MaySend(s, pc, msg, c)
  PROVE  Agree(s)'
  <1>1. /\ pc \in DOMAIN ClientExpects /\ ClientRecv(s, pc) /\ c # "closed"
        /\ UNCHANGED <<spc, cmd, uid, lost>>
    BY DEF Sends, server
  <1>2. ~lost[s] /\ cpc[s] = pc /\ peer[s] = "open" /\ cpc[s] # "closed"
    BY <1>1, Reads DEF ClientExpects
  <1>3. /\ ~Over(s) => up'[s] = Append(up[s], msg)
        /\ \/ cpc'[s] = c /\ peer' = peer
           \/ Over(s) /\ cpc'[s] = "closed" /\ peer'[s] = "closed"
    BY <1>1, <1>2, Sent DEF Sends, TInv
  <1>4. down'[s] = <<>> /\ (~Over(s) => up[s] = <<>> /\ Table(c, cmd[s], uid[s], <<>>, <<msg>>, spc[s]))
    BY <1>1, Reads DEF MaySend, Before, After
  <1>5. CASE Over(s)
    BY <1>1, <1>2, <1>3, <1>4, <1>5 DEF Agree, Over, Drained
  <1>6. CASE ~Over(s)
    <2>1. up'[s] = <<msg>>
      BY <1>3, <1>4, <1>6, Joined
    <2> QED BY <1>1, <1>2, <1>3, <1>4, <1>6, <2>1 DEF Agree, Over
  <1> QED BY <1>5, <1>6


(* What the next message of each place leads to.                           *)

LEMMA Values ==
  ASSUME NEW w
  PROVE  Flag(w).v = w /\ Msg("size", w).v = w
  BY DEF Flag, Msg

LEMMA FlagNext ==
  ASSUME NEW d, NEW p, AtFlag(d, <<>>, p), d # <<>>
  PROVE  \/ Head(d).v # -1 /\ AtSalt(Tail(d), <<>>, p)
         \/ Head(d).v = -1 /\ AtMenu(Tail(d), <<>>, p)
  <1>1. CASE p = "cipher" /\ \E w \in Nat, m \in Salts : d = <<Flag(w), m>>
    <2>1. PICK w \in Nat, m \in Salts : d = <<Flag(w), m>>
      BY <1>1
    <2>2. Head(d) = Flag(w) /\ Tail(d) = <<m>>
      BY <2>1, Two
    <2>3. Head(d).v # -1
      BY <2>2, Values
    <2> QED BY <1>1, <2>2, <2>3 DEF AtSalt
  <1>2. CASE p = "account" /\ d = <<Flag(-1)>>
    <2>1. Head(d) = Flag(-1) /\ Tail(d) = <<>>
      BY <1>2, One
    <2> QED BY <1>2, <2>1, Values DEF AtMenu, Greeting
  <1> QED BY <1>1, <1>2 DEF AtFlag

LEMMA LoginNext ==
  ASSUME NEW id, NEW d, NEW p, AtLogin(d, <<>>, p, id), d # <<>>
  PROVE  \/ Head(d).v # -1 /\ id # 0 /\ AtText(Tail(d), <<>>, p)
         \/ Head(d).v = -1 /\ AtMenu(Tail(d), <<>>, p)
  <1>1. CASE p = "command" /\ id # 0 /\ \E w \in Nat : d = <<Flag(w), Text>>
    <2>1. PICK w \in Nat : d = <<Flag(w), Text>>
      BY <1>1
    <2>2. Head(d) = Flag(w) /\ Tail(d) = <<Text>>
      BY <2>1, Two
    <2>3. Head(d).v # -1
      BY <2>2, Values
    <2> QED BY <1>1, <2>2, <2>3 DEF AtText
  <1>2. CASE p = "account" /\ d = <<Flag(-1)>>
    <2>1. Head(d) = Flag(-1) /\ Tail(d) = <<>>
      BY <1>2, One
    <2> QED BY <1>2, <2>1, Values DEF AtMenu, Greeting
  <1> QED BY <1>1, <1>2 DEF AtLogin

LEMMA SaltNext ==
  ASSUME NEW id, NEW d, NEW p, NEW h \in Ciphers
  PROVE  /\ AtSalt(d, <<>>, p) => Tail(d) = <<>> /\ AtLogin(<<>>, <<h>>, p, id)
         /\ AtRpSalt(d, <<>>, p) => Tail(d) = <<>> /\ AtRpRet(<<>>, <<h>>, p)
  <1>1. (\E m \in Salts : d = <<m>>) => Tail(d) = <<>>
    BY One
  <1> QED BY <1>1 DEF AtSalt, AtLogin, AtRpSalt, AtRpRet

LEMMA TextNext ==
  ASSUME NEW d, NEW p, AtText(d, <<>>, p)
  PROVE  AtPrompt(Tail(d), <<>>, p)
  BY One DEF AtText, AtPrompt

LEMMA ResultNext ==
  ASSUME NEW k, NEW d, NEW p, AtResult(d, <<>>, p, k)
  PROVE  \/ k # "change" /\ Head(d).v = NO_ERROR /\ AtText(Tail(d), <<>>, p)
         \/ (k = "change" \/ Head(d).v # NO_ERROR) /\ AtPrompt(Tail(d), <<>>, p)
  <1>1. CASE k = "change"
    <2>1. PICK f \in {NO_ERROR, RUN_ERROR} : d = <<Flag(f)>>
      BY <1>1 DEF AtResult
    <2>2. Tail(d) = <<>>
      BY <2>1, One
    <2> QED BY <1>1, <2>2 DEF AtResult, AtPrompt
  <1>2. CASE d = <<Flag(NO_ERROR), Text>> /\ k # "change"
    <2>1. Head(d) = Flag(NO_ERROR) /\ Tail(d) = <<Text>>
      BY <1>2, Two
    <2> QED BY <1>2, <2>1, Values DEF AtResult, AtText
  <1>3. CASE d = <<Flag(RUN_ERROR)>> /\ k # "change"
    <2>1. Head(d) = Flag(RUN_ERROR) /\ Tail(d) = <<>>
      BY <1>3, One
    <2>2. Head(d).v # NO_ERROR
      BY <2>1, Values DEF NO_ERROR, RUN_ERROR
    <2> QED BY <2>1, <2>2 DEF AtResult, AtPrompt
  <1> QED BY <1>1, <1>2, <1>3 DEF AtResult

LEMMA SizeNext ==
  ASSUME NEW d, NEW p, AtSize(d, <<>>, p)
  PROVE  \/ Head(d).v = NO_SUCH_FILE /\ AtPrompt(Tail(d), <<>>, p)
         \/ Head(d).v \in {-1, 0} /\ Tail(d) = <<>> /\ AtPrompt(<<>>, <<Done>>, p)
         \/ Head(d).v = 1 /\ AtContent(Tail(d), <<>>, p)
  <1>1. CASE p = "command" /\ d = <<Msg("size", NO_SUCH_FILE)>>
    <2>1. Head(d) = Msg("size", NO_SUCH_FILE) /\ Tail(d) = <<>>
      BY <1>1, One
    <2> QED BY <1>1, <2>1, Values DEF AtPrompt
  <1>2. CASE p = "ack" /\ \E z \in {-1, 0} : d = <<Msg("size", z)>>
    <2>1. PICK z \in {-1, 0} : d = <<Msg("size", z)>>
      BY <1>2
    <2>2. Head(d) = Msg("size", z) /\ Tail(d) = <<>>
      BY <2>1, One
    <2> QED BY <1>2, <2>2, Values DEF AtPrompt
  <1>3. CASE p = "ack" /\ d = <<Msg("size", 1), Data>>
    <2>1. Head(d) = Msg("size", 1) /\ Tail(d) = <<Data>>
      BY <1>3, Two
    <2> QED BY <1>3, <2>1, Values DEF AtContent
  <1> QED BY <1>1, <1>2, <1>3 DEF AtSize

LEMMA ContentNext ==
  ASSUME NEW d, NEW p, AtContent(d, <<>>, p)
  PROVE  Tail(d) = <<>> /\ AtPrompt(<<>>, <<Done>>, p)
  BY One DEF AtContent, AtPrompt

LEMMA OffsetNext ==
  ASSUME NEW d, NEW p, AtOffset(d, <<>>, p)
  PROVE  \/ Head(d).v \notin {0, 1} /\ AtPrompt(Tail(d), <<>>, p)
         \/ Head(d).v = 0 /\ AtDone(Tail(d), <<>>, p)
         \/ Head(d).v = 1 /\ Tail(d) = <<>> /\ AtDone(<<>>, <<Data>>, p)
  <1>1. CASE p = "command" /\ d = <<Msg("size", UPLOAD_EXISTING_FILE)>>
    <2>1. Head(d) = Msg("size", UPLOAD_EXISTING_FILE) /\ Tail(d) = <<>>
      BY <1>1, One
    <2>2. Head(d).v \notin {0, 1}
      BY <2>1, Values DEF UPLOAD_EXISTING_FILE
    <2> QED BY <1>1, <2>1, <2>2 DEF AtPrompt
  <1>2. CASE p = "command" /\ d = <<Msg("size", 0), Flag(NO_ERROR)>>
    <2>1. Head(d) = Msg("size", 0) /\ Tail(d) = <<Flag(NO_ERROR)>>
      BY <1>2, Two
    <2> QED BY <1>2, <2>1, Values DEF AtDone
  <1>3. CASE p = "receive" /\ d = <<Msg("size", 1)>>
    <2>1. Head(d) = Msg("size", 1) /\ Tail(d) = <<>>
      BY <1>3, One
    <2> QED BY <1>3, <2>1, Values DEF AtDone
  <1> QED BY <1>1, <1>2, <1>3 DEF AtOffset

LEMMA DoneNext ==
  ASSUME NEW d, NEW p, AtDone(d, <<>>, p)
  PROVE  AtPrompt(Tail(d), <<>>, p)
  <1>1. d = <<Flag(NO_ERROR)>> /\ p = "command"
    BY One DEF AtDone
  <1> QED BY <1>1, One DEF AtPrompt

LEMMA RpRetNext ==
  ASSUME NEW d, NEW p, AtRpRet(d, <<>>, p), d # <<>>
  PROVE  AtMenu(Tail(d), <<>>, p)
  <1>1. p = "account" /\ \E f \in {NO_ERROR, RUN_ERROR} : d = <<Flag(f)>>
    BY DEF AtRpRet
  <1>2. Tail(d) = <<>>
    BY <1>1, One
  <1> QED BY <1>1, <1>2 DEF AtMenu, Greeting

LEMMA ConfirmNext ==
  ASSUME NEW k, NEW d, NEW p, AtConfirm(d, <<>>, p, k), d # <<>>
  PROVE  \/ k \in {"unknown", "args"} /\ Head(d).v # NO_ERROR /\ AtPrompt(Tail(d), <<>>, p)
         \/ /\ Head(d).v = NO_ERROR
            /\ \/ k \in {"change", "list", "cd"} /\ AtResult(Tail(d), <<>>, p, k)
               \/ k = "download" /\ AtSize(Tail(d), <<>>, p)
               \/ k = "upload" /\ AtOffset(Tail(d), <<>>, p)
               \/ k = "rp" /\ AtRpSalt(Tail(d), <<>>, p)
               \/ k = "exit"
  <1>1. CASE p = "command" /\ k \in {"unknown", "args"}
    <2>1. PICK w \in {ERROR_CMD, ARGS_NUM_ERROR} : d = <<Flag(w)>>
      BY <1>1 DEF AtConfirm, Replies
    <2>2. Head(d) = Flag(w) /\ Tail(d) = <<>>
      BY <2>1, One
    <2>3. Head(d).v # NO_ERROR
      BY <2>2, Values DEF NO_ERROR, ERROR_CMD, ARGS_NUM_ERROR
    <2> QED BY <1>1, <2>2, <2>3 DEF AtPrompt
  <1>2. CASE p = "command" /\ k = "change"
    <2>1. PICK f \in {NO_ERROR, RUN_ERROR} : d = <<Flag(NO_ERROR), Flag(f)>>
      BY <1>2 DEF AtConfirm, Replies
    <2>2. Head(d) = Flag(NO_ERROR) /\ Tail(d) = <<Flag(f)>>
      BY <2>1, Two
    <2>3. AtResult(Tail(d), <<>>, p, k)
      BY <1>2, <2>2 DEF AtResult
    <2> QED BY <1>2, <2>2, <2>3, Values
  <1>3. CASE p = "command" /\ k \in {"list", "cd"}
    <2>1. d \in {<<Flag(NO_ERROR), Flag(NO_ERROR), Text>>, <<Flag(NO_ERROR), Flag(RUN_ERROR)>>}
      BY <1>3 DEF AtConfirm, Replies
    <2>2. Head(d) = Flag(NO_ERROR) /\ Tail(d) \in {<<Flag(NO_ERROR), Text>>, <<Flag(RUN_ERROR)>>}
      <3>1. CASE d = <<Flag(NO_ERROR), Flag(NO_ERROR), Text>>
        BY <3>1, Three
      <3>2. CASE d = <<Flag(NO_ERROR), Flag(RUN_ERROR)>>
        BY <3>2, Two
      <3> QED BY <2>1, <3>1, <3>2
    <2>3. AtResult(Tail(d), <<>>, p, k)
      BY <1>3, <2>2 DEF AtResult
    <2> QED BY <1>3, <2>2, <2>3, Values
  <1>4. CASE k = "download"
    <2>1. \/ p = "command" /\ d = <<Flag(NO_ERROR), Msg("size", NO_SUCH_FILE)>>
          \/ p = "ack" /\ \E z \in {-1, 0} : d = <<Flag(NO_ERROR), Msg("size", z)>>
          \/ p = "ack" /\ d = <<Flag(NO_ERROR), Msg("size", 1), Data>>
      BY <1>4 DEF AtConfirm, Replies
    <2>2. /\ Head(d) = Flag(NO_ERROR)
          /\ \/ p = "command" /\ Tail(d) = <<Msg("size", NO_SUCH_FILE)>>
             \/ p = "ack" /\ \E z \in {-1, 0} : Tail(d) = <<Msg("size", z)>>
             \/ p = "ack" /\ Tail(d) = <<Msg("size", 1), Data>>
      <3>1. CASE p = "command" /\ d = <<Flag(NO_ERROR), Msg("size", NO_SUCH_FILE)>>
        BY <3>1, Two
      <3>2. CASE p = "ack" /\ \E z \in {-1, 0} : d = <<Flag(NO_ERROR), Msg("size", z)>>
        BY <3>2, Two
      <3>3. CASE p = "ack" /\ d = <<Flag(NO_ERROR), Msg("size", 1), Data>>
        BY <3>3, Three
      <3> QED BY <2>1, <3>1, <3>2, <3>3
    <2> QED BY <1>4, <2>2, Values DEF AtSize
  <1>5. CASE k = "upload"
    <2>1. \/ p = "command" /\ d = <<Flag(NO_ERROR), Msg("size", UPLOAD_EXISTING_FILE)>>
          \/ p = "command" /\ d = <<Flag(NO_ERROR), Msg("size", 0), Flag(NO_ERROR)>>
          \/ p = "receive" /\ d = <<Flag(NO_ERROR), Msg("size", 1)>>
      BY <1>5 DEF AtConfirm, Replies
    <2>2. /\ Head(d) = Flag(NO_ERROR)
          /\ \/ p = "command" /\ Tail(d) = <<Msg("size", UPLOAD_EXISTING_FILE)>>
             \/ p = "command" /\ Tail(d) = <<Msg("size", 0), Flag(NO_ERROR)>>
             \/ p = "receive" /\ Tail(d) = <<Msg("size", 1)>>
      <3>1. CASE p = "command" /\ d = <<Flag(NO_ERROR), Msg("size", UPLOAD_EXISTING_FILE)>>
        BY <3>1, Two
      <3>2. CASE p = "command" /\ d = <<Flag(NO_ERROR), Msg("size", 0), Flag(NO_ERROR)>>
        BY <3>2, Three
      <3>3. CASE p = "receive" /\ d = <<Flag(NO_ERROR), Msg("size", 1)>>
        BY <3>3, Two
      <3> QED BY <2>1, <3>1, <3>2, <3>3
    <2> QED BY <1>5, <2>2, Values DEF AtOffset
  <1>6. CASE k = "rp"
    <2>1. p = "rpcipher" /\ \E m \in Salts : d = <<Flag(NO_ERROR), m>>
      BY <1>6 DEF AtConfirm, Replies
    <2>2. Head(d) = Flag(NO_ERROR) /\ \E m \in Salts : Tail(d) = <<m>>
      BY <2>1, Two
    <2> QED BY <1>6, <2>1, <2>2, Values DEF AtRpSalt
  <1>7. CASE k = "exit"
    <2>1. d = <<Flag(NO_ERROR)>>
      BY <1>7 DEF AtConfirm, Replies
    <2> QED BY <1>7, <2>1, One, Values
  <1>8. \/ p = "command" /\ k \in {"unknown", "args", "change", "list", "cd"}
        \/ k \in {"download", "upload", "rp", "exit"}
    BY DEF AtConfirm, Replies
  <1> QED BY <1>1, <1>2, <1>3, <1>4, <1>5, <1>6, <1>7, <1>8

-----------------------------------------------------------------------------
(* The steps of the client follow the table.                               *)

LEMMA Looks ==
  ASSUME NEW s, NEW pc, NEW d, NEW p, Before(s, pc, d, p), NEW x
  PROVE  /\ Table(pc, cmd[s], uid[s], d, <<>>, p) /\ d # <<>> /\ d = down[s]
         /\ Value(s, x) = Head(d).v /\ Received(s) # Err /\ Received(s) # Eof
  BY DEF Before, Value

LEMMA FlagAgrees ==
  ASSUME TInv, NEW s \in Sessions, Agree(s), RecvFlag(s)
  PROVE  Agree(s)'
  <1> DEFINE c == IF Received(s) = Err THEN "pwd" ELSE IF Value(s, 0) = -1 THEN "menu" ELSE "salt"
  <1>1. Moves(s, "flag", c)
    BY LoginMoves
  <1>2. ASSUME NEW d, NEW p, Before(s, "flag", d, p) PROVE After(s, c, Tail(d), <<>>, p)
    <2>1. AtFlag(d, <<>>, p) /\ d # <<>> /\ Value(s, 0) = Head(d).v /\ Received(s) # Err
      BY <1>2, Looks, Places
    <2>2. \/ c = "salt" /\ AtSalt(Tail(d), <<>>, p)
          \/ c = "menu" /\ AtMenu(Tail(d), <<>>, p)
      BY <2>1, FlagNext
    <2> HIDE DEF c
    <2> QED BY <2>2, Places DEF After
  <1> HIDE DEF c
  <1>3. MayMove(s, "flag", c)
    BY <1>2 DEF MayMove
  <1> QED BY <1>1, <1>3, MovesAgrees

LEMMA WelcomeAgrees ==
  ASSUME TInv, NEW s \in Sessions, Agree(s), Welcome(s)
  PROVE  Agree(s)'
  <1> DEFINE c == IF Value(s, 0) = -1 THEN "menu" ELSE "pwd"
  <1>1. Moves(s, "login", c)
    BY LoginMoves
  <1>2. ASSUME NEW d, NEW p, Before(s, "login", d, p) PROVE After(s, c, Tail(d), <<>>, p)
    <2>1. AtLogin(d, <<>>, p, uid[s]) /\ d # <<>> /\ Value(s, 0) = Head(d).v
      BY <1>2, Looks, Places
    <2>2. \/ c = "pwd" /\ uid[s] # 0 /\ AtText(Tail(d), <<>>, p)
          \/ c = "menu" /\ AtMenu(Tail(d), <<>>, p)
      BY <2>1, LoginNext
    <2> HIDE DEF c
    <2> QED BY <2>2, Places DEF After
  <1> HIDE DEF c
  <1>3. MayMove(s, "login", c)
    BY <1>2 DEF MayMove
  <1> QED BY <1>1, <1>3, MovesAgrees

LEMMA ErrMoves ==
  ASSUME NEW s, NEW pc, NEW c, Received(s) \in {Eof, Err}
  PROVE  MayMove(s, pc, c)
  BY DEF MayMove, Before

LEMMA SaltAgrees ==
  ASSUME TInv, NEW s \in Sessions, Agree(s), RecvSalt(s) \/ RepasswdSalt(s)
  PROVE  Agree(s)'
  <1>1. CASE Received(s) = Err
    <2>1. Moves(s, "salt", "pwd") \/ Moves(s, "rpsalt", "menu")
      BY <1>1, LoginMoves, CommandMoves
    <2>2. MayMove(s, "salt", "pwd") /\ MayMove(s, "rpsalt", "menu")
      BY <1>1, ErrMoves
    <2> QED BY <2>1, <2>2, MovesAgrees
  <1>2. CASE RecvSalt(s) /\ Received(s) # Err
    <2>1. PICK msg : (down[s] # <<>> => msg \in Ciphers) /\ Sends(s, "salt", msg, "login")
      BY <1>2, CipherSends
    <2>2. ASSUME NEW d, NEW p, Before(s, "salt", d, p)
          PROVE  Tail(d) = <<>> /\ After(s, "login", <<>>, <<msg>>, p)
      <3>1. AtSalt(d, <<>>, p) /\ d # <<>> /\ d = down[s]
        BY <2>2, Looks, Places
      <3>2. Tail(d) = <<>> /\ AtLogin(<<>>, <<msg>>, p, uid[s])
        BY <2>1, <3>1, SaltNext
      <3> QED BY <3>2, Places DEF After
    <2>3. MaySend(s, "salt", msg, "login")
      BY <2>2 DEF MaySend
    <2> QED BY <2>1, <2>3, SendsAgrees
  <1>3. CASE RepasswdSalt(s) /\ Received(s) # Err
    <2>1. PICK msg : (down[s] # <<>> => msg \in Ciphers) /\ Sends(s, "rpsalt", msg, "rpret")
      BY <1>3, CipherSends
    <2>2. ASSUME NEW d, NEW p, Before(s, "rpsalt", d, p)
          PROVE  Tail(d) = <<>> /\ After(s, "rpret", <<>>, <<msg>>, p)
      <3>1. uid[s] # 0 /\ AtRpSalt(d, <<>>, p) /\ d # <<>> /\ d = down[s]
        BY <2>2, Looks, Places
      <3>2. Tail(d) = <<>> /\ AtRpRet(<<>>, <<msg>>, p)
        BY <2>1, <3>1, SaltNext
      <3> QED BY <3>1, <3>2, Places DEF After
    <2>3. MaySend(s, "rpsalt", msg, "rpret")
      BY <2>2 DEF MaySend
    <2> QED BY <2>1, <2>3, SendsAgrees
  <1> QED BY <1>1, <1>2, <1>3

LEMMA TextAgrees ==
  ASSUME TInv, NEW s \in Sessions, Agree(s), RecvPwd(s) \/ RecvText(s)
  PROVE  Agree(s)'
  <1> DEFINE c == IF Received(s) = Err THEN "closed" ELSE "prompt"
  <1>1. PICK pc \in {"pwd", "text"} : Moves(s, pc, c)
    BY LoginMoves
  <1>2. ASSUME NEW d, NEW p, Before(s, pc, d, p) PROVE After(s, c, Tail(d), <<>>, p)
    <2>1. Table(pc, cmd[s], uid[s], d, <<>>, p) /\ c = "prompt"
      BY <1>2, Looks
    <2>2. uid[s] # 0 /\ AtText(d, <<>>, p)
      BY <1>1, <2>1, Places
    <2>3. AtPrompt(Tail(d), <<>>, p)
      BY <2>2, TextNext
    <2> HIDE DEF c
    <2> QED BY <2>1, <2>2, <2>3, Places DEF After
  <1> HIDE DEF c
  <1>3. MayMove(s, pc, c)
    BY <1>2 DEF MayMove
  <1> QED BY <1>1, <1>3, MovesAgrees

LEMMA ConfirmAgrees ==
  ASSUME TInv, NEW s \in Sessions, Agree(s), Confirm(s)
  PROVE  Agree(s)'
  <1> DEFINE c == IF Value(s, 260) = NO_ERROR THEN AfterConfirm(cmd[s]) ELSE "prompt"
  <1>1. Moves(s, "confirm", c)
    BY ConfirmMoves
  <1>2. ASSUME NEW d, NEW p, Before(s, "confirm", d, p) PROVE c = "closed" \/ After(s, c, Tail(d), <<>>, p)
    <2>1. uid[s] # 0 /\ AtConfirm(d, <<>>, p, cmd[s]) /\ d # <<>> /\ Value(s, 260) = Head(d).v
      BY <1>2, Looks, Places
    <2>2. \/ c = "prompt" /\ AtPrompt(Tail(d), <<>>, p)
          \/ c = "result" /\ AtResult(Tail(d), <<>>, p, cmd[s])
          \/ c = "size" /\ AtSize(Tail(d), <<>>, p)
          \/ c = "offset" /\ AtOffset(Tail(d), <<>>, p)
          \/ c = "rpsalt" /\ AtRpSalt(Tail(d), <<>>, p)
          \/ c = "closed"
      BY <2>1, ConfirmNext DEF AfterConfirm
    <2> HIDE DEF c
    <2> QED BY <2>1, <2>2, Places DEF After
  <1> HIDE DEF c
  <1>3. MayMove(s, "confirm", c)
    BY <1>2 DEF MayMove
  <1> QED BY <1>1, <1>3, MovesAgrees

LEMMA ResultAgrees ==
  ASSUME TInv, NEW s \in Sessions, Agree(s), Result(s)
  PROVE  Agree(s)'
  <1> DEFINE c == IF cmd[s] # "change" /\ Value(s, NO_ERROR) = NO_ERROR THEN "text" ELSE "prompt"
  <1>1. Moves(s, "result", c)
    BY CommandMoves
  <1>2. ASSUME NEW d, NEW p, Before(s, "result", d, p) PROVE After(s, c, Tail(d), <<>>, p)
    <2>1. uid[s] # 0 /\ AtResult(d, <<>>, p, cmd[s]) /\ Value(s, NO_ERROR) = Head(d).v
      BY <1>2, Looks, Places
    <2>2. \/ c = "text" /\ AtText(Tail(d), <<>>, p)
          \/ c = "prompt" /\ AtPrompt(Tail(d), <<>>, p)
      BY <2>1, ResultNext
    <2> HIDE DEF c
    <2> QED BY <2>1, <2>2, Places DEF After
  <1> HIDE DEF c
  <1>3. MayMove(s, "result", c)
    BY <1>2 DEF MayMove
  <1> QED BY <1>1, <1>3, MovesAgrees

LEMMA EndsAgree ==
  ASSUME TInv, NEW s \in Sessions, Agree(s), UploadDone(s) \/ RepasswdRet(s)
  PROVE  Agree(s)'
  <1>1. ASSUME NEW d, NEW p, Before(s, "done", d, p) PROVE After(s, "prompt", Tail(d), <<>>, p)
    <2>1. uid[s] # 0 /\ AtDone(d, <<>>, p)
      BY <1>1, Looks, Places
    <2> QED BY <2>1, DoneNext, Places DEF After
  <1>2. ASSUME NEW d, NEW p, Before(s, "rpret", d, p) PROVE After(s, "menu", Tail(d), <<>>, p)
    <2>1. AtRpRet(d, <<>>, p) /\ d # <<>>
      BY <1>2, Looks, Places
    <2> QED BY <2>1, RpRetNext, Places DEF After
  <1>3. MayMove(s, "done", "prompt") /\ MayMove(s, "rpret", "menu")
    BY <1>1, <1>2 DEF MayMove
  <1>4. Moves(s, "done", "prompt") \/ Moves(s, "rpret", "menu")
    BY CommandMoves
  <1> QED BY <1>3, <1>4, MovesAgrees

LEMMA SizeAgrees ==
  ASSUME TInv, NEW s \in Sessions, Agree(s), DownloadSize(s)
  PROVE  Agree(s)'
  <1> DEFINE size == Value(s, 0)
             c == IF size > 0 THEN "content" ELSE "prompt"
  <1>1. ASSUME NEW d, NEW p, Before(s, "size", d, p)
        PROVE  /\ uid[s] # 0
               /\ \/ size = NO_SUCH_FILE /\ AtPrompt(Tail(d), <<>>, p)
                  \/ size \in {-1, 0} /\ Tail(d) = <<>> /\ AtPrompt(<<>>, <<Done>>, p)
                  \/ size = 1 /\ AtContent(Tail(d), <<>>, p)
    <2>1. uid[s] # 0 /\ AtSize(d, <<>>, p) /\ size = Head(d).v
      BY <1>1, Looks, Places
    <2> HIDE DEF size
    <2> QED BY <2>1, SizeNext
  <1>2. IF size # NO_SUCH_FILE /\ size <= 0 THEN Sends(s, "size", Done, "prompt") ELSE Moves(s, "size", c)
    BY SizeMoves
  <1> HIDE DEF size
  <1>3. CASE size # NO_SUCH_FILE /\ size <= 0
    <2>1. ASSUME NEW d, NEW p, Before(s, "size", d, p)
          PROVE  Tail(d) = <<>> /\ After(s, "prompt", <<>>, <<Done>>, p)
      <3>1. uid[s] # 0 /\ Tail(d) = <<>> /\ AtPrompt(<<>>, <<Done>>, p)
        BY <1>1, <1>3, <2>1
      <3> QED BY <3>1, Places DEF After
    <2>2. MaySend(s, "size", Done, "prompt")
      BY <2>1 DEF MaySend
    <2> QED BY <1>2, <1>3, <2>2, SendsAgrees
  <1>4. CASE ~(size # NO_SUCH_FILE /\ size <= 0)
    <2>1. ASSUME NEW d, NEW p, Before(s, "size", d, p)
          PROVE  After(s, c, Tail(d), <<>>, p)
      <3>1. /\ uid[s] # 0
            /\ \/ c = "prompt" /\ AtPrompt(Tail(d), <<>>, p)
               \/ c = "content" /\ AtContent(Tail(d), <<>>, p)
        BY <1>1, <1>4, <2>1 DEF NO_SUCH_FILE
      <3> HIDE DEF c
      <3> QED BY <3>1, Places DEF After
    <2> HIDE DEF c
    <2>2. MayMove(s, "size", c)
      BY <2>1 DEF MayMove
    <2> QED BY <1>2, <1>4, <2>2, MovesAgrees
  <1> QED BY <1>3, <1>4

LEMMA ContentAgrees ==
  ASSUME TInv, NEW s \in Sessions, Agree(s), DownloadContent(s)
  PROVE  Agree(s)'
  <1>1. CASE Received(s) = Eof
    <2>1. Moves(s, "content", "closed") /\ MayMove(s, "content", "closed")
      BY <1>1, CommandMoves, ErrMoves
    <2> QED BY <2>1, MovesAgrees
  <1>2. CASE Received(s) # Eof
    <2>1. Sends(s, "content", Done, "prompt")
      BY <1>2, SizeMoves
    <2>2. ASSUME NEW d, NEW p, Before(s, "content", d, p)
          PROVE  Tail(d) = <<>> /\ After(s, "prompt", <<>>, <<Done>>, p)
      <3>1. uid[s] # 0 /\ AtContent(d, <<>>, p)
        BY <2>2, Looks, Places
      <3> QED BY <3>1, ContentNext, Places DEF After
    <2>3. MaySend(s, "content", Done, "prompt")
      BY <2>2 DEF MaySend
    <2> QED BY <2>1, <2>3, SendsAgrees
  <1> QED BY <1>1, <1>2

LEMMA OffsetAgrees ==
  ASSUME TInv, NEW s \in Sessions, Agree(s), UploadOffset(s)
  PROVE  Agree(s)'
  <1> DEFINE missing == IF Received(s) = Err THEN 0 ELSE Value(s, 1)
             c == IF missing = 0 THEN "done" ELSE "prompt"
  <1>1. ASSUME NEW d, NEW p, Before(s, "offset", d, p)
        PROVE  /\ uid[s] # 0
               /\ \/ missing \notin {0, 1} /\ AtPrompt(Tail(d), <<>>, p)
                  \/ missing = 0 /\ AtDone(Tail(d), <<>>, p)
                  \/ missing = 1 /\ Tail(d) = <<>> /\ AtDone(<<>>, <<Data>>, p)
    <2>1. uid[s] # 0 /\ AtOffset(d, <<>>, p) /\ missing = Head(d).v
      BY <1>1, Looks, Places
    <2> HIDE DEF missing
    <2> QED BY <2>1, OffsetNext
  <1>2. IF missing = 1 THEN Sends(s, "offset", Data, "done") ELSE Moves(s, "offset", c)
    BY SizeMoves
  <1> HIDE DEF missing
  <1>3. CASE missing = 1
    <2>1. ASSUME NEW d, NEW p, Before(s, "offset", d, p)
          PROVE  Tail(d) = <<>> /\ After(s, "done", <<>>, <<Data>>, p)
      <3>1. uid[s] # 0 /\ Tail(d) = <<>> /\ AtDone(<<>>, <<Data>>, p)
        BY <1>1, <1>3, <2>1
      <3> QED BY <3>1, Places DEF After
    <2>2. MaySend(s, "offset", Data, "done")
      BY <2>1 DEF MaySend
    <2> QED BY <1>2, <1>3, <2>2, SendsAgrees
  <1>4. CASE missing # 1
    <2>1. ASSUME NEW d, NEW p, Before(s, "offset", d, p)
          PROVE  After(s, c, Tail(d), <<>>, p)
      <3>1. /\ uid[s] # 0
            /\ \/ c = "prompt" /\ AtPrompt(Tail(d), <<>>, p)
               \/ c = "done" /\ AtDone(Tail(d), <<>>, p)
        BY <1>1, <1>4, <2>1
      <3> HIDE DEF c
      <3> QED BY <3>1, Places DEF After
    <2> HIDE DEF c
    <2>2. MayMove(s, "offset", c)
      BY <2>1 DEF MayMove
    <2> QED BY <1>2, <1>4, <2>2, MovesAgrees
  <1> QED BY <1>3, <1>4

LEMMA ClientAgrees ==
  ASSUME TInv, NEW s \in Sessions, Good(s), ClientStep(s)
  PROVE  Good(s)'
  <1>1. UNCHANGED odd
    BY DEF ClientStep, RecvFlag, RecvSalt, Welcome, RecvPwd, RecvText, TakeText, Confirm, Result,
           DownloadSize, DownloadContent, UploadOffset, UploadDone, RepasswdSalt, RepasswdRet
  <1>2. ASSUME Agree(s) PROVE Agree(s)'
    BY <1>2, FlagAgrees, WelcomeAgrees, SaltAgrees, TextAgrees, ConfirmAgrees, ResultAgrees, EndsAgree,
       SizeAgrees, ContentAgrees, OffsetAgrees DEF ClientStep
  <1> QED BY <1>1, <1>2 DEF Good

-----------------------------------------------------------------------------
(* The user, and the ends.                                                 *)

\* The user sends from the menu or the prompt; after the server closed, the
\* client may end with it.
LEMMA UserSends ==
  ASSUME TInv, NEW s \in Sessions, Agree(s), cpc[s] \in {"menu", "prompt"}, ~lost[s],
         NEW msg \in UpMsg, NEW c \in {"flag", "confirm"}, SendOrDie(s, msg, c),
         UNCHANGED <<spc, uid, down, lost>>,
         ~Over(s) => Table(c, cmd'[s], uid[s], <<>>, Append(up[s], msg), spc[s])
  PROVE  Agree(s)'
  <1>1. peer[s] = "open" /\ cpc[s] # "closed" /\ c \in ClientPlaces /\ c # "closed"
    BY DEF TInv, Entry, ClientPlaces, ClientExpects
  <1>2. /\ Over(s) => up' = up
        /\ ~Over(s) => up'[s] = Append(up[s], msg)
        /\ \/ cpc'[s] = c /\ peer' = peer
           \/ Over(s) /\ cpc'[s] = "closed" /\ peer'[s] = "closed"
    BY <1>1, Sent DEF TInv
  <1>3. down[s] \in {<<>>, <<Err>>}
    <2>1. PICK d, u, p : d = down[s] /\ (d \in {<<>>, <<Err>>} \/ Table(cpc[s], cmd[s], uid[s], d, u, p))
      BY <1>1 DEF Agree, Drained
    <2> QED BY <2>1, ClientFits DEF ClientExpects
  <1>4. ~Over(s) => down[s] = <<>>
    <2>1. ~Over(s) => Table(cpc[s], cmd[s], uid[s], down[s], up[s], spc[s])
      BY <1>1 DEF Agree
    <2> QED BY <2>1, ClientFits DEF ClientExpects
  <1>5. CASE Over(s)
    BY <1>1, <1>2, <1>3, <1>5 DEF Agree, Over, Drained
  <1>6. CASE ~Over(s)
    BY <1>1, <1>2, <1>4, <1>6 DEF Agree, Over
  <1> QED BY <1>5, <1>6

LEMMA UserAgrees ==
  ASSUME TInv, NEW s \in Sessions, Good(s),
         \/ UseChoose(s) \/ DownloadOpenFails(s)
         \/ \E kind \in Command : Prompt(s, kind)
  PROVE  Good(s)'
  <1>1. CASE DownloadOpenFails(s)
    BY <1>1 DEF DownloadOpenFails, Good, TInv, Types
  <1>2. CASE UseChoose(s)
    <2>1. PICK opt \in {"login", "signin"}, name \in Name :
            SendOrDie(s, Msg("account", [opt |-> opt, name |-> name]), "flag")
      BY <1>2 DEF UseChoose
    <2> DEFINE msg == Msg("account", [opt |-> opt, name |-> name])
    <2>2. msg \in Accounts /\ msg \in UpMsg
      BY DEF Accounts, Credentials, UpMsg
    <2> HIDE DEF msg
    <2>3. SendOrDie(s, msg, "flag")
      BY <2>1 DEF msg
    <2>4. /\ cpc[s] = "menu" /\ ~lost[s] /\ UNCHANGED <<spc, uid, cmd, down, lost, odd>>
      BY <1>2 DEF UseChoose, server
    <2>5. ASSUME Agree(s), ~Over(s) PROVE Table("flag", cmd'[s], uid[s], <<>>, Append(up[s], msg), spc[s])
      <3>1. peer[s] = "open"
        BY <2>4 DEF TInv, Entry
      <3>2. AtMenu(down[s], up[s], spc[s])
        BY <2>4, <2>5, <3>1, Places DEF Agree
      <3>3. Append(up[s], msg) = <<msg>>
        BY <3>2, Joined DEF AtMenu
      <3>4. AtFlag(<<>>, <<msg>>, spc[s])
        BY <2>2, <3>2 DEF AtMenu, AtFlag
      <3> QED BY <3>3, <3>4, Places
    <2>6. ASSUME Agree(s) PROVE Agree(s)'
      BY <2>2, <2>3, <2>4, <2>5, <2>6, UserSends
    <2> QED BY <2>4, <2>6 DEF Good
  <1>3. CASE \E kind \in Command : Prompt(s, kind)
    <2>1. PICK kind \in Command : Prompt(s, kind)
      BY <1>3
    <2> DEFINE msg == Msg("command", kind)
    <2>2. msg \in UpMsg
      BY DEF Commands, UpMsg
    <2> HIDE DEF msg
    <2>3. /\ cpc[s] = "prompt" /\ ~lost[s] /\ UNCHANGED <<spc, uid, down, lost, odd>>
          /\ cmd'[s] = kind /\ SendOrDie(s, msg, "confirm")
      BY <2>1 DEF Prompt, server, TInv, Types, msg
    <2>4. ASSUME Agree(s), ~Over(s) PROVE Table("confirm", cmd'[s], uid[s], <<>>, Append(up[s], msg), spc[s])
      <3>1. peer[s] = "open"
        BY <2>3 DEF TInv, Entry
      <3>2. uid[s] # 0 /\ AtPrompt(down[s], up[s], spc[s])
        BY <2>3, <2>4, <3>1, Places DEF Agree
      <3>3. \/ spc[s] = "command" /\ Append(up[s], msg) = <<msg>>
            \/ spc[s] = "ack" /\ Append(up[s], msg) = <<Done, msg>>
        BY <3>2, Joined DEF AtPrompt
      <3>4. AtConfirm(<<>>, Append(up[s], msg), spc[s], kind)
        BY <3>3 DEF AtConfirm, msg
      <3> QED BY <2>3, <3>2, <3>4, Places
    <2>5. ASSUME Agree(s) PROVE Agree(s)'
      BY <2>2, <2>3, <2>4, <2>5, UserSends
    <2> QED BY <2>3, <2>5 DEF Good
  <1> QED BY <1>1, <1>2, <1>3

LEMMA ClientKilledAgrees ==
  ASSUME TInv, NEW s \in Sessions, Good(s), ClientKilled(s)
  PROVE  Good(s)'
  <1>1. /\ peer[s] = "open" /\ peer'[s] # "open"
        /\ UNCHANGED <<spc, uid, cmd, up, lost, odd>>
    BY DEF ClientKilled, TInv, Types, Entry, server
  <1>2. ASSUME Agree(s) PROVE Agree(s)'
    <2>1. ~Over(s) => UpFits(spc[s], up[s])
      BY <1>1, <1>2, AsksFits DEF Agree
    <2> QED BY <1>1, <1>2, <2>1 DEF Agree, Over
  <1> QED BY <1>1, <1>2 DEF Good

\* Neither side ever meets a message of another type.
LEMMA NoPlaceLost ==
  ASSUME TInv, NEW s \in Sessions, Agree(s)
  PROVE  ~LosePlace(s)
  <1>1. ASSUME spc[s] \in DOMAIN ServerExpects, up[s] # <<>>
        PROVE  Head(up[s]).type = ServerExpects[spc[s]]
    <2>1. ~Over(s)
      BY <1>1 DEF Over, ServerExpects
    <2>2. UpFits(spc[s], up[s])
      BY <2>1, AsksFits DEF Agree
    <2> QED BY <1>1, <2>2, UpFitsHead
  <1>2. ASSUME cpc[s] \in DOMAIN ClientExpects, down[s] # <<>>
        PROVE  Head(down[s]).type \in {ClientExpects[cpc[s]], "error"}
    <2>1. peer[s] = "open"
      BY <1>2 DEF TInv, Entry, ClientExpects
    <2>2. CASE down[s] = <<Err>>
      BY <2>2, One DEF Err, Msg
    <2>3. CASE down[s] # <<Err>>
      <3>1. PICK u, p : Table(cpc[s], cmd[s], uid[s], down[s], u, p)
        BY <1>2, <2>1, <2>3 DEF Agree, Drained
      <3> QED BY <1>2, <3>1, ClientFits
    <2> QED BY <2>2, <2>3
  <1> QED BY <1>1, <1>2 DEF LosePlace

LEMMA LosePlaceAgrees ==
  ASSUME TInv, NEW s \in Sessions, Good(s), LosePlace(s)
  PROVE  Good(s)'
  <1>1. odd[s]
    BY NoPlaceLost DEF Good
  <1> QED BY <1>1 DEF LosePlace, Good

LEMMA ServerExitAgrees ==
  ASSUME TInv, NEW s \in Sessions, Good(s), ServerExit
  PROVE  Good(s)'
  <1>1. /\ spc'[s] = "dead" /\ UNCHANGED <<uid, cpc, cmd, peer, lost, odd>>
        /\ down'[s] = IF up[s] # <<>> /\ ~Over(s) /\ peer[s] = "open" THEN Append(down[s], Err) ELSE down[s]
    BY DEF ServerExit, client
  <1>2. Over(s)'
    BY <1>1 DEF Over
  <1>3. ASSUME Agree(s), peer[s] = "open" PROVE Drained(s)'
    <2>1. CASE Over(s)
      BY <1>1, <1>3, <2>1 DEF Agree, Drained
    <2>2. CASE ~Over(s)
      <3>1. Table(cpc[s], cmd[s], uid[s], down[s], up[s], spc[s])
        BY <1>3, <2>2 DEF Agree
      <3>2. CASE up[s] # <<>>
        <4>1. down'[s] = <<Err>>
          BY <1>1, <1>3, <2>2, <3>1, <3>2, Asks, Joined
        <4> QED BY <4>1 DEF Drained
      <3>3. CASE up[s] = <<>>
        BY <1>1, <3>1, <3>3 DEF Drained, TInv, Types
      <3> QED BY <3>2, <3>3
    <2> QED BY <2>1, <2>2
  <1>4. ASSUME Agree(s) PROVE Agree(s)'
    BY <1>1, <1>2, <1>3, <1>4 DEF Agree
  <1> QED BY <1>1, <1>4 DEF Good

-----------------------------------------------------------------------------
LEMMA OthersGood ==
  ASSUME NEW s \in Sessions, Kept(s), NEW t \in Sessions, t # s, Good(t)
  PROVE  Good(t)'
  BY DEF Kept, Only, Good, Agree, Over, Drained

LEMMA DInvInit ==
  ASSUME Init
  PROVE  DInv
  <1>1. TInv
    BY TInvInit
  <1>2. ASSUME NEW s \in Sessions PROVE Agree(s)
    <2>1. AtMenu(down[s], up[s], spc[s])
      BY DEF Init, AtMenu, Greeting
    <2>2. Table(cpc[s], cmd[s], uid[s], down[s], up[s], spc[s])
      BY <2>1, Places DEF Init
    <2> QED BY <2>2 DEF Agree, Over, Init
  <1> QED BY <1>1, <1>2 DEF DInv, Good

LEMMA DInvNext ==
  ASSUME DInv, [Next]_vars
  PROVE  DInv'
  <1>1. TInv /\ TInv'
    BY TInvNext DEF DInv
  <1>2. CASE ServerExit
    BY <1>1, <1>2, ServerExitAgrees DEF DInv
  <1>3. CASE UNCHANGED vars
    BY <1>1, <1>3 DEF DInv, Good, Agree, Over, Drained, vars
  <1>4. ASSUME NEW s \in Sessions,
               \/ Begin(s) \/ ConnectFails(s) \/ ThreadStep(s)
               \/ UseChoose(s) \/ ClientStep(s) \/ DownloadOpenFails(s) \/ ClientKilled(s)
               \/ LosePlace(s)
               \/ \E kind \in Command : Prompt(s, kind)
        PROVE  DInv'
    <2>1. Kept(s)
      BY <1>1, <1>4, BeginKept, ThreadStepKept, ClientStepKept, UserKept, ClientKilledKept, LosePlaceKept
    <2>2. Good(s) /\ \A t \in Sessions : Good(t)
      BY DEF DInv
    <2>3. Good(s)'
      BY <1>1, <1>4, <2>2, BeginAgrees, ThreadAgrees, ClientAgrees, UserAgrees, ClientKilledAgrees, LosePlaceAgrees
    <2>4. \A t \in Sessions : Good(t)'
      BY <2>1, <2>2, <2>3, OthersGood
    <2> QED BY <1>1, <2>4 DEF DInv
  <1> QED BY <1>2, <1>3, <1>4 DEF Next

(* The invariant of the dialogue: what is under way in each session, and   *)
(* where the thread waits, is what the table gives for the recv that the   *)
(* client is in.                                                           *)
THEOREM DialogueInvariant == Spec => []DInv
  BY DInvInit, DInvNext, PTL DEF Spec

(* No side of any session ever takes a message for another, whatever the   *)
(* other sessions, the faults and the users do, unless a download has left *)
(* the two with different ideas of its final integer (InStep).             *)
THEOREM StaysInStep == Spec => []InStep
  <1>1. DInv => InStep
    BY DEF DInv, Good, Agree, InStep
  <1> QED BY <1>1, DialogueInvariant, PTL

LEMMA SomethingUnderWay ==
  ASSUME NEW c, NEW k, NEW id, NEW p, Table(c, k, id, <<>>, <<>>, p)
  PROVE  c \in {"menu", "prompt"}
  <1>1. \A x, y, z : <<>> # <<x>> /\ <<>> # <<x, y>> /\ <<>> # <<x, y, z>>
    BY One, Two, Three
  <1>2. ~AtFlag(<<>>, <<>>, p) /\ ~AtSalt(<<>>, <<>>, p) /\ ~AtLogin(<<>>, <<>>, p, id)
    BY <1>1 DEF AtFlag, AtSalt, AtLogin
  <1>3. ~AtText(<<>>, <<>>, p) /\ ~AtResult(<<>>, <<>>, p, k)
    BY <1>1 DEF AtText, AtResult
  <1>4. ~AtConfirm(<<>>, <<>>, p, k)
    <2>1. <<>> \notin Replies(k)
      BY RepliesBegin
    <2> QED BY <1>1, <2>1 DEF AtConfirm
  <1>5. ~AtSize(<<>>, <<>>, p) /\ ~AtContent(<<>>, <<>>, p) /\ ~AtOffset(<<>>, <<>>, p)
    BY <1>1 DEF AtSize, AtContent, AtOffset
  <1>6. ~AtDone(<<>>, <<>>, p) /\ ~AtRpSalt(<<>>, <<>>, p) /\ ~AtRpRet(<<>>, <<>>, p)
    BY <1>1 DEF AtDone, AtRpSalt, AtRpRet
  <1>7. c \in ClientPlaces \ {"closed"}
    BY DEF Table
  <1> QED BY <1>2, <1>3, <1>4, <1>5, <1>6, <1>7, ManyPlaces, Places

(* A client in a recv and the thread in a recv, with nothing under way     *)
(* between them, would wait for ever: it does not happen                   *)
(* (NobodyWaitsForNobody).                                                 *)
THEOREM NoMutualWait == Spec => []NobodyWaitsForNobody
  <1>1. ASSUME DInv, NEW s \in Sessions, ~odd[s], peer[s] = "open", cpc[s] \in DOMAIN ClientExpects,
               up[s] = <<>>, down[s] = <<>>, spc[s] \in DOMAIN ServerExpects
        PROVE  FALSE
    <2>1. ~Over(s)
      BY <1>1 DEF Over, ServerExpects
    <2>2. Table(cpc[s], cmd[s], uid[s], <<>>, <<>>, spc[s])
      BY <1>1, <2>1 DEF DInv, Good, Agree
    <2> QED BY <1>1, <2>2, SomethingUnderWay DEF ClientExpects
  <1>2. DInv => NobodyWaitsForNobody
    BY <1>1 DEF NobodyWaitsForNobody
  <1> QED BY <1>2, DialogueInvariant, PTL

(* A client at its prompt is a logged-in user who has read everything, and *)
(* its thread is ready for the command; at its menu, ready for an account  *)
(* (PhasesAgree).                                                          *)
THEOREM PhasesMatch == Spec => []PhasesAgree
  <1>1. ASSUME DInv, NEW s \in Sessions, ~odd[s], ~Over(s), cpc[s] \in {"prompt", "menu"}
        PROVE  /\ cpc[s] = "prompt" => uid[s] # 0 /\ AtPrompt(down[s], up[s], spc[s])
               /\ cpc[s] = "menu" => AtMenu(down[s], up[s], spc[s])
    <2>1. peer[s] = "open"
      BY <1>1 DEF DInv, TInv, Entry
    <2>2. Table(cpc[s], cmd[s], uid[s], down[s], up[s], spc[s])
      BY <1>1, <2>1 DEF DInv, Good, Agree
    <2> QED BY <2>2, Places
  <1>2. DInv => PhasesAgree
    BY <1>1, One DEF PhasesAgree, AtPrompt, AtMenu, Greeting
  <1> QED BY <1>2, DialogueInvariant, PTL
=============================================================================
