--------------------------- MODULE SessionProofs ---------------------------
(***************************************************************************)
(* The types of Session, and that a user enters as oneself, for any number *)
(* of sessions.                                                            *)
(*                                                                         *)
(* The types alone are not inductive: what a sign-up writes in the table   *)
(* is the name that the thread has kept since its last answer.  Entry says *)
(* when that name is one that a client has sent.  Each operation is shown  *)
(* to keep the types and the Entry of its own session, and to leave the    *)
(* other sessions alone (Kept).                                            *)
(***************************************************************************)
EXTENDS Session, SequenceTheorems, FiniteSetTheorems, WellFoundedInduction, TLAPS

ServerPlaces == DOMAIN ServerExpects \union {"start", "gone", "over", "dead"}
ClientPlaces == DOMAIN ClientExpects \union {"menu", "prompt", "closed"}

\* What the streams, and the table user, hold.
Credentials == [opt : {"login", "signin"}, name : Name]
Accounts == {Msg("account", a) : a \in Credentials}
Ciphers == {Msg("cipher", h) : h \in Password \X Salt}
Commands == {Msg("command", kind) : kind \in Command}
Done == Msg("int", NO_ERROR)
Data == Msg("data", 0)
UpMsg == Accounts \union Ciphers \union Commands \union {Done, Msg("int", -1), Data}

Flags == {Flag(w) : w \in Int}
Sizes == {Msg("size", z) : z \in Int}
Salts == {Msg("salt", x) : x \in Salt}
DownMsg == Flags \union Sizes \union Salts \union {Text, Data, Err}

UserRow == [name : Name, salt : Salt, hash : {NoHash} \union (Password \X Salt)]

Types ==
  /\ spc \in [Sessions -> ServerPlaces]
  /\ acc \in [Sessions -> [opt : {"", "login", "signin"}, name : Name \union {""}]]
  /\ salt \in [Sessions -> Salt \union {0}]
  /\ uid \in [Sessions -> 0..Len(users)]
  /\ cpc \in [Sessions -> ClientPlaces]
  /\ cmd \in [Sessions -> Command \union {""}]
  /\ up \in [Sessions -> Seq(UpMsg)]
  /\ down \in [Sessions -> Seq(DownMsg)]
  /\ peer \in [Sessions -> {"open", "closed", "reset"}]
  /\ users \in Seq(UserRow)
  /\ lost \in [Sessions -> BOOLEAN]
  /\ odd \in [Sessions -> BOOLEAN]

\* A thread that waits for a cipher has sent a salt, and deals with a name that
\* it was sent; after a failed recv it has a name that was not, but no cipher
\* will come.
Entry(s) ==
  /\ peer[s] = "open" <=> cpc[s] # "closed"
  /\ spc[s] \in {"cipher", "rpcipher"} => salt[s] \in Salt
  /\ spc[s] = "cipher" => acc[s].name \in Name \/ (peer[s] = "closed" /\ up[s] = <<>>)

TInv == Types /\ \A s \in Sessions : Entry(s)

-----------------------------------------------------------------------------
(* The first of a set of rows.                                             *)

LEMMA FirstRow ==
  ASSUME NEW rows \in SUBSET Nat, rows # {}
  PROVE  First(rows) \in rows
  <1> DEFINE R == {ss \in Nat \X Nat : ss[1] < ss[2]}
  <1>1. IsWellFoundedOn(R, Nat)
    BY NatLessThanWellFounded DEF OpToRel
  <1>2. PICK x \in rows : \A y \in rows : ~(<<y, x>> \in R)
    <2> HIDE DEF R
    <2> QED BY <1>1, WFMin
  <1>3. ASSUME NEW y \in rows PROVE x <= y
    <2>1. <<y, x>> \in Nat \X Nat /\ <<y, x>>[1] = y /\ <<y, x>>[2] = x
      OBVIOUS
    <2>2. ~(y < x)
      BY <1>2, <2>1
    <2> QED BY <2>2
  <1> QED BY <1>3 DEF First

LEMMA Counted ==
  ASSUME Types, NEW name
  PROVE  /\ Rows(name) \in SUBSET DOMAIN users
         /\ DOMAIN users = 1..Len(users)
         /\ Cardinality(Rows(name)) \in Nat
  <1>1. users \in Seq(UserRow)
    BY DEF Types
  <1>2. Len(users) \in Nat /\ DOMAIN users = 1..Len(users)
    BY <1>1, LenProperties
  <1>3. IsFiniteSet(1..Len(users))
    BY <1>2, FS_Interval
  <1>4. Rows(name) \in SUBSET DOMAIN users
    BY DEF Rows
  <1> QED BY <1>2, <1>3, <1>4, FS_Subset, FS_CardinalityType

-----------------------------------------------------------------------------
(* What a recv returns, and what sends leave in the streams.               *)

LEMMA UpKinds ==
  ASSUME NEW m \in UpMsg
  PROVE  /\ m.type = "account" => m.v \in Credentials
         /\ m.type = "cipher" => m.v \in Password \X Salt
         /\ m.type = "command" => m.v \in Command
         /\ m.type \in {"account", "cipher", "command", "int", "data"}
         /\ m # Eof /\ m # Err
  BY DEF UpMsg, Accounts, Ciphers, Commands, Done, Data, Msg, Eof, Err

LEMMA DownKinds ==
  ASSUME NEW m \in DownMsg
  PROVE  /\ m.type = "salt" => m.v \in Salt
         /\ m.type \in {"flag", "size"} => m.v \in Int
         /\ m.type \in {"flag", "size", "salt", "text", "data", "error"}
         /\ m # Eof
         /\ m.type = "error" <=> m = Err
  BY DEF DownMsg, Flags, Sizes, Salts, Text, Data, Flag, Msg, Eof, Err

LEMMA ServerTakes ==
  ASSUME Types, NEW s \in Sessions, NEW pc, ServerRecv(s, pc)
  PROVE  /\ spc[s] = pc
         /\ up' \in [Sessions -> Seq(UpMsg)]
         /\ peer' \in [Sessions -> {"open", "closed", "reset"}]
         /\ Incoming(s) \in UpMsg \union {Eof, Err}
         /\ Incoming(s).type \in {ServerExpects[pc], "eof", "error"}
         /\ up[s] # <<>> => Incoming(s) = Head(up[s]) /\ Incoming(s) \in UpMsg /\ peer' = peer
         /\ up[s] = <<>> => /\ peer[s] # "open" /\ up' = up
                            /\ Incoming(s) = IF peer[s] = "reset" THEN Err ELSE Eof
                            /\ peer' = [peer EXCEPT ![s] = "closed"]
         /\ \A t \in Sessions \ {s} : up'[t] = up[t]
         /\ up'[s] = IF up[s] = <<>> THEN <<>> ELSE Tail(up[s])
  <1>1. up[s] \in Seq(UpMsg)
    BY DEF Types
  <1>2. CASE up[s] # <<>>
    <2>1. Head(up[s]) \in UpMsg /\ Tail(up[s]) \in Seq(UpMsg)
      BY <1>1, <1>2, HeadTailProperties
    <2>2. Incoming(s) = Head(up[s]) /\ Incoming(s) # Err
      BY <1>2, <2>1, UpKinds DEF Incoming
    <2>3. up' = [up EXCEPT ![s] = Tail(up[s])] /\ peer' = peer
      BY <1>2, <2>2 DEF ServerRecv, Types
    <2>4. up'[s] = Tail(up[s]) /\ up' \in [Sessions -> Seq(UpMsg)]
      BY <2>1, <2>3 DEF Types
    <2>5. spc[s] = pc /\ Incoming(s).type \in {ServerExpects[pc], "eof", "error"}
      BY DEF ServerRecv
    <2>6. peer' \in [Sessions -> {"open", "closed", "reset"}]
      BY <2>3 DEF Types
    <2> QED BY <1>2, <2>1, <2>2, <2>3, <2>4, <2>5, <2>6
  <1>3. CASE up[s] = <<>>
    <2>1. up' = up /\ peer[s] # "open"
      BY <1>3 DEF ServerRecv, Types
    <2>2. peer' = [peer EXCEPT ![s] = "closed"]
      BY <1>3, <2>1 DEF ServerRecv, Types, Incoming, Eof, Err
    <2> QED BY <1>3, <2>1, <2>2 DEF ServerRecv, Types, Incoming
  <1> QED BY <1>2, <1>3

LEMMA Answered ==
  ASSUME Types, NEW s \in Sessions, NEW msgs \in Seq(DownMsg), Answer(s, msgs)
  PROVE  /\ down' \in [Sessions -> Seq(DownMsg)]
         /\ \A t \in Sessions \ {s} : down'[t] = down[t]
         /\ down'[s] = IF peer[s] = "open" THEN down[s] \o msgs ELSE down[s]
  <1>1. down[s] \o msgs \in Seq(DownMsg)
    BY ConcatProperties DEF Types
  <1> QED BY <1>1 DEF Answer, Types

LEMMA ClientTakes ==
  ASSUME Types, NEW s \in Sessions, NEW pc, ClientRecv(s, pc)
  PROVE  /\ cpc[s] = pc
         /\ down' \in [Sessions -> Seq(DownMsg)]
         /\ Received(s).type \in {ClientExpects[pc], "eof", "error"}
         /\ down[s] # <<>> => Received(s) = Head(down[s]) /\ Received(s) \in DownMsg
         /\ down[s] = <<>> => Over(s) /\ Received(s) = Eof
         /\ \A t \in Sessions \ {s} : down'[t] = down[t]
         /\ down'[s] = IF down[s] = <<>> THEN <<>> ELSE Tail(down[s])
  <1>1. down[s] \in Seq(DownMsg)
    BY DEF Types
  <1>2. CASE down[s] # <<>>
    <2>1. Head(down[s]) \in DownMsg /\ Tail(down[s]) \in Seq(DownMsg)
      BY <1>1, <1>2, HeadTailProperties
    <2>3. down' = [down EXCEPT ![s] = Tail(down[s])]
      BY <1>2 DEF ClientRecv, Types
    <2>4. down'[s] = Tail(down[s]) /\ down' \in [Sessions -> Seq(DownMsg)]
      BY <2>1, <2>3 DEF Types
    <2>5. cpc[s] = pc /\ Received(s).type \in {ClientExpects[pc], "eof", "error"}
      BY DEF ClientRecv
    <2>6. Received(s) = Head(down[s])
      BY <1>2 DEF Received
    <2> QED BY <1>2, <2>1, <2>3, <2>4, <2>5, <2>6
  <1>3. CASE down[s] = <<>>
    <2>1. down' = down
      BY <1>3 DEF ClientRecv, Types
    <2> QED BY <1>3, <2>1 DEF ClientRecv, Types, Received
  <1> QED BY <1>2, <1>3

LEMMA Sent ==
  ASSUME Types, NEW s \in Sessions, NEW msg, NEW pc \in ClientPlaces, pc # "closed", cpc[s] # "closed",
         SendOrDie(s, msg, pc), msg \in UpMsg \/ Over(s)
  PROVE  /\ up' \in [Sessions -> Seq(UpMsg)]
         /\ cpc' \in [Sessions -> ClientPlaces]
         /\ peer' \in [Sessions -> {"open", "closed", "reset"}]
         /\ \A t \in Sessions \ {s} : cpc'[t] = cpc[t]
         /\ \A t \in Sessions \ {s} : peer'[t] = peer[t]
         /\ \A t \in Sessions \ {s} : up'[t] = up[t]
         /\ Over(s) => up' = up
         /\ ~Over(s) => up'[s] = Append(up[s], msg)
         /\ \/ cpc'[s] = pc /\ peer' = peer
            \/ Over(s) /\ cpc'[s] = "closed" /\ peer'[s] = "closed"
  <1>1. CASE ClientSend(s, msg) /\ ClientGoto(s, pc) /\ UNCHANGED peer
    <2>1. CASE Over(s)
      BY <1>1, <2>1 DEF ClientSend, ClientGoto, Types
    <2>2. CASE ~Over(s)
      <3>1. up[s] \in Seq(UpMsg) /\ Append(up[s], msg) \in Seq(UpMsg)
        BY <2>2, AppendProperties DEF Types
      <3> QED BY <1>1, <2>2, <3>1 DEF ClientSend, ClientGoto, Types
    <2> QED BY <2>1, <2>2
  <1>2. CASE /\ Over(s)
             /\ ClientGoto(s, "closed")
             /\ peer' = [peer EXCEPT ![s] = "closed"]
             /\ UNCHANGED up
    BY <1>2 DEF ClientGoto, Types, ClientPlaces
  <1> QED BY <1>1, <1>2 DEF SendOrDie
-----------------------------------------------------------------------------
(* A step of one session leaves the others alone.                          *)

Only(s) ==
  \A t \in Sessions \ {s} :
    /\ spc'[t] = spc[t] /\ acc'[t] = acc[t] /\ salt'[t] = salt[t] /\ uid'[t] = uid[t]
    /\ cpc'[t] = cpc[t] /\ cmd'[t] = cmd[t] /\ up'[t] = up[t] /\ down'[t] = down[t]
    /\ peer'[t] = peer[t] /\ lost'[t] = lost[t] /\ odd'[t] = odd[t]

Kept(s) == Types' /\ Entry(s)' /\ Only(s)

LEMMA KeptIsEnough ==
  ASSUME TInv, NEW s \in Sessions, Kept(s)
  PROVE  TInv'
  <1>1. ASSUME NEW t \in Sessions, t # s PROVE Entry(t)'
    BY <1>1 DEF TInv, Entry, Kept, Only
  <1> QED BY <1>1 DEF TInv, Kept

LEMMA Answers ==
  /\ \A w \in Int : Flag(w) \in DownMsg
  /\ \A z \in Int : Msg("size", z) \in DownMsg
  /\ \A x \in Salt : Msg("salt", x) \in DownMsg
  /\ Text \in DownMsg /\ Data \in DownMsg /\ Err \in DownMsg
  BY DEF DownMsg, Flags, Sizes, Salts

LEMMA BeginKept ==
  ASSUME TInv, NEW s \in Sessions, Begin(s) \/ ConnectFails(s)
  PROVE  Kept(s)
  <1>1. Types' /\ Only(s)
    BY DEF TInv, Types, Begin, ConnectFails, Goto, client, Only, ServerPlaces, ServerExpects
  <1>2. Entry(s)'
    BY DEF TInv, Types, Entry, Begin, ConnectFails, Goto, client
  <1> QED BY <1>1, <1>2 DEF Kept

LEMMA ServerEofKept ==
  ASSUME TInv, NEW s \in Sessions, ServerEof(s)
  PROVE  Kept(s)
  <1>1. PICK pc \in DOMAIN ServerExpects : ServerRecv(s, pc)
    BY DEF ServerEof
  <1>2. Types /\ Entry(s)
    BY DEF TInv
  <1>3. /\ up' \in [Sessions -> Seq(UpMsg)]
        /\ peer' \in [Sessions -> {"open", "closed", "reset"}]
        /\ up[s] = <<>> /\ up' = up /\ peer' = [peer EXCEPT ![s] = "closed"] /\ peer[s] # "open"
    BY <1>1, <1>2, ServerTakes, UpKinds DEF ServerEof
  <1>4. spc' = [spc EXCEPT ![s] = "over"] /\ UNCHANGED <<acc, salt, uid, cpc, cmd, down, users, lost, odd>>
    BY DEF ServerEof, Goto, client
  <1>5. Types' /\ Only(s)
    <2>1. spc' \in [Sessions -> ServerPlaces]
      BY <1>2, <1>4 DEF Types, ServerPlaces
    <2>2. Types'
      BY <1>2, <1>3, <1>4, <2>1 DEF Types
    <2>3. Only(s)
      BY <1>2, <1>3, <1>4 DEF Types, Only
    <2> QED BY <2>2, <2>3
  <1>6. Entry(s)'
    BY <1>2, <1>3, <1>4 DEF Types, Entry
  <1> QED BY <1>5, <1>6 DEF Kept

\* A recv of the thread keeps the sockets of the others, and a closed one closed.
LEMMA RecvKept ==
  ASSUME TInv, NEW s \in Sessions, NEW pc, ServerRecv(s, pc)
  PROVE  /\ \A t \in Sessions \ {s} : up'[t] = up[t] /\ peer'[t] = peer[t]
         /\ peer'[s] = "open" <=> peer[s] = "open"
         /\ up[s] = <<>> => peer'[s] = "closed" /\ up'[s] = <<>>
  <1>1. Types
    BY DEF TInv
  <1>2. CASE up[s] # <<>>
    BY <1>1, <1>2, ServerTakes DEF Types
  <1>3. CASE up[s] = <<>>
    <2>1. peer[s] # "open" /\ up' = up /\ peer' = [peer EXCEPT ![s] = "closed"]
      BY <1>1, <1>3, ServerTakes
    <2> QED BY <1>1, <1>3, <2>1 DEF Types
  <1> QED BY <1>2, <1>3

LEMMA AccountReceived ==
  ASSUME TInv, NEW s \in Sessions, ServerRecv(s, "account"), Incoming(s) # Eof
  PROVE  /\ Account(s) \in [opt : {"login", "signin"}, name : Name \union {""}]
         /\ Account(s).name \in Name \/ (peer'[s] = "closed" /\ up'[s] = <<>>)
  <1>1. CASE up[s] # <<>>
    <2>1. Incoming(s) \in UpMsg /\ Incoming(s).type = "account"
      BY <1>1, ServerTakes, UpKinds DEF TInv, ServerExpects
    <2>2. Account(s) = Incoming(s).v /\ Account(s) \in Credentials
      BY <2>1, UpKinds DEF Account
    <2> QED BY <2>2 DEF Credentials
  <1>2. CASE up[s] = <<>>
    <2>1. Incoming(s) = Err /\ peer'[s] = "closed" /\ up'[s] = <<>>
      BY <1>2, ServerTakes, RecvKept DEF TInv
    <2> QED BY <2>1 DEF Account
  <1> QED BY <1>1, <1>2

LEMMA LoginOrSigninKept ==
  ASSUME TInv, NEW s \in Sessions, LoginOrSignin(s)
  PROVE  Kept(s)
  <1> DEFINE rows == Rows(Account(s).name)
             signin == Account(s).opt = "signin"
  <1>1. Types /\ Entry(s) /\ ServerRecv(s, "account") /\ Incoming(s) # Eof
    BY DEF TInv, LoginOrSignin
  <1>2. acc' = [acc EXCEPT ![s] = Account(s)] /\ UNCHANGED <<uid, cpc, cmd, users, lost, odd>>
    BY DEF LoginOrSignin, client
  <1>3. /\ rows \in SUBSET DOMAIN users /\ DOMAIN users = 1..Len(users)
        /\ Cardinality(rows) \in Nat
    BY <1>1, Counted
  <1>4. /\ salt' \in [Sessions -> Salt \union {0}]
        /\ down' \in [Sessions -> Seq(DownMsg)]
        /\ spc' \in [Sessions -> ServerPlaces]
        /\ spc'[s] \in {"account", "cipher"}
        /\ spc'[s] = "cipher" => salt'[s] \in Salt
        /\ \A t \in Sessions \ {s} : salt'[t] = salt[t] /\ down'[t] = down[t] /\ spc'[t] = spc[t]
    <2>1. CASE (rows = {}) = signin
      <3>1. PICK x \in (IF signin THEN GetRandomStr ELSE {users[First(rows)].salt}) :
               /\ salt' = [salt EXCEPT ![s] = x]
               /\ Answer(s, <<Flag(Cardinality(rows)), Msg("salt", x)>>)
               /\ Goto(s, "cipher")
        BY <2>1 DEF LoginOrSignin
      <3>2. x \in Salt
        <4>1. CASE signin
          BY <3>1, <4>1 DEF GetRandomStr
        <4>2. CASE ~signin
          <5>1. rows # {} /\ rows \in SUBSET Nat
            BY <1>3, <2>1, <4>2
          <5>2. First(rows) \in 1..Len(users)
            BY <1>3, <5>1, FirstRow
          <5>3. users[First(rows)] \in UserRow
            BY <1>1, <1>3, <5>2, ElementOfSeq DEF Types
          <5> QED BY <3>1, <4>2, <5>3 DEF UserRow
        <4> QED BY <4>1, <4>2
      <3>3. <<Flag(Cardinality(rows)), Msg("salt", x)>> \in Seq(DownMsg)
        BY <1>3, <3>2, Answers
      <3>4. down' \in [Sessions -> Seq(DownMsg)] /\ \A t \in Sessions \ {s} : down'[t] = down[t]
        BY <1>1, <3>1, <3>3, Answered DEF Types
      <3> QED BY <1>1, <3>1, <3>2, <3>4 DEF Types, Goto, ServerPlaces, ServerExpects
    <2>2. CASE (rows = {}) # signin
      <3>1. Answer(s, <<Flag(-1)>>) /\ UNCHANGED <<salt, spc>>
        BY <2>2 DEF LoginOrSignin
      <3>2. <<Flag(-1)>> \in Seq(DownMsg)
        BY Answers
      <3>3. down' \in [Sessions -> Seq(DownMsg)] /\ \A t \in Sessions \ {s} : down'[t] = down[t]
        BY <1>1, <3>1, <3>2, Answered DEF Types
      <3>4. spc[s] = "account"
        BY <1>1, ServerTakes
      <3> QED BY <1>1, <3>1, <3>3, <3>4 DEF Types
    <2> QED BY <2>1, <2>2
  <1>5. /\ up' \in [Sessions -> Seq(UpMsg)] /\ peer' \in [Sessions -> {"open", "closed", "reset"}]
        /\ \A t \in Sessions \ {s} : up'[t] = up[t] /\ peer'[t] = peer[t]
        /\ peer'[s] = "open" <=> peer[s] = "open"
    BY <1>1, ServerTakes, RecvKept
  <1>6. /\ Account(s) \in [opt : {"login", "signin"}, name : Name \union {""}]
        /\ Account(s).name \in Name \/ (peer'[s] = "closed" /\ up'[s] = <<>>)
    BY <1>1, AccountReceived
  <1>7. acc' \in [Sessions -> [opt : {"", "login", "signin"}, name : Name \union {""}]]
    <2>1. Account(s) \in [opt : {"", "login", "signin"}, name : Name \union {""}]
      BY <1>6
    <2> QED BY <1>1, <1>2, <2>1 DEF Types
  <1>8. Types'
    BY <1>1, <1>2, <1>4, <1>5, <1>7 DEF Types
  <1>9. Only(s)
    BY <1>1, <1>2, <1>4, <1>5 DEF Types, Only
  <1>10. Entry(s)'
    BY <1>1, <1>2, <1>4, <1>5, <1>6 DEF Types, Entry
  <1> QED BY <1>8, <1>9, <1>10 DEF Kept

\* A thread receives, answers and goes on.
Replied(s, pc, msgs) ==
  /\ ServerRecv(s, pc)
  /\ msgs \in Seq(DownMsg) /\ Answer(s, msgs)
  /\ spc' \in [Sessions -> ServerPlaces] /\ spc'[s] # "cipher"
  /\ salt' \in [Sessions -> Salt \union {0}] /\ (spc'[s] = "rpcipher" => salt'[s] \in Salt)
  /\ users' \in Seq(UserRow) /\ uid' \in [Sessions -> 0..Len(users')]
  /\ odd' \in [Sessions -> BOOLEAN]
  /\ \A t \in Sessions \ {s} : /\ spc'[t] = spc[t] /\ salt'[t] = salt[t]
                              /\ uid'[t] = uid[t] /\ odd'[t] = odd[t]
  /\ UNCHANGED <<acc, cpc, cmd, lost>>

LEMMA RepliedKept ==
  ASSUME TInv, NEW s \in Sessions, NEW pc, NEW msgs, Replied(s, pc, msgs)
  PROVE  Kept(s)
  <1>1. Types /\ Entry(s)
    BY DEF TInv
  <1>2. /\ down' \in [Sessions -> Seq(DownMsg)]
        /\ \A t \in Sessions \ {s} : down'[t] = down[t]
    BY <1>1, Answered DEF Replied
  <1>3. /\ up' \in [Sessions -> Seq(UpMsg)] /\ peer' \in [Sessions -> {"open", "closed", "reset"}]
        /\ \A t \in Sessions \ {s} : up'[t] = up[t] /\ peer'[t] = peer[t]
        /\ peer'[s] = "open" <=> peer[s] = "open"
    BY <1>1, ServerTakes, RecvKept DEF Replied
  <1>4. Types'
    BY <1>1, <1>2, <1>3 DEF Types, Replied
  <1>5. Only(s)
    BY <1>1, <1>2, <1>3 DEF Types, Replied, Only
  <1>6. Entry(s)'
    BY <1>1, <1>3 DEF Types, Replied, Entry
  <1> QED BY <1>4, <1>5, <1>6 DEF Kept

\* The ids of the sessions stay ids of a longer table.
LEMMA EnteredAs ==
  ASSUME Types, NEW s \in Sessions, users' \in Seq(UserRow), Len(users) <= Len(users'),
         NEW id \in 0..Len(users'), uid' = [uid EXCEPT ![s] = id]
  PROVE  uid' \in [Sessions -> 0..Len(users')] /\ \A t \in Sessions \ {s} : uid'[t] = uid[t]
  <1>1. Len(users) \in Nat /\ Len(users') \in Nat
    BY LenProperties DEF Types
  <1>2. \A i \in 0..Len(users) : i \in 0..Len(users')
    BY <1>1
  <1> QED BY <1>2 DEF Types

LEMMA Gone ==
  ASSUME Types, NEW s \in Sessions, NEW pc \in ServerPlaces, Goto(s, pc)
  PROVE  /\ spc' \in [Sessions -> ServerPlaces] /\ spc'[s] = pc
         /\ \A t \in Sessions \ {s} : spc'[t] = spc[t]
  BY DEF Types, Goto

\* The password column of a row: a cipher that was sent, or nothing.
LEMMA HashReceived ==
  ASSUME TInv, NEW s \in Sessions, NEW pc \in {"cipher", "rpcipher"}, ServerRecv(s, pc), Incoming(s) # Eof
  PROVE  Hash(s) \in {NoHash} \union (Password \X Salt)
  <1>1. CASE up[s] # <<>>
    <2>1. Incoming(s) \in UpMsg /\ Incoming(s).type \in {ServerExpects[pc], "eof", "error"}
      BY <1>1, ServerTakes DEF TInv
    <2>2. ServerExpects[pc] = "cipher"
      BY DEF ServerExpects
    <2>3. Incoming(s).type = "cipher"
      BY <2>1, <2>2, UpKinds
    <2> QED BY <2>1, <2>3, UpKinds DEF Hash
  <1>2. CASE up[s] = <<>>
    BY <1>2, ServerTakes DEF TInv, Hash
  <1> QED BY <1>1, <1>2

\* The row that the thread finds, or enters, has the name and the cipher.
LEMMA SignInFinds ==
  ASSUME TInv, NEW s \in Sessions, SignIn(s)
  PROVE  LET id == First(Matches(users', acc[s].name, Hash(s)))
         IN /\ users' \in Seq(UserRow) /\ Len(users) <= Len(users')
            /\ id \in 1..Len(users') /\ users'[id].name = acc[s].name /\ users'[id].hash = Hash(s)
            /\ \A i \in 1..Len(users) : users'[i] = users[i]
  <1> DEFINE row == [name |-> acc[s].name, salt |-> salt[s], hash |-> Hash(s)]
             rows == Matches(users', acc[s].name, Hash(s))
  <1>1. Types /\ Entry(s) /\ ServerRecv(s, "cipher") /\ Incoming(s) # Eof /\ users' = Append(users, row)
    BY DEF TInv, SignIn
  <1>2. acc[s].name \in Name
    <2>1. SUFFICES ASSUME peer[s] = "closed", up[s] = <<>> PROVE FALSE
      BY <1>1, ServerTakes DEF Entry
    <2> QED BY <1>1, <2>1, ServerTakes
  <1>3. row \in UserRow
    <2>1. salt[s] \in Salt
      BY <1>1, ServerTakes DEF Entry
    <2> QED BY <1>1, <1>2, <2>1, HashReceived DEF UserRow
  <1>4. users \in Seq(UserRow) /\ Len(users) \in Nat
    BY <1>1, LenProperties DEF Types
  <1> HIDE DEF row
  <1>5. /\ users' \in Seq(UserRow) /\ Len(users') = Len(users) + 1 /\ users'[Len(users) + 1] = row
        /\ \A i \in 1..Len(users) : users'[i] = users[i]
    BY <1>1, <1>3, <1>4, AppendProperties
  <1>6. DOMAIN users' = 1..Len(users')
    BY <1>5, LenProperties
  <1>7. rows \in SUBSET Nat /\ Len(users) + 1 \in rows
    BY <1>4, <1>5, <1>6 DEF Matches, row
  <1>8. First(rows) \in rows
    BY <1>7, FirstRow
  <1> QED BY <1>4, <1>5, <1>6, <1>8 DEF Matches

LEMMA LoginFinds ==
  ASSUME TInv, NEW s \in Sessions, Matches(users, acc[s].name, Hash(s)) # {}
  PROVE  LET id == First(Matches(users, acc[s].name, Hash(s)))
         IN id \in 1..Len(users) /\ users[id].name = acc[s].name /\ users[id].hash = Hash(s)
  <1> DEFINE rows == Matches(users, acc[s].name, Hash(s))
  <1>1. users \in Seq(UserRow) /\ Len(users) \in Nat /\ DOMAIN users = 1..Len(users)
    BY LenProperties DEF TInv, Types
  <1>2. rows \in SUBSET Nat /\ rows # {}
    BY <1>1 DEF Matches
  <1> HIDE DEF rows
  <1>3. First(rows) \in rows
    BY <1>2, FirstRow
  <1> QED BY <1>1, <1>3 DEF Matches, rows

LEMMA SignInKept ==
  ASSUME TInv, NEW s \in Sessions, SignIn(s)
  PROVE  Kept(s)
  <1> DEFINE id == First(Matches(users', acc[s].name, Hash(s)))
  <1>1. /\ Types /\ ServerRecv(s, "cipher") /\ Answer(s, <<Flag(id), Text>>)
        /\ uid' = [uid EXCEPT ![s] = id] /\ Goto(s, "command")
        /\ UNCHANGED <<acc, salt, cpc, cmd, lost, odd>>
    BY DEF TInv, SignIn, Enter, client
  <1>2. /\ users' \in Seq(UserRow) /\ Len(users) <= Len(users') /\ id \in 1..Len(users')
        /\ Len(users') \in Nat
    BY SignInFinds, LenProperties
  <1> HIDE DEF id
  <1>3. id \in Int /\ id \in 0..Len(users')
    BY <1>2
  <1>4. <<Flag(id), Text>> \in Seq(DownMsg)
    BY <1>3, Answers
  <1>5. "command" \in ServerPlaces
    BY DEF ServerPlaces, ServerExpects
  <1>6. uid' \in [Sessions -> 0..Len(users')] /\ \A t \in Sessions \ {s} : uid'[t] = uid[t]
    BY <1>1, <1>2, <1>3, EnteredAs
  <1>7. /\ spc' \in [Sessions -> ServerPlaces] /\ spc'[s] = "command"
        /\ \A t \in Sessions \ {s} : spc'[t] = spc[t]
    BY <1>1, <1>5, Gone
  <1>8. Replied(s, "cipher", <<Flag(id), Text>>)
    BY <1>1, <1>2, <1>4, <1>6, <1>7 DEF Replied, Types
  <1> QED BY <1>8, RepliedKept

LEMMA LoginKept ==
  ASSUME TInv, NEW s \in Sessions, Login(s)
  PROVE  Kept(s)
  <1> DEFINE rows == Matches(users, acc[s].name, Hash(s))
             id == First(rows)
  <1>1. Types /\ ServerRecv(s, "cipher") /\ UNCHANGED <<acc, salt, cpc, cmd, users, lost, odd>>
    BY DEF TInv, Login, client
  <1>2. "command" \in ServerPlaces /\ "account" \in ServerPlaces
    BY DEF ServerPlaces, ServerExpects
  <1>3. CASE rows = {}
    <2>1. Answer(s, <<Flag(-1)>>) /\ Goto(s, "account") /\ UNCHANGED uid
      BY <1>3 DEF Login
    <2>2. <<Flag(-1)>> \in Seq(DownMsg)
      BY Answers
    <2>3. /\ spc' \in [Sessions -> ServerPlaces] /\ spc'[s] = "account"
          /\ \A t \in Sessions \ {s} : spc'[t] = spc[t]
      BY <1>1, <1>2, <2>1, Gone
    <2>4. Replied(s, "cipher", <<Flag(-1)>>)
      BY <1>1, <2>1, <2>2, <2>3 DEF Replied, Types
    <2> QED BY <2>4, RepliedKept
  <1>4. CASE rows # {}
    <2>1. Answer(s, <<Flag(id), Text>>) /\ Goto(s, "command") /\ uid' = [uid EXCEPT ![s] = id]
      BY <1>4 DEF Login, Enter
    <2>2. id \in 1..Len(users) /\ Len(users) \in Nat
      BY <1>1, <1>4, LoginFinds, LenProperties DEF Types
    <2> HIDE DEF id
    <2>3. id \in Int /\ id \in 0..Len(users')
      BY <1>1, <2>2
    <2>4. <<Flag(id), Text>> \in Seq(DownMsg)
      BY <2>3, Answers
    <2>5. users' \in Seq(UserRow) /\ Len(users) <= Len(users')
      <3>1. users \in Seq(UserRow) /\ users' = users
        BY <1>1 DEF Types
      <3>2. Len(users') = Len(users)
        BY <3>1
      <3> QED BY <2>2, <3>1, <3>2
    <2>6. uid' \in [Sessions -> 0..Len(users')] /\ \A t \in Sessions \ {s} : uid'[t] = uid[t]
      BY <1>1, <2>1, <2>3, <2>5, EnteredAs
    <2>7. /\ spc' \in [Sessions -> ServerPlaces] /\ spc'[s] = "command"
          /\ \A t \in Sessions \ {s} : spc'[t] = spc[t]
      BY <1>1, <1>2, <2>1, Gone
    <2>8. Replied(s, "cipher", <<Flag(id), Text>>)
      BY <1>1, <2>1, <2>4, <2>5, <2>6, <2>7 DEF Replied, Types
    <2> QED BY <2>8, RepliedKept
  <1> QED BY <1>3, <1>4

LEMMA RepliesTyped ==
  ASSUME NEW kind, NEW msgs \in Replies(kind)
  PROVE  msgs \in Seq(DownMsg)
  <1>1. /\ Flag(NO_ERROR) \in DownMsg /\ Flag(RUN_ERROR) \in DownMsg /\ Flag(ARGS_NUM_ERROR) \in DownMsg
        /\ Flag(ERROR_CMD) \in DownMsg /\ Text \in DownMsg /\ Msg("size", NO_SUCH_FILE) \in DownMsg
        /\ Msg("size", UPLOAD_EXISTING_FILE) \in DownMsg /\ Msg("size", 0) \in DownMsg
    BY Answers DEF NO_ERROR, RUN_ERROR, ARGS_NUM_ERROR, ERROR_CMD, NO_SUCH_FILE, UPLOAD_EXISTING_FILE
  <1>2. \A x, y, z \in DownMsg : /\ <<x>> \in Seq(DownMsg) /\ <<x, y>> \in Seq(DownMsg)
                                 /\ <<x, y, z>> \in Seq(DownMsg)
    OBVIOUS
  <1>3. CASE kind \in {"unknown", "args"}
    BY <1>1, <1>2, <1>3 DEF Replies
  <1>4. CASE kind = "change"
    BY <1>1, <1>2, <1>4 DEF Replies
  <1>5. CASE kind \in {"list", "cd"}
    <2>1. msgs \in {<<Flag(NO_ERROR), Flag(NO_ERROR), Text>>, <<Flag(NO_ERROR), Flag(RUN_ERROR)>>}
      BY <1>5 DEF Replies
    <2> QED BY <1>1, <1>2, <2>1
  <1>6. CASE kind = "download"
    BY <1>1, <1>2, <1>6 DEF Replies
  <1>7. CASE kind = "upload"
    BY <1>1, <1>2, <1>7 DEF Replies
  <1> QED BY <1>3, <1>4, <1>5, <1>6, <1>7 DEF Replies

\* The steps of the thread in the command loop.
LEMMA CommandKept ==
  ASSUME TInv, NEW s \in Sessions,
         CmdAnalyse(s) \/ Download(s) \/ Upload(s) \/ Exit(s) \/ RePassWd(s)
  PROVE  Kept(s)
  <1> USE DEF NO_ERROR, NO_SUCH_FILE
  <1>1. Types
    BY DEF TInv
  <1>2. CASE CmdAnalyse(s)
    <2>1. PICK msgs \in Replies(Kind(s)) : Answer(s, msgs)
      BY <1>2 DEF CmdAnalyse
    <2>2. msgs \in Seq(DownMsg)
      BY RepliesTyped
    <2>3. spc[s] = "command" /\ ServerRecv(s, "command")
      BY <1>1, <1>2, ServerTakes DEF CmdAnalyse
    <2>4. Replied(s, "command", msgs)
      BY <1>1, <1>2, <2>1, <2>2, <2>3 DEF Replied, Types, CmdAnalyse, server, client
    <2> QED BY <2>4, RepliedKept
  <1>3. CASE Download(s)
    <2>1. PICK size \in {-2, -1, 0, 1} :
            /\ Answer(s, <<Flag(NO_ERROR), Msg("size", size)>> \o
                         (IF size > 0 THEN <<Msg("data", 0)>> ELSE <<>>))
            /\ odd' = [odd EXCEPT ![s] = @ \/ size = NO_SUCH_FILE]
      BY <1>3 DEF Download
    <2> DEFINE msgs == <<Flag(NO_ERROR), Msg("size", size)>> \o
                         (IF size > 0 THEN <<Msg("data", 0)>> ELSE <<>>)
    <2>2. msgs \in Seq(DownMsg)
      <3>1. <<Flag(NO_ERROR), Msg("size", size)>> \in Seq(DownMsg)
        BY Answers
      <3>2. <<Msg("data", 0)>> \in Seq(DownMsg) /\ <<>> \in Seq(DownMsg)
        BY Answers DEF Data
      <3> QED BY <3>1, <3>2, ConcatProperties
    <2> HIDE DEF msgs
    <2>3. odd' \in [Sessions -> BOOLEAN] /\ \A t \in Sessions \ {s} : odd'[t] = odd[t]
      BY <1>1, <2>1 DEF Types
    <2>4. /\ spc' \in [Sessions -> ServerPlaces] /\ spc'[s] = "ack"
          /\ \A t \in Sessions \ {s} : spc'[t] = spc[t]
      BY <1>1, <1>3, Gone DEF Download, ServerPlaces, ServerExpects
    <2>5. ServerRecv(s, "command") /\ Answer(s, msgs) /\ UNCHANGED <<acc, salt, uid, cpc, cmd, users, lost>>
      BY <1>3, <2>1 DEF Download, client, msgs
    <2>6. Replied(s, "command", msgs)
      BY <1>1, <2>2, <2>3, <2>4, <2>5 DEF Replied, Types
    <2> QED BY <2>6, RepliedKept
  <1>4. CASE Upload(s) \/ Exit(s)
    <2> DEFINE msgs == IF Upload(s) THEN <<Flag(NO_ERROR), Msg("size", 1)>> ELSE <<Flag(NO_ERROR)>>
    <2>1. /\ ServerRecv(s, "command") /\ Answer(s, msgs)
          /\ Goto(s, "receive") \/ Goto(s, "over")
          /\ UNCHANGED <<acc, salt, uid, cpc, cmd, users, lost, odd>>
      BY <1>4 DEF Upload, Exit, client
    <2>2. msgs \in Seq(DownMsg)
      BY Answers
    <2> HIDE DEF msgs
    <2>3. /\ spc' \in [Sessions -> ServerPlaces] /\ spc'[s] \in {"receive", "over"}
          /\ \A t \in Sessions \ {s} : spc'[t] = spc[t]
      BY <1>1, <2>1, Gone DEF ServerPlaces, ServerExpects
    <2>4. Replied(s, "command", msgs)
      BY <1>1, <2>1, <2>2, <2>3 DEF Replied, Types
    <2> QED BY <2>4, RepliedKept
  <1>5. CASE RePassWd(s)
    <2>1. PICK x \in Salt :
            salt' = [salt EXCEPT ![s] = x] /\ Answer(s, <<Flag(NO_ERROR), Msg("salt", x)>>)
      BY <1>5 DEF RePassWd, GetRandomStr
    <2>2. <<Flag(NO_ERROR), Msg("salt", x)>> \in Seq(DownMsg)
      BY Answers
    <2>3. /\ spc' \in [Sessions -> ServerPlaces]
          /\ \A t \in Sessions \ {s} : spc'[t] = spc[t]
          /\ spc'[s] = "rpcipher"
      BY <1>1, <1>5, Gone DEF RePassWd, ServerPlaces, ServerExpects
    <2>4. ServerRecv(s, "command") /\ UNCHANGED <<acc, uid, cpc, cmd, users, lost, odd>>
      BY <1>5 DEF RePassWd, client
    <2>5. Replied(s, "command", <<Flag(NO_ERROR), Msg("salt", x)>>)
      BY <1>1, <2>1, <2>2, <2>3, <2>4 DEF Replied, Types
    <2> QED BY <2>5, RepliedKept
  <1> QED BY <1>2, <1>3, <1>4, <1>5

LEMMA DownloadAckKept ==
  ASSUME TInv, NEW s \in Sessions, DownloadAck(s)
  PROVE  Kept(s)
  <1>1. Types /\ Entry(s) /\ ServerRecv(s, "ack") /\ UNCHANGED <<acc, salt, uid, cpc, cmd, down, users, lost, odd>>
    BY DEF TInv, DownloadAck, client
  <1>2. /\ up' \in [Sessions -> Seq(UpMsg)] /\ peer' \in [Sessions -> {"open", "closed", "reset"}]
        /\ \A t \in Sessions \ {s} : up'[t] = up[t] /\ peer'[t] = peer[t]
        /\ peer'[s] = "open" <=> peer[s] = "open"
    BY <1>1, ServerTakes, RecvKept
  <1>3. /\ spc' \in [Sessions -> ServerPlaces] /\ spc'[s] = "command"
        /\ \A t \in Sessions \ {s} : spc'[t] = spc[t]
    BY <1>1, Gone DEF DownloadAck, ServerPlaces, ServerExpects
  <1>4. Types' /\ Only(s)
    BY <1>1, <1>2, <1>3 DEF Types, Only
  <1>5. Entry(s)'
    BY <1>1, <1>2, <1>3 DEF Entry
  <1> QED BY <1>4, <1>5 DEF Kept

LEMMA UploadReceiveKept ==
  ASSUME TInv, NEW s \in Sessions, UploadReceive(s)
  PROVE  Kept(s)
  <1> DEFINE msgs == IF Incoming(s) = Err THEN <<>> ELSE <<Flag(NO_ERROR)>>
  <1>1. /\ Types /\ ServerRecv(s, "receive") /\ Answer(s, msgs) /\ Goto(s, "command")
        /\ UNCHANGED <<acc, salt, uid, cpc, cmd, users, lost, odd>>
    BY DEF TInv, UploadReceive, client
  <1>2. msgs \in Seq(DownMsg)
    BY Answers DEF NO_ERROR
  <1> HIDE DEF msgs
  <1>3. /\ spc' \in [Sessions -> ServerPlaces] /\ spc'[s] = "command"
        /\ \A t \in Sessions \ {s} : spc'[t] = spc[t]
    BY <1>1, Gone DEF ServerPlaces, ServerExpects
  <1>4. Replied(s, "receive", msgs)
    BY <1>1, <1>2, <1>3 DEF Replied, Types
  <1> QED BY <1>4, RepliedKept

LEMMA RePassWdUpdateKept ==
  ASSUME TInv, NEW s \in Sessions, RePassWdUpdate(s)
  PROVE  Kept(s)
  <1> DEFINE f == IF users' = users THEN RUN_ERROR ELSE NO_ERROR
  <1>1. /\ Types /\ Entry(s) /\ ServerRecv(s, "rpcipher") /\ Incoming(s) # Eof /\ Answer(s, <<Flag(f)>>)
        /\ Goto(s, "account")
        /\ users' = [users EXCEPT ![uid[s]].salt = salt[s], ![uid[s]].hash = Hash(s)]
        /\ UNCHANGED <<acc, salt, uid, cpc, cmd, lost, odd>>
    BY DEF TInv, RePassWdUpdate, client
  <1>2. <<Flag(f)>> \in Seq(DownMsg)
    BY Answers DEF NO_ERROR, RUN_ERROR
  <1> HIDE DEF f
  <1>3. /\ spc' \in [Sessions -> ServerPlaces] /\ spc'[s] = "account"
        /\ \A t \in Sessions \ {s} : spc'[t] = spc[t]
    BY <1>1, Gone DEF ServerPlaces, ServerExpects
  <1>4. users' \in Seq(UserRow) /\ Len(users') = Len(users)
    <2>1. users \in Seq(UserRow)
      BY <1>1 DEF Types
    <2>2. CASE uid[s] \in 1..Len(users)
      <3>1. salt[s] \in Salt /\ Hash(s) \in {NoHash} \union (Password \X Salt)
        BY <1>1, ServerTakes, HashReceived DEF Entry
      <3>2. users[uid[s]] \in UserRow
        BY <2>1, <2>2, ElementOfSeq
      <3>3. [users[uid[s]] EXCEPT !.salt = salt[s], !.hash = Hash(s)] \in UserRow
        BY <3>1, <3>2 DEF UserRow
      <3>4. users' = [users EXCEPT ![uid[s]] = [users[uid[s]] EXCEPT !.salt = salt[s], !.hash = Hash(s)]]
        BY <1>1, <2>1, <2>2, LenProperties
      <3> QED BY <2>1, <2>2, <3>3, <3>4, ExceptSeq
    <2>3. CASE uid[s] \notin 1..Len(users)
      <3>1. users' = users
        BY <1>1, <2>1, <2>3, LenProperties
      <3> QED BY <2>1, <3>1
    <2> QED BY <2>2, <2>3
  <1>5. uid' \in [Sessions -> 0..Len(users')]
    BY <1>1, <1>4 DEF Types
  <1>6. Replied(s, "rpcipher", <<Flag(f)>>)
    BY <1>1, <1>2, <1>3, <1>4, <1>5 DEF Replied, Types
  <1> QED BY <1>6, RepliedKept

LEMMA ThreadStepKept ==
  ASSUME TInv, NEW s \in Sessions, ThreadStep(s)
  PROVE  Kept(s)
  BY ServerEofKept, LoginOrSigninKept, SignInKept, LoginKept, CommandKept, DownloadAckKept,
     UploadReceiveKept, RePassWdUpdateKept DEF ThreadStep

-----------------------------------------------------------------------------
(* The steps of the client.                                                *)

\* A client acts, and closes its socket only with itself.
Acted(s) ==
  /\ cpc[s] # "closed"
  /\ cpc' \in [Sessions -> ClientPlaces]
  /\ cmd' \in [Sessions -> Command \union {""}]
  /\ up' \in [Sessions -> Seq(UpMsg)]
  /\ down' \in [Sessions -> Seq(DownMsg)]
  /\ peer' \in [Sessions -> {"open", "closed", "reset"}]
  /\ odd' \in [Sessions -> BOOLEAN]
  /\ \A t \in Sessions \ {s} : /\ cpc'[t] = cpc[t] /\ cmd'[t] = cmd[t] /\ up'[t] = up[t]
                              /\ down'[t] = down[t] /\ peer'[t] = peer[t] /\ odd'[t] = odd[t]
  /\ peer'[s] = "open" <=> cpc'[s] # "closed"
  /\ UNCHANGED <<spc, acc, salt, uid, users, lost>>

LEMMA ActedKept ==
  ASSUME TInv, NEW s \in Sessions, Acted(s)
  PROVE  Kept(s)
  <1>1. Types /\ Entry(s)
    BY DEF TInv
  <1>2. Types'
    BY <1>1 DEF Acted, Types
  <1>3. Only(s)
    BY <1>1 DEF Acted, Only
  <1>4. Entry(s)'
    BY <1>1 DEF Acted, Entry
  <1> QED BY <1>2, <1>3, <1>4 DEF Kept

\* The client takes what recv returns and goes on, or closes.
Moves(s, pc, c) ==
  /\ pc \in DOMAIN ClientExpects /\ ClientRecv(s, pc)
  /\ c \in ClientPlaces /\ ClientGoto(s, c)
  /\ IF c = "closed" THEN peer' = [peer EXCEPT ![s] = "closed"] ELSE UNCHANGED peer
  /\ UNCHANGED <<server, cmd, up, users, lost, odd>>

\* The client takes what recv returns and sends the next message.
Sends(s, pc, msg, c) ==
  /\ pc \in DOMAIN ClientExpects /\ ClientRecv(s, pc)
  /\ c \in ClientPlaces \ {"closed"}
  /\ msg \in UpMsg \/ Over(s)
  /\ SendOrDie(s, msg, c)
  /\ UNCHANGED <<server, cmd, users, lost, odd>>

LEMMA MovesKept ==
  ASSUME TInv, NEW s \in Sessions, NEW pc, NEW c, Moves(s, pc, c)
  PROVE  Kept(s)
  <1>1. Types /\ Entry(s)
    BY DEF TInv
  <1>2. /\ cpc[s] = pc /\ pc # "closed" /\ peer[s] = "open"
        /\ down' \in [Sessions -> Seq(DownMsg)] /\ \A t \in Sessions \ {s} : down'[t] = down[t]
    BY <1>1, ClientTakes DEF Moves, ClientExpects, Entry
  <1>3. /\ cpc' \in [Sessions -> ClientPlaces] /\ cpc'[s] = c
        /\ \A t \in Sessions \ {s} : cpc'[t] = cpc[t]
    BY <1>1 DEF Moves, Types, ClientGoto
  <1>4. /\ peer' \in [Sessions -> {"open", "closed", "reset"}]
        /\ \A t \in Sessions \ {s} : peer'[t] = peer[t]
        /\ peer'[s] = "open" <=> c # "closed"
    BY <1>1, <1>2 DEF Moves, Types
  <1>5. Acted(s)
    BY <1>1, <1>2, <1>3, <1>4 DEF Moves, Acted, Types, server
  <1> QED BY <1>5, ActedKept

LEMMA SendsKept ==
  ASSUME TInv, NEW s \in Sessions, NEW pc, NEW msg, NEW c, Sends(s, pc, msg, c)
  PROVE  Kept(s)
  <1>1. Types /\ Entry(s)
    BY DEF TInv
  <1>2. /\ cpc[s] = pc /\ pc # "closed" /\ peer[s] = "open"
        /\ down' \in [Sessions -> Seq(DownMsg)] /\ \A t \in Sessions \ {s} : down'[t] = down[t]
    BY <1>1, ClientTakes DEF Sends, ClientExpects, Entry
  <1>3. /\ up' \in [Sessions -> Seq(UpMsg)] /\ cpc' \in [Sessions -> ClientPlaces]
        /\ peer' \in [Sessions -> {"open", "closed", "reset"}]
        /\ \A t \in Sessions \ {s} : up'[t] = up[t] /\ cpc'[t] = cpc[t] /\ peer'[t] = peer[t]
        /\ peer'[s] = "open" <=> cpc'[s] # "closed"
    BY <1>1, <1>2, Sent DEF Sends
  <1>4. Acted(s)
    BY <1>1, <1>2, <1>3 DEF Sends, Acted, Types, server
  <1> QED BY <1>4, ActedKept

(* What each recv of the client leads to.                                  *)

LEMMA Closes ==
  ASSUME TInv, NEW s \in Sessions, NEW c,
         peer' = [peer EXCEPT ![s] = IF c = "closed" THEN "closed" ELSE @]
  PROVE  IF c = "closed" THEN peer' = [peer EXCEPT ![s] = "closed"] ELSE UNCHANGED peer
  BY DEF TInv, Types

LEMMA LoginMoves ==
  ASSUME TInv, NEW s \in Sessions
  PROVE  /\ RecvFlag(s) => Moves(s, "flag", IF Received(s) = Err THEN "pwd"
                                            ELSE IF Value(s, 0) = -1 THEN "menu" ELSE "salt")
         /\ RecvSalt(s) /\ Received(s) = Err => Moves(s, "salt", "pwd")
         /\ Welcome(s) => Moves(s, "login", IF Value(s, 0) = -1 THEN "menu" ELSE "pwd")
         /\ RecvPwd(s) => Moves(s, "pwd", IF Received(s) = Err THEN "closed" ELSE "prompt")
         /\ RecvText(s) => Moves(s, "text", IF Received(s) = Err THEN "closed" ELSE "prompt")
  <1>1. RecvFlag(s) => Moves(s, "flag", IF Received(s) = Err THEN "pwd"
                                        ELSE IF Value(s, 0) = -1 THEN "menu" ELSE "salt")
    BY DEF RecvFlag, ClientExpects, ClientPlaces, Moves
  <1>2. RecvSalt(s) /\ Received(s) = Err => Moves(s, "salt", "pwd")
    BY DEF RecvSalt, ClientExpects, ClientPlaces, Moves
  <1>3. Welcome(s) => Moves(s, "login", IF Value(s, 0) = -1 THEN "menu" ELSE "pwd")
    BY DEF Welcome, ClientExpects, ClientPlaces, Moves
  <1>4. ASSUME NEW pc \in {"pwd", "text"}, TakeText(s, pc)
        PROVE  Moves(s, pc, IF Received(s) = Err THEN "closed" ELSE "prompt")
    <2>1. IF Received(s) = Err THEN peer' = [peer EXCEPT ![s] = "closed"] ELSE UNCHANGED peer
      BY <1>4 DEF TakeText, TInv, Types
    <2> QED BY <1>4, <2>1 DEF TakeText, ClientExpects, ClientPlaces, Moves
  <1> QED BY <1>1, <1>2, <1>3, <1>4 DEF RecvPwd, RecvText

LEMMA ConfirmMoves ==
  ASSUME TInv, NEW s \in Sessions, Confirm(s)
  PROVE  Moves(s, "confirm", IF Value(s, 260) = NO_ERROR THEN AfterConfirm(cmd[s]) ELSE "prompt")
  <1> DEFINE next == IF Value(s, 260) = NO_ERROR THEN AfterConfirm(cmd[s]) ELSE "prompt"
  <1>1. /\ ClientRecv(s, "confirm") /\ ClientGoto(s, next)
        /\ peer' = [peer EXCEPT ![s] = IF next = "closed" THEN "closed" ELSE @]
        /\ UNCHANGED <<server, cmd, up, users, lost, odd>>
    BY DEF Confirm
  <1>2. next \in ClientPlaces
    BY DEF AfterConfirm, ClientPlaces, ClientExpects
  <1> HIDE DEF next
  <1>3. IF next = "closed" THEN peer' = [peer EXCEPT ![s] = "closed"] ELSE UNCHANGED peer
    BY <1>1, Closes
  <1>4. Moves(s, "confirm", next)
    BY <1>1, <1>2, <1>3 DEF Moves, ClientExpects
  <1> QED BY <1>4 DEF next

LEMMA CommandMoves ==
  ASSUME TInv, NEW s \in Sessions
  PROVE  /\ Result(s) => Moves(s, "result", IF cmd[s] # "change" /\ Value(s, NO_ERROR) = NO_ERROR
                                            THEN "text" ELSE "prompt")
         /\ UploadDone(s) => Moves(s, "done", "prompt")
         /\ RepasswdSalt(s) /\ Received(s) = Err => Moves(s, "rpsalt", "menu")
         /\ RepasswdRet(s) => Moves(s, "rpret", "menu")
         /\ DownloadContent(s) /\ Received(s) = Eof => Moves(s, "content", "closed")
  <1> USE DEF ClientExpects, ClientPlaces, Moves
  <1>1. Result(s) => Moves(s, "result", IF cmd[s] # "change" /\ Value(s, NO_ERROR) = NO_ERROR
                                        THEN "text" ELSE "prompt")
    BY DEF Result
  <1>2. UploadDone(s) => Moves(s, "done", "prompt")
    BY DEF UploadDone
  <1>3. RepasswdSalt(s) /\ Received(s) = Err => Moves(s, "rpsalt", "menu")
    BY DEF RepasswdSalt
  <1>4. RepasswdRet(s) => Moves(s, "rpret", "menu")
    BY DEF RepasswdRet
  <1>5. DownloadContent(s) /\ Received(s) = Eof => Moves(s, "content", "closed")
    BY DEF DownloadContent
  <1> QED BY <1>1, <1>2, <1>3, <1>4, <1>5

\* The size decides whether the client asks for more, or sends its integer.
LEMMA SizeMoves ==
  ASSUME TInv, NEW s \in Sessions
  PROVE  /\ DownloadSize(s) =>
              IF Value(s, 0) # NO_SUCH_FILE /\ Value(s, 0) <= 0
              THEN Sends(s, "size", Done, "prompt")
              ELSE Moves(s, "size", IF Value(s, 0) > 0 THEN "content" ELSE "prompt")
         /\ DownloadContent(s) /\ Received(s) # Eof => Sends(s, "content", Done, "prompt")
         /\ UploadOffset(s) =>
              LET missing == IF Received(s) = Err THEN 0 ELSE Value(s, 1)
              IN IF missing = 1 THEN Sends(s, "offset", Data, "done")
                 ELSE Moves(s, "offset", IF missing = 0 THEN "done" ELSE "prompt")
  <1> USE DEF ClientExpects, ClientPlaces
  <1>1. Done \in UpMsg /\ Data \in UpMsg
    BY DEF UpMsg
  <1>2. DownloadSize(s) =>
          IF Value(s, 0) # NO_SUCH_FILE /\ Value(s, 0) <= 0
          THEN Sends(s, "size", Done, "prompt")
          ELSE Moves(s, "size", IF Value(s, 0) > 0 THEN "content" ELSE "prompt")
    BY <1>1 DEF DownloadSize, Moves, Sends, Done
  <1>3. DownloadContent(s) /\ Received(s) # Eof => Sends(s, "content", Done, "prompt")
    BY <1>1 DEF DownloadContent, Sends, Done
  <1>4. UploadOffset(s) =>
          LET missing == IF Received(s) = Err THEN 0 ELSE Value(s, 1)
          IN IF missing = 1 THEN Sends(s, "offset", Data, "done")
             ELSE Moves(s, "offset", IF missing = 0 THEN "done" ELSE "prompt")
    BY <1>1 DEF UploadOffset, Moves, Sends, Data
  <1> QED BY <1>2, <1>3, <1>4

\* The cipher is made from the salt that came; at the end of the stream nothing is sent.
LEMMA CipherSends ==
  ASSUME TInv, NEW s \in Sessions, Received(s) # Err
  PROVE  /\ RecvSalt(s) =>
              \E msg : (down[s] # <<>> => msg \in Ciphers) /\ Sends(s, "salt", msg, "login")
         /\ RepasswdSalt(s) =>
              \E msg : (down[s] # <<>> => msg \in Ciphers) /\ Sends(s, "rpsalt", msg, "rpret")
  <1> USE DEF ClientExpects, ClientPlaces
  <1>1. ASSUME NEW pc \in {"salt", "rpsalt"}, ClientRecv(s, pc), NEW p \in Password
        PROVE  LET msg == Msg("cipher", <<p, Value(s, 0)>>)
               IN IF down[s] # <<>> THEN msg \in Ciphers /\ msg \in UpMsg ELSE Over(s)
    <2>1. CASE down[s] # <<>>
      <3>1. Received(s) \in DownMsg /\ Received(s).type \in {"salt", "eof", "error"}
        BY <1>1, <2>1, ClientTakes DEF TInv
      <3>2. Received(s).v \in Salt /\ Received(s) # Eof
        BY <3>1, DownKinds
      <3>3. Value(s, 0) \in Salt
        BY <3>2 DEF Value
      <3> QED BY <2>1, <3>3 DEF Ciphers, UpMsg
    <2>2. CASE down[s] = <<>>
      BY <1>1, <2>2, ClientTakes DEF TInv
    <2> QED BY <2>1, <2>2
  <1>2. ASSUME RecvSalt(s)
        PROVE  \E msg : (down[s] # <<>> => msg \in Ciphers) /\ Sends(s, "salt", msg, "login")
    <2>1. PICK p \in Password : SendOrDie(s, Msg("cipher", <<p, Value(s, 0)>>), "login")
      BY <1>2 DEF RecvSalt
    <2> QED BY <1>1, <1>2, <2>1 DEF RecvSalt, Sends
  <1>3. ASSUME RepasswdSalt(s)
        PROVE  \E msg : (down[s] # <<>> => msg \in Ciphers) /\ Sends(s, "rpsalt", msg, "rpret")
    <2>1. PICK p \in Password : SendOrDie(s, Msg("cipher", <<p, Value(s, 0)>>), "rpret")
      BY <1>3 DEF RepasswdSalt
    <2> QED BY <1>1, <1>3, <2>1 DEF RepasswdSalt, Sends
  <1> QED BY <1>2, <1>3

LEMMA ClientStepKept ==
  ASSUME TInv, NEW s \in Sessions, ClientStep(s)
  PROVE  Kept(s)
  BY MovesKept, SendsKept, LoginMoves, ConfirmMoves, CommandMoves, SizeMoves, CipherSends DEF ClientStep

\* What the user does: an account, a command, a download that has no local file.
LEMMA UserKept ==
  ASSUME TInv, NEW s \in Sessions,
         \/ UseChoose(s) \/ DownloadOpenFails(s)
         \/ \E kind \in Command : Prompt(s, kind)
  PROVE  Kept(s)
  <1>1. Types /\ Entry(s)
    BY DEF TInv
  <1>2. PICK msg \in UpMsg, c \in {"flag", "confirm", "prompt"} :
          /\ SendOrDie(s, msg, c) /\ cpc[s] \in {"menu", "prompt"}
          /\ UNCHANGED <<spc, acc, salt, uid, down, users, lost>>
          /\ cmd' \in [Sessions -> Command \union {""}] /\ odd' \in [Sessions -> BOOLEAN]
          /\ \A t \in Sessions \ {s} : cmd'[t] = cmd[t] /\ odd'[t] = odd[t]
    <2>1. CASE UseChoose(s)
      <3>1. PICK opt \in {"login", "signin"}, name \in Name :
              SendOrDie(s, Msg("account", [opt |-> opt, name |-> name]), "flag")
        BY <2>1 DEF UseChoose
      <3>2. Msg("account", [opt |-> opt, name |-> name]) \in UpMsg
        BY DEF UpMsg, Accounts, Credentials
      <3> QED BY <1>1, <2>1, <3>1, <3>2 DEF UseChoose, server, Types
    <2>2. CASE DownloadOpenFails(s)
      <3>1. Msg("int", -1) \in UpMsg
        BY DEF UpMsg
      <3> QED BY <1>1, <2>2, <3>1 DEF DownloadOpenFails, server, Types
    <2>3. CASE \E kind \in Command : Prompt(s, kind)
      <3>1. PICK kind \in Command : Prompt(s, kind)
        BY <2>3
      <3>2. Msg("command", kind) \in UpMsg
        BY DEF UpMsg, Commands
      <3> QED BY <1>1, <3>1, <3>2 DEF Prompt, server, Types
    <2> QED BY <2>1, <2>2, <2>3
  <1>3. c \in ClientPlaces /\ c # "closed" /\ cpc[s] # "closed" /\ peer[s] = "open"
    BY <1>1, <1>2 DEF ClientPlaces, ClientExpects, Entry
  <1>4. /\ up' \in [Sessions -> Seq(UpMsg)] /\ cpc' \in [Sessions -> ClientPlaces]
        /\ peer' \in [Sessions -> {"open", "closed", "reset"}]
        /\ \A t \in Sessions \ {s} : up'[t] = up[t] /\ cpc'[t] = cpc[t] /\ peer'[t] = peer[t]
        /\ peer'[s] = "open" <=> cpc'[s] # "closed"
    BY <1>1, <1>2, <1>3, Sent
  <1>5. Acted(s)
    BY <1>1, <1>2, <1>3, <1>4 DEF Acted, Types
  <1> QED BY <1>5, ActedKept

LEMMA ClientKilledKept ==
  ASSUME TInv, NEW s \in Sessions, ClientKilled(s)
  PROVE  Kept(s)
  <1>1. <<>> \in Seq(DownMsg)
    BY EmptySeq
  <1>2. Acted(s)
    BY <1>1 DEF TInv, Types, ClientKilled, ClientGoto, Acted, server, ClientPlaces
  <1> QED BY <1>2, ActedKept

LEMMA LosePlaceKept ==
  ASSUME TInv, NEW s \in Sessions, LosePlace(s)
  PROVE  Kept(s)
  <1>1. Types' /\ Only(s)
    BY DEF TInv, Types, LosePlace, server, client, Only
  <1>2. Entry(s)'
    BY DEF TInv, Entry, LosePlace, server, client
  <1> QED BY <1>1, <1>2 DEF Kept

LEMMA ServerExitKeeps ==
  ASSUME TInv, ServerExit
  PROVE  TInv'
  <1>1. Types /\ UNCHANGED <<acc, salt, uid, cpc, cmd, up, peer, users, lost, odd>>
        /\ spc' = [s \in Sessions |-> "dead"]
    BY DEF TInv, ServerExit, client
  <1>2. \A s \in Sessions : Append(down[s], Err) \in Seq(DownMsg)
    BY <1>1, Answers, AppendProperties DEF Types
  <1>3. down' \in [Sessions -> Seq(DownMsg)]
    BY <1>1, <1>2 DEF Types, ServerExit
  <1>4. Types'
    BY <1>1, <1>3 DEF Types, ServerPlaces
  <1>5. ASSUME NEW s \in Sessions PROVE Entry(s)'
    BY <1>1, <1>5 DEF TInv, Entry
  <1> QED BY <1>4, <1>5 DEF TInv

-----------------------------------------------------------------------------
LEMMA TInvInit ==
  ASSUME Init
  PROVE  TInv
  <1>1. <<>> \in Seq(UpMsg) /\ <<>> \in Seq(DownMsg) /\ <<>> \in Seq(UserRow) /\ Len(<<>>) = 0
    BY EmptySeq
  <1>2. Types
    <2>1. users \in Seq(UserRow) /\ uid \in [Sessions -> 0..Len(users)]
      <3>1. users = <<>> /\ uid = [s \in Sessions |-> 0]
        BY DEF Init
      <3>2. Len(users) = 0 /\ 0 \in 0..0
        BY <1>1, <3>1
      <3>3. uid \in [Sessions -> 0..0]
        BY <3>1, <3>2
      <3> QED BY <1>1, <3>1, <3>2, <3>3
    <2>2. /\ spc \in [Sessions -> ServerPlaces] /\ cpc \in [Sessions -> ClientPlaces]
          /\ salt \in [Sessions -> Salt \union {0}] /\ cmd \in [Sessions -> Command \union {""}]
          /\ peer \in [Sessions -> {"open", "closed", "reset"}]
      BY DEF Init, ServerPlaces, ClientPlaces
    <2>3. acc \in [Sessions -> [opt : {"", "login", "signin"}, name : Name \union {""}]]
      BY DEF Init
    <2>4. /\ up \in [Sessions -> Seq(UpMsg)] /\ down \in [Sessions -> Seq(DownMsg)]
          /\ lost \in [Sessions -> BOOLEAN] /\ odd \in [Sessions -> BOOLEAN]
      BY <1>1 DEF Init
    <2> QED BY <2>1, <2>2, <2>3, <2>4 DEF Types
  <1>3. \A s \in Sessions : Entry(s)
    BY DEF Init, Entry
  <1> QED BY <1>2, <1>3 DEF TInv

LEMMA SessionStep ==
  ASSUME TInv, Next, ~ServerExit
  PROVE  \E s \in Sessions : Kept(s)
  BY BeginKept, ThreadStepKept, ClientStepKept, UserKept, ClientKilledKept, LosePlaceKept DEF Next

LEMMA TInvNext ==
  ASSUME TInv, [Next]_vars
  PROVE  TInv'
  <1>1. CASE Next
    BY <1>1, SessionStep, KeptIsEnough, ServerExitKeeps
  <1>2. CASE UNCHANGED vars
    <2>1. Types'
      BY <1>2 DEF TInv, Types, vars
    <2>2. ASSUME NEW s \in Sessions PROVE Entry(s)'
      BY <1>2 DEF TInv, Entry, vars
    <2> QED BY <2>1, <2>2 DEF TInv
  <1> QED BY <1>1, <1>2

LEMMA TInvariant == Spec => []TInv
  BY TInvInit, TInvNext, PTL DEF Spec

LEMMA TypesImplyTypeOK ==
  ASSUME Types
  PROVE  TypeOK
  <1>1. users \in Seq(UserRow) /\ DOMAIN users = 1..Len(users)
    BY LenProperties DEF Types
  <1>2. \A i \in DOMAIN users : users[i] \in UserRow
    BY <1>1, ElementOfSeq
  <1> QED BY <1>2 DEF Types, TypeOK, UserRow, ServerPlaces, ClientPlaces

(* Every variable keeps its type (TypeOK): in particular user_id is the id *)
(* of a row, and every row has the name and the salt that a client and the *)
(* server agreed on, also when recv fails in the middle of a sign-up.      *)
THEOREM TypeCorrect == Spec => []TypeOK
  <1>1. TInv => TypeOK
    BY TypesImplyTypeOK DEF TInv
  <1> QED BY <1>1, TInvariant, PTL

LEMMA EntersStep ==
  ASSUME TInv, [Next]_vars, NEW s \in Sessions, uid'[s] # uid[s]
  PROVE  users'[uid'[s]].name = acc[s].name /\ users'[uid'[s]].hash = Hash(s)
  <1>1. PICK t \in Sessions : SignIn(t) \/ Login(t)
    <2>1. SUFFICES ASSUME \A t \in Sessions : ~(SignIn(t) \/ Login(t)) PROVE uid' = uid
      OBVIOUS
    <2>2. CASE UNCHANGED vars \/ ServerExit \/ \E t \in Sessions : Begin(t) \/ ConnectFails(t) \/ LosePlace(t)
      BY <2>2 DEF vars, ServerExit, Begin, ConnectFails, LosePlace, server
    <2>3. ASSUME NEW t \in Sessions, ThreadStep(t) PROVE uid' = uid
      BY <2>1, <2>3 DEF ThreadStep, ServerEof, LoginOrSignin, CmdAnalyse, Download, DownloadAck, Upload,
                        UploadReceive, Exit, RePassWd, RePassWdUpdate, server
    <2>4. ASSUME NEW t \in Sessions, ClientStep(t) PROVE uid' = uid
      BY <2>4 DEF ClientStep, RecvFlag, RecvSalt, Welcome, RecvPwd, RecvText, TakeText, Confirm, Result,
                  DownloadSize, DownloadContent, UploadOffset, UploadDone, RepasswdSalt, RepasswdRet, server
    <2>5. ASSUME NEW t \in Sessions,
                 \/ UseChoose(t) \/ DownloadOpenFails(t) \/ ClientKilled(t)
                 \/ \E kind \in Command : Prompt(t, kind)
          PROVE  uid' = uid
      BY <2>5 DEF UseChoose, DownloadOpenFails, ClientKilled, Prompt, server
    <2> QED BY <2>2, <2>3, <2>4, <2>5 DEF Next
  <1>2. t = s /\ uid \in [Sessions -> 0..Len(users)]
    BY <1>1 DEF SignIn, Login, Enter, TInv, Types
  <1>3. CASE SignIn(s)
    <2>1. uid'[s] = First(Matches(users', acc[s].name, Hash(s)))
      BY <1>2, <1>3 DEF SignIn, Enter
    <2> QED BY <1>3, <2>1, SignInFinds
  <1>4. CASE Login(s)
    <2> DEFINE rows == Matches(users, acc[s].name, Hash(s))
    <2>1. rows # {} /\ uid'[s] = First(rows) /\ users' = users
      BY <1>2, <1>4 DEF Login, Enter
    <2> QED BY <2>1, LoginFinds
  <1> QED BY <1>1, <1>2, <1>3, <1>4

(* Any number of sessions that sign up, log in and change passwords: a     *)
(* user is let in (user_id changes) only with the password that the row    *)
(* has at that moment, never with a cipher made from another salt          *)
(* (EntersWithOwnHash).                                                    *)
THEOREM EntersAsOneself == Spec => EntersWithOwnHash
  <1>1. TInv /\ [Next]_vars =>
          [\A s \in Sessions : uid'[s] # uid[s] =>
             LET row == users'[uid'[s]]
             IN row.name = acc[s].name /\ row.hash = Hash(s)]_vars
    BY EntersStep
  <1> QED BY <1>1, TInvariant, PTL DEF Spec, EntersWithOwnHash
=============================================================================
