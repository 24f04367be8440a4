--------------------------- MODULE AccountSession ---------------------------
(***************************************************************************)
(* The life of a session through login server, world servers and channel   *)
(* servers, which share nothing but packets and the database.  Who may     *)
(* play an account is decided in three places that learn of each other's   *)
(* decisions late: the JOIN list of the login server, the account records  *)
(* of the world, and the account table of the channel server.              *)
(***************************************************************************)
EXTENDS LoginServer, WorldServer, ChannelServer

vars == <<linkVars, lsVars, wsVars, gsVars>>

Init == LinksInit /\ LoginInit /\ WorldInit /\ ChannelInit

-----------------------------------------------------------------------------
LoginStep ==
    /\ \/ \E a \in Account : LoginAccepted(a) \/ LoginRefused(a)
       \/ \E a \in Account, w \in World : SelectServer(a, w)
       \/ \E s \in wait : WaitTimeout(s)
       \/ \E c \in Conn : ConfirmCheck(c) \/ ConfirmInsert(c) \/ RecvSubAccount(c)
                             \/ RecvAccountList(c) \/ Enlist(c) \/ ServerClosed(c)
       \/ DeleteAccount
    /\ UNCHANGED <<wsVars, gsVars>>

WorldStep ==
    /\ \/ \E s \in Session : ClientJoins(s) \/ SelectChar(s) \/ ClientLeaves(s)
                                \/ SocketClosed(s)
       \/ \E w \in World : RecvConfirmReply(w) \/ RecvKick(w) \/ RecvGsConfirm(w)
                              \/ RecvGsSubAccount(w) \/ RecvChangeChar(w) \/ LinkLost(w)
    /\ UNCHANGED <<lsVars, gsVars>>

ChannelStep ==
    /\ \/ \E s \in Session : UserLeaves(s) \/ DeleteClosed(s) \/ ChangeCharacter(s)
       \/ \E w \in World : RecvJoinReply(w) \/ RecvGsKick(w) \/ LoadCharacter(w)
                              \/ SaveUser(w)
    /\ UNCHANGED <<lsVars, wsVars>>

\* A client whom the world server has sent to the channel server joins it there.
EnterChannel(s) ==
    /\ FollowsMove(s)
    /\ UserJoins(s)
    /\ UNCHANGED <<lsVars, bits>>

\* The world connects to the login server again; both ends see the connection.
Reconnect(w) ==
    LET c == <<w, epoch[w] + 1>> IN
    /\ ~linkUp[w]
    /\ linkUp' = [linkUp EXCEPT ![w] = TRUE]
    /\ epoch' = [epoch EXCEPT ![w] = @ + 1]
    /\ carry' = [carry EXCEPT ![w] = <<>>]
    /\ \E packets \in AfterReconnect(w) : toLs' = [toLs EXCEPT ![c] = packets]
    /\ lsConn' = [lsConn EXCEPT ![c] = "up"]
    /\ UNCHANGED <<login, toWs, gsToWs, wsToGs, logged, wait, join, checked, enlisting,
                   logoutQ, retries, wsVars, gsVars>>

Next ==
    \/ LoginStep \/ WorldStep \/ ChannelStep
    \/ \E s \in Session : EnterChannel(s)
    \/ \E w \in World : Reconnect(w)

Spec == Init /\ [][Next]_vars

(***************************************************************************)
(* Fairness: the servers handle the packets they have received and the     *)
(* sockets that have closed, their SQL threads handle what they are given, *)
(* and a world goes on trying to reach the login server (a timer).  What   *)
(* clients do, and that links break, is never forced.                      *)
(***************************************************************************)
Serve(c) ==
    /\ ConfirmCheck(c) \/ ConfirmInsert(c) \/ RecvSubAccount(c) \/ RecvAccountList(c)
          \/ Enlist(c) \/ ServerClosed(c)
    /\ UNCHANGED <<wsVars, gsVars>>

ServeWorld(w) ==
    /\ RecvConfirmReply(w) \/ RecvKick(w)
    /\ UNCHANGED <<lsVars, gsVars>>

ServeChannel(w) ==
    /\ RecvGsConfirm(w) \/ RecvGsSubAccount(w) \/ RecvChangeChar(w)
    /\ UNCHANGED <<lsVars, gsVars>>

ServeUsers(w) ==
    /\ RecvJoinReply(w) \/ RecvGsKick(w)
    /\ UNCHANGED <<lsVars, wsVars>>

Fairness ==
    /\ WF_vars(DeleteAccount /\ UNCHANGED <<wsVars, gsVars>>)
    /\ \A c \in Conn : WF_vars(Serve(c))
    /\ \A w \in World :
          /\ WF_vars(ServeWorld(w))
          /\ WF_vars(ServeChannel(w))
          /\ WF_vars(ServeUsers(w))
          /\ WF_vars(LoadCharacter(w) /\ UNCHANGED <<lsVars, wsVars>>)
          /\ WF_vars(SaveUser(w) /\ UNCHANGED <<lsVars, wsVars>>)
          /\ WF_vars(Reconnect(w))
    /\ \A s \in Session :
          /\ WF_vars(SocketClosed(s) /\ UNCHANGED <<lsVars, gsVars>>)
          /\ WF_vars(DeleteClosed(s) /\ UNCHANGED <<lsVars, wsVars>>)

FairSpec == Spec /\ Fairness

-----------------------------------------------------------------------------
(***************************************************************************)
(* Properties                                                              *)
(***************************************************************************)
Packet ==
    [type : {"confirm"}, lsid : Session]
    \cup [type : {"reply"}, result : {"ok", "already", "timeout", "failed"}, lsid : Session]
    \cup [type : {"sub", "kick", "change"}, account : Account]

\* Types of the state of the three servers.
TypeOK ==
    /\ login \in Seq([account : Account, world : World]) /\ Len(login) <= MaxLogin
    /\ epoch \in [World -> 0 .. MaxLoss]
    /\ linkUp \in [World -> BOOLEAN]
    /\ \A w \in World : \A q \in {gsToWs[w], wsToGs[w]} : q \in Seq(Packet)
    /\ \A c \in Conn : toWs[c] \in Seq(Packet)
    /\ logged \in [Account -> 0 .. MaxLogin]
    /\ wait \subseteq Started
    /\ join \in Seq([lsid : Started, srv : Conn \cup {NoConn},
                     list : Conn \cup {NoConn}, tried : BOOLEAN])
    /\ checked \in [Conn -> {0} \cup Started]
    /\ enlisting \in [Conn -> Seq(Started)]
    /\ logoutQ \in Seq(Started)
    /\ lsConn \in [Conn -> {"none", "up", "closed"}]
    /\ sock \in [Session -> {"none", "closing", "closed"} \cup Connected]
    /\ bits \in [Session -> SUBSET {"WS", "GS"}]
    /\ user \in [Session -> {"none", "confirming", "registered", "deleted", "gone"}]
    /\ closing \subseteq {s \in Session : user[s] \in {"confirming", "registered"}}
    /\ held \subseteq Started

SameAccount(s, t) == AccountOf(s) = AccountOf(t)
SamePlace(s, t) == SameAccount(s, t) /\ WorldOf(s) = WorldOf(t)
OwnedBy(s, c) == \E i \in DOMAIN join : join[i].lsid = s /\ join[i].srv = c

\* The JOIN list has one entry per account: the search of
\* Recv_zws_CONFIRM_ACCOUNT_REQ keeps a second session out ("it is an id that is
\* already logged in", cls_server.cpp:346).
OneJoinPerAccount ==
    \A i, j \in DOMAIN join :
        SameAccount(join[i].lsid, join[j].lsid) => i = j

\* A world has one record per account, whatever the login server has let through
\* (cws_client.cpp:789): all packets name records by account alone.
OneRecordPerAccount ==
    \A s, t \in Started :
        bits[s] # {} /\ bits[t] # {} /\ SamePlace(s, t) => s = t

\* A channel server has one registered user per account, although a user leaves its
\* tables and the world's record at different times.
OneUserPerAccount ==
    \A s, t \in Started :
        user[s] = "registered" /\ user[t] = "registered" /\ SamePlace(s, t) => s = t

\* At most one session of an account has a character in memory that is not saved:
\* a second one reads the database before the first is written, and items are
\* copied (the reason cws_client.cpp:789-790 gives for the world's own check).
OneHolder ==
    \A s, t \in held : SameAccount(s, t) => s = t

\* The login server knows every session that a world has a record of.
JoinCoversRecords == \A s \in Started : bits[s] # {} => s \in JoinedLsids

\* No account is handed to the SQL thread for deletion while it is there already:
\* the entry's node would be linked into m_AddUserLIST twice ("crash: it seems to be
\* called several times for the same account", cls_server.cpp:437).
LoggedOutOnce ==
    \A i, j \in DOMAIN logoutQ : logoutQ[i] = logoutQ[j] => i = j

\* An account is released in the end: when the client's socket at the world is
\* closed, its session leaves the JOIN list, or nobody could log in with the
\* account again.
AccountReleased ==
    \A s \in Session : sock[s] = "closed" ~> s \notin JoinedLsids

\* A login refused because the account is in use frees it: the session that is kicked
\* for it leaves the JOIN list, wherever it is and without its client's help.
KickFreesAccount ==
    \A s \in Session :
        (\E i \in DOMAIN join : join[i].lsid = s /\ join[i].tried) ~> s \notin JoinedLsids

\* When the connection of a world is closed, the accounts it owned are logged out
\* (CLS_Server::Free): no entry of the JOIN list stays behind with a server that no
\* packet can come from, whatever sessions come and go meanwhile.
ClosedWorldLoggedOut ==
    \A s \in Session, c \in Conn :
        lsConn[c] = "closed" /\ OwnedBy(s, c) ~> ~OwnedBy(s, c)

\* When the client's socket ends first, "the channel server is notified that the
\* account is deleted" (cws_client.cpp:881-889), and its answer ends the record
\* that is left with the GS bit.
GsRecordEnds ==
    \A s \in Session : bits[s] = {"GS"} ~> bits[s] = {}

\* Nothing is under way between a world and the login server.
Settled ==
    /\ logoutQ = <<>>
    /\ \A w \in World : linkUp[w] /\ carry[w] = <<>>
    /\ \A c \in Conn :
          toLs[c] = <<>> /\ toWs[c] = <<>> /\ checked[c] = 0 /\ enlisting[c] = <<>>
             /\ (Live(c) <=> lsConn[c] = "up")

\* "In case the login server goes down: send the list of the users connected now"
\* (ws_socketlsv.cpp:104-105): after a reconnection the login server knows every
\* session of the world again.
ResyncComplete == Settled => JoinCoversRecords

\* The three servers implement the lease of an account.
Lease == INSTANCE AccountLease WITH
            lease <- [a \in Account |-> {s \in JoinedLsids : AccountOf(s) = a}],
            holding <- held

ImplementsLease == Lease!Spec
=============================================================================
