---------------------------- MODULE SessionLinks ----------------------------
(***************************************************************************)
(* Sessions, and the TCP connections between the servers that handle them. *)
(*                                                                         *)
(* A session is one run of a player through the servers: login server,     *)
(* world server, channel (game) server.  The login server numbers it when  *)
(* the player selects a world (m_dwLSID, the milliseconds since it         *)
(* started, never twice the same), and here the LSID also stands for the   *)
(* sockets the client opens at the world (m_dwWSID) and at the game server *)
(* (m_dwGSID).                                                             *)
(*                                                                         *)
(* The world server connects to the login server, the game server to its   *)
(* world.  Each direction is a FIFO queue.  The connection world-login may *)
(* break: what the world had sent is delivered up to some point, what its  *)
(* send thread had not picked up yet (CClientSOCKET::m_WaitPacketQ, which  *)
(* OnConnect does not clear) goes out first on the next connection, and    *)
(* what lies between is lost.  A connection is named <<world, epoch>>, so  *)
(* that the login server can close an old one after accepting a new one.   *)
(***************************************************************************)
EXTENDS Naturals, Sequences

CONSTANTS
    Account,    \* the accounts
    World,      \* the world servers, each with one channel server
    MaxLogin,   \* bound: sessions started
    MaxLoss     \* bound: losses of each world-login connection

ASSUME BoundsAssumption == MaxLogin \in Nat /\ MaxLoss \in Nat

Session == 1 .. MaxLogin
Conn == World \X (0 .. MaxLoss)
NoConn == <<>>

VARIABLES
    login,      \* login[s]: account and world of session s
    epoch,      \* epoch[w]: number of the world's current connection to the login server
    linkUp,     \* linkUp[w]: that connection is up
    carry,      \* carry[w]: packets the world kept for the next connection
    toLs,       \* toLs[c]: packets of connection c on their way to the login server
    toWs,       \* toWs[c]: packets of connection c on their way to the world
    gsToWs,     \* gsToWs[w]: packets from the channel server of w
    wsToGs      \* wsToGs[w]: packets to the channel server of w

linkVars == <<login, epoch, linkUp, carry, toLs, toWs, gsToWs, wsToGs>>

LinksInit ==
    /\ login = <<>>
    /\ epoch = [w \in World |-> 0]
    /\ linkUp = [w \in World |-> TRUE]
    /\ carry = [w \in World |-> <<>>]
    /\ toLs = [c \in Conn |-> <<>>]
    /\ toWs = [c \in Conn |-> <<>>]
    /\ gsToWs = [w \in World |-> <<>>]
    /\ wsToGs = [w \in World |-> <<>>]

-----------------------------------------------------------------------------
(***************************************************************************)
(* Packets.                                                                *)
(***************************************************************************)
ConfirmReq(s)      == [type |-> "confirm", lsid |-> s]
ConfirmReply(r, s) == [type |-> "reply", result |-> r, lsid |-> s]
SubAccount(a)      == [type |-> "sub", account |-> a]
KickAccount(a)     == [type |-> "kick", account |-> a]
ChangeChar(a)      == [type |-> "change", account |-> a]
AccountList(ss)    == [type |-> "list", lsids |-> ss]

Receives(queue, type) == queue # <<>> /\ Head(queue).type = type

AccountOf(s) == login[s].account
WorldOf(s) == login[s].world
Started == DOMAIN login

Current(w) == <<w, epoch[w]>>
Live(c) == linkUp[c[1]] /\ c = Current(c[1])

\* Packet_Register2SendQ drops what it is given while there is no connection.
SendToLs(w, queues, packet) ==
    IF linkUp[w] THEN [queues EXCEPT ![Current(w)] = Append(@, packet)] ELSE queues

\* A packet for a connection that is gone is lost.
SendToWs(c, queues, packet) ==
    IF c # NoConn /\ Live(c) THEN [queues EXCEPT ![c] = Append(@, packet)] ELSE queues
=============================================================================
