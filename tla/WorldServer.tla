---------------------------- MODULE WorldServer -----------------------------
(***************************************************************************)
(* The world server's part of a session: the client's socket and the       *)
(* record of the account (CWS_Account), which says whether the session is  *)
(* on the world server, on the channel server, or on both.                 *)
(*                                                                         *)
(* Packets from the servers name an account, never a session: the record   *)
(* they act on is found by name.                                           *)
(***************************************************************************)
EXTENDS SessionLinks, FiniteSets

VARIABLES
    sock,   \* sock[s]: the client's socket and how far it has come
    bits    \* bits[s]: m_btLoginBIT of the session's record, {} if it has none

wsVars == <<sock, bits>>

WorldInit ==
    /\ sock = [s \in Session |-> "none"]
    /\ bits = [s \in Session |-> {}]

\* A socket is "open", then "joined" (JOIN_SERVER accepted, the character list is
\* shown), "moved" (a character is chosen and the client sent to the channel
\* server), "away" (the client has gone there and keeps this socket), "closing"
\* (CloseSocket() or a lost client, not processed yet: it is still found by its
\* index) and "closed".
Connected == {"open", "joined", "moved", "away"}

\* Mutant of Close: only a client that plays is closed.
CloseInGameOnly(s, socks) ==
    IF socks[s] = "away" THEN [socks EXCEPT ![s] = "closing"] ELSE socks

\* CloseSocket().
Close(s, socks) ==
    IF socks[s] \in Connected THEN [socks EXCEPT ![s] = "closing"] ELSE socks

\* The records of an account; m_pCLIENT is set exactly when "WS" is in the bits.
Records(w, a) ==
    {s \in Started : bits[s] # {} /\ WorldOf(s) = w /\ AccountOf(s) = a}

-----------------------------------------------------------------------------
\* Mutant of DeletedBy: the record goes as soon as the client's socket does.
DeletedByWorld(left) == "WS" \notin left

\* Whether Del_ACCOUNT deletes the record and tells the login server.
DeletedBy(left) == left = {}

(***************************************************************************)
(* Del_ACCOUNT(name, bit).  The client loses its character; what remains   *)
(* of the bits decides: with WS left the client is closed, with GS left    *)
(* the channel server is told to kick the account, with nothing left the   *)
(* record is deleted and the login server told.  The login server is also  *)
(* told of a name without record.  queues is wsToGs as the caller left it. *)
(***************************************************************************)
DelAccount(w, a, bit, socks, queues) ==
    IF Records(w, a) = {}
       THEN /\ toLs' = SendToLs(w, toLs, SubAccount(a))
            /\ sock' = socks
            /\ wsToGs' = queues
            /\ UNCHANGED bits
       ELSE \E s \in Records(w, a) :
               LET left == bits[s] \ {bit} IN
               /\ bits' = [bits EXCEPT ![s] = IF DeletedBy(left) THEN {} ELSE left]
               /\ sock' = IF "WS" \in left THEN Close(s, socks) ELSE socks
               /\ wsToGs' = IF left = {"GS"}
                               THEN [queues EXCEPT ![w] = Append(@, KickAccount(a))]
                               ELSE queues
               /\ toLs' = IF DeletedBy(left)
                             THEN SendToLs(w, toLs, SubAccount(a))
                             ELSE toLs

-----------------------------------------------------------------------------
(***************************************************************************)
(* The client's socket.                                                    *)
(***************************************************************************)

\* The client connects and sends CLI_JOIN_SERVER_REQ with its LSID.
ClientJoins(s) ==
    /\ s \in Started
    /\ sock[s] = "none"
    /\ sock' = [sock EXCEPT ![s] = "open"]
    /\ toLs' = SendToLs(WorldOf(s), toLs, ConfirmReq(s))
    /\ UNCHANGED <<bits, login, epoch, linkUp, carry, toWs, gsToWs, wsToGs>>

\* CLI_SELECT_CHAR: Add_CHAR and WSV_MOVE_SERVER.
SelectChar(s) ==
    /\ sock[s] = "joined"
    /\ sock' = [sock EXCEPT ![s] = "moved"]
    /\ UNCHANGED <<bits, linkVars>>

\* The client connects to the channel server it was sent to.
FollowsMove(s) == sock[s] = "moved" /\ sock' = [sock EXCEPT ![s] = "away"]

\* The client leaves, or is silent for so long that Check_SocketALIVE closes it.
ClientLeaves(s) ==
    /\ sock[s] \in Connected
    /\ sock' = Close(s, sock)
    /\ UNCHANGED <<bits, linkVars>>

\* ClosedClientSOCKET: a client with an account gives up its WS bit.
SocketClosed(s) ==
    /\ sock[s] = "closing"
    /\ LET closed == [sock EXCEPT ![s] = "closed"] IN
          IF "WS" \in bits[s]
             THEN DelAccount(WorldOf(s), AccountOf(s), "WS", closed, wsToGs)
             ELSE sock' = closed /\ UNCHANGED <<bits, toLs, wsToGs>>
    /\ UNCHANGED <<login, epoch, linkUp, carry, toWs, gsToWs>>

-----------------------------------------------------------------------------
(***************************************************************************)
(* The login server's packets.                                             *)
(***************************************************************************)

\* Mutant of Duplicates: Check_DupACCOUNT finds nothing.
DuplicatesIgnored(w, a) == {}

\* Check_DupACCOUNT: the records that keep a new session out.
Duplicates(w, a) == Records(w, a)

(***************************************************************************)
(* Add_ACCOUNT.  When the client has gone, an accepted session is taken    *)
(* back; a refusal has no name in it, and the SUB_ACCOUNT it leads to      *)
(* matches no account.  A duplicate closes the older client and takes the  *)
(* new session back.                                                       *)
(***************************************************************************)
RecvConfirmReply(w) ==
    LET c == Current(w) IN
    /\ linkUp[w]
    /\ Receives(toWs[c], "reply")
    /\ toWs' = [toWs EXCEPT ![c] = Tail(@)]
    /\ LET s == Head(toWs[c]).lsid
           a == AccountOf(s)
           takeBack == toLs' = SendToLs(w, toLs, SubAccount(a))
       IN  CASE Head(toWs[c]).result # "ok" ->
                  UNCHANGED <<sock, bits, toLs>>
             [] Head(toWs[c]).result = "ok" /\ sock[s] = "closed" ->
                  takeBack /\ UNCHANGED <<sock, bits>>
             [] Head(toWs[c]).result = "ok" /\ sock[s] # "closed"
                   /\ Duplicates(w, a) # {} ->
                  /\ takeBack
                  /\ \E t \in Records(w, a) :
                        sock' = IF "WS" \in bits[t] THEN Close(t, sock) ELSE sock
                  /\ UNCHANGED bits
             [] OTHER ->
                  /\ bits' = [bits EXCEPT ![s] = {"WS"}]
                  /\ sock' = IF sock[s] = "open" THEN [sock EXCEPT ![s] = "joined"] ELSE sock
                  /\ UNCHANGED toLs
    /\ UNCHANGED <<login, epoch, linkUp, carry, gsToWs, wsToGs>>

\* Recv_wls_KICK_ACCOUNT: close the client; if it has gone, kick the account from
\* the channel server and take its GS bit, without waiting for the channel server.
RecvKick(w) ==
    LET c == Current(w) IN
    /\ linkUp[w]
    /\ Receives(toWs[c], "kick")
    /\ toWs' = [toWs EXCEPT ![c] = Tail(@)]
    /\ LET a == Head(toWs[c]).account IN
          \/ \E s \in Records(w, a) :
                /\ "WS" \in bits[s]
                /\ sock' = Close(s, sock)
                /\ UNCHANGED <<bits, toLs, wsToGs>>
          \/ /\ \A s \in Records(w, a) : "WS" \notin bits[s]
             /\ DelAccount(w, a, "GS", sock,
                           [wsToGs EXCEPT ![w] = Append(@, KickAccount(a))])
    /\ UNCHANGED <<login, epoch, linkUp, carry, gsToWs>>

-----------------------------------------------------------------------------
(***************************************************************************)
(* The channel server's packets.                                           *)
(***************************************************************************)
RecvGsConfirm(w) ==
    /\ Receives(gsToWs[w], "confirm")
    /\ gsToWs' = [gsToWs EXCEPT ![w] = Tail(@)]
    /\ LET s == Head(gsToWs[w]).lsid
           accepted == sock[s] # "closed" /\ "WS" \in bits[s]
       IN  /\ bits' = IF accepted THEN [bits EXCEPT ![s] = @ \cup {"GS"}] ELSE bits
           /\ wsToGs' = [wsToGs EXCEPT ![w] =
                            Append(@, ConfirmReply(IF accepted THEN "ok" ELSE "failed", s))]
    /\ UNCHANGED <<sock, login, epoch, linkUp, carry, toLs, toWs>>

RecvGsSubAccount(w) ==
    /\ Receives(gsToWs[w], "sub")
    /\ gsToWs' = [gsToWs EXCEPT ![w] = Tail(@)]
    /\ DelAccount(w, Head(gsToWs[w]).account, "GS", sock, wsToGs)
    /\ UNCHANGED <<login, epoch, linkUp, carry, toWs>>

\* Recv_gsv_CHANGE_CHAR: back to the character list, if the client is there.
RecvChangeChar(w) ==
    /\ Receives(gsToWs[w], "change")
    /\ gsToWs' = [gsToWs EXCEPT ![w] = Tail(@)]
    /\ LET here == {s \in Records(w, Head(gsToWs[w]).account) : "WS" \in bits[s]} IN
          IF here = {}
             THEN UNCHANGED wsVars
             ELSE \E s \in here :
                     /\ bits' = [bits EXCEPT ![s] = @ \ {"GS"}]
                     /\ sock' = IF sock[s] = "away" THEN [sock EXCEPT ![s] = "joined"] ELSE sock
    /\ UNCHANGED <<login, epoch, linkUp, carry, toLs, toWs, wsToGs>>

-----------------------------------------------------------------------------
(***************************************************************************)
(* The connection to the login server.                                     *)
(***************************************************************************)

\* FD_CLOSE: of the packets under way the first i arrive and those after j have not
\* left m_WaitPacketQ.
LinkLost(w) ==
    LET c == Current(w)
        n == Len(toLs[c])
    IN  /\ linkUp[w]
        /\ epoch[w] < MaxLoss
        /\ linkUp' = [linkUp EXCEPT ![w] = FALSE]
        /\ \E i \in 0 .. n : \E j \in i .. n :
              /\ toLs' = [toLs EXCEPT ![c] = SubSeq(@, 1, i)]
              /\ carry' = [carry EXCEPT ![w] = SubSeq(toLs[c], j + 1, n)]
        /\ toWs' = [toWs EXCEPT ![c] = <<>>]
        /\ UNCHANGED <<wsVars, login, epoch, gsToWs, wsToGs>>

\* Some order of a set: the order of a hash table.
Orders(S) == {q \in [1 .. Cardinality(S) -> S] : \A x \in S : \E i \in DOMAIN q : q[i] = x}

\* FD_CONNECT: what was kept goes out, then Send_wls_ACCOUNT_LIST.
AfterReconnect(w) ==
    LET mine == {s \in Started : bits[s] # {} /\ WorldOf(s) = w} IN
    IF mine = {} THEN {carry[w]}
                 ELSE {Append(carry[w], AccountList(q)) : q \in Orders(mine)}
=============================================================================
