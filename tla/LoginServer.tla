---------------------------- MODULE LoginServer -----------------------------
(***************************************************************************)
(* The login server's part of a session: the list of players between login *)
(* and world server (g_pListWAIT), the list of players some world has      *)
(* confirmed (g_pListJOIN), and the connections of the worlds (CLS_Server) *)
(* with the list of accounts each of them owns (m_AccountLIST).            *)
(*                                                                         *)
(* Packets of one connection are handled one after the other, those of two *)
(* connections by two I/O threads at the same time.                        *)
(***************************************************************************)
EXTENDS SessionLinks

CONSTANT MaxRetry   \* bound: logins refused because the account is in use

VARIABLES
    logged,     \* logged[a]: clients of account a in CLIENT_STEP_LOGEDIN
    wait,       \* g_pListWAIT: LSIDs waiting for a world to confirm them
    join,       \* g_pListJOIN, newest first
    checked,    \* checked[c]: LSID found not to be joined, not inserted yet, or 0
    enlisting,  \* enlisting[c]: LSIDs of an account list still to be handled
    logoutQ,    \* entries handed to the SQL thread to be deleted, by LSID
    lsConn,     \* lsConn[c]: the CLS_Server of connection c
    retries     \* logins refused so far

lsVars == <<logged, wait, join, checked, enlisting, logoutQ, lsConn, retries>>

LoginInit ==
    /\ logged = [a \in Account |-> 0]
    /\ wait = {}
    /\ join = <<>>
    /\ checked = [c \in Conn |-> 0]
    /\ enlisting = [c \in Conn |-> <<>>]
    /\ logoutQ = <<>>
    /\ lsConn = [c \in Conn |-> IF c[2] = 0 THEN "up" ELSE "none"]
    /\ retries = 0

(***************************************************************************)
(* An entry of the JOIN list.  srv is m_pWorldServer, list the connection  *)
(* whose m_AccountLIST the entry is in; Free() of a connection empties the *)
(* list and leaves srv as it is.                                           *)
(***************************************************************************)
Entry(s, c) == [lsid |-> s, srv |-> c, list |-> c, tried |-> FALSE]

\* The places of the account's entries, of which Search_ACCOUNT(name) meets that of
\* the newest one first.
OfAccount(a, entries) == {i \in DOMAIN entries : AccountOf(entries[i].lsid) = a}
Found(a, entries) == OfAccount(a, entries) # {}

Search(a, entries) ==
    entries[CHOOSE i \in OfAccount(a, entries) : \A j \in OfAccount(a, entries) : i <= j]

\* The entries at some places, in their order; a SelectSeq that TLAPS can unfold.
Picked(entries, places) ==
    LET picked[i \in 0 .. Len(entries)] ==
            IF i = 0 THEN <<>>
            ELSE IF i \in places THEN Append(picked[i - 1], entries[i])
            ELSE picked[i - 1]
    IN  picked[Len(entries)]

JoinedLsids == {join[i].lsid : i \in DOMAIN join}

Change(entry, changed) ==
    [i \in DOMAIN join |-> IF join[i] = entry THEN changed ELSE join[i]]

UpConns == {c \in Conn : lsConn[c] = "up"}

\* The I/O thread of a connection is not in the middle of a packet.
Idle(c) == lsConn[c] = "up" /\ checked[c] = 0 /\ enlisting[c] = <<>>

\* Where a packet sent through m_pWorldServer goes: a closed CLS_Server is back in
\* its pool, and the packet is lost or goes to the connection that uses it now.
Targets(c) == IF lsConn[c] = "up" THEN {c} ELSE {NoConn} \cup UpConns

-----------------------------------------------------------------------------
(***************************************************************************)
(* Clients: handle_login_req and Recv_cli_SELECT_SERVER.                   *)
(***************************************************************************)
LoginAccepted(a) ==
    /\ Len(login) + logged[a] < MaxLogin
    /\ ~Found(a, join)
    /\ logged' = [logged EXCEPT ![a] = @ + 1]
    /\ UNCHANGED <<wait, join, checked, enlisting, logoutQ, lsConn, retries, linkVars>>

\* The account is in use: the first refusal kicks its session, and so does one
\* that comes two minutes after the last kick.
LoginRefused(a) ==
    /\ retries < MaxRetry
    /\ Found(a, join)
    /\ retries' = retries + 1
    /\ LET e == Search(a, join) IN
          \E kicks \in IF e.tried THEN BOOLEAN ELSE {TRUE} :
             IF kicks
                THEN /\ join' = Change(e, [e EXCEPT !.tried = TRUE])
                     /\ \E c \in IF e.srv = NoConn THEN {NoConn} ELSE Targets(e.srv) :
                           toWs' = SendToWs(c, toWs, KickAccount(a))
                ELSE UNCHANGED <<join, toWs>>
    /\ UNCHANGED <<logged, wait, checked, enlisting, logoutQ, lsConn,
                   login, epoch, linkUp, carry, toLs, gsToWs, wsToGs>>

SelectServer(a, w) ==
    /\ Len(login) < MaxLogin
    /\ logged[a] > 0
    /\ \E c \in UpConns : c[1] = w
    /\ logged' = [logged EXCEPT ![a] = @ - 1]
    /\ login' = Append(login, [account |-> a, world |-> w])
    /\ wait' = wait \cup {Len(login) + 1}
    /\ UNCHANGED <<join, checked, enlisting, logoutQ, lsConn, retries,
                   epoch, linkUp, carry, toLs, toWs, gsToWs, wsToGs>>

\* Delete_IdleACCOUNT: the client did not reach a world server in 90 seconds.
WaitTimeout(s) ==
    /\ s \in wait
    /\ wait' = wait \ {s}
    /\ UNCHANGED <<logged, join, checked, enlisting, logoutQ, lsConn, retries, linkVars>>

-----------------------------------------------------------------------------
(***************************************************************************)
(* Worlds: Recv_zws_CONFIRM_ACCOUNT_REQ searches the JOIN list and inserts *)
(* into it under two separate locks, and so in two steps.                  *)
(***************************************************************************)

\* Mutant of Joined: the JOIN list is not searched.
JoinedUnchecked(a) == FALSE

Joined(a) == Found(a, join)

ConfirmCheck(c) ==
    /\ Idle(c)
    /\ Receives(toLs[c], "confirm")
    /\ toLs' = [toLs EXCEPT ![c] = Tail(@)]
    /\ LET s == Head(toLs[c]).lsid IN
          /\ wait' = wait \ {s}
          /\ CASE s \notin wait ->
                    /\ toWs' = SendToWs(c, toWs, ConfirmReply("timeout", s))
                    /\ UNCHANGED checked
               [] s \in wait /\ Joined(AccountOf(s)) ->
                    /\ toWs' = SendToWs(c, toWs, ConfirmReply("already", s))
                    /\ UNCHANGED checked
               [] OTHER ->
                    /\ checked' = [checked EXCEPT ![c] = s]
                    /\ UNCHANGED toWs
    /\ UNCHANGED <<logged, join, enlisting, logoutQ, lsConn, retries,
                   login, epoch, linkUp, carry, gsToWs, wsToGs>>

ConfirmInsert(c) ==
    /\ checked[c] # 0
    /\ join' = <<Entry(checked[c], c)>> \o join
    /\ checked' = [checked EXCEPT ![c] = 0]
    /\ toWs' = SendToWs(c, toWs, ConfirmReply("ok", checked[c]))
    /\ UNCHANGED <<logged, wait, enlisting, logoutQ, lsConn, retries,
                   login, epoch, linkUp, carry, toLs, gsToWs, wsToGs>>

\* Mutant of Disowned: m_pWorldServer is not cleared.
DisownedKeepsServer(e) == [e EXCEPT !.list = NoConn]

\* The entry as it waits for the SQL thread to delete it.
Disowned(e) == [e EXCEPT !.srv = NoConn, !.list = NoConn]

\* Recv_zws_SUB_ACCOUNT: the account is all it is told of the session.
RecvSubAccount(c) ==
    /\ Idle(c)
    /\ Receives(toLs[c], "sub")
    /\ toLs' = [toLs EXCEPT ![c] = Tail(@)]
    /\ LET a == Head(toLs[c]).account IN
          IF Found(a, join) /\ Search(a, join).srv # NoConn
             THEN LET e == Search(a, join) IN
                     /\ join' = Change(e, Disowned(e))
                     /\ logoutQ' = Append(logoutQ, e.lsid)
             ELSE UNCHANGED <<join, logoutQ>>
    /\ UNCHANGED <<logged, wait, checked, enlisting, lsConn, retries,
                   login, epoch, linkUp, carry, toWs, gsToWs, wsToGs>>

(***************************************************************************)
(* Recv_wls_ACCOUNT_LIST, the sessions of a world that has (re)connected,  *)
(* one after the other: one that is newer than the account's entry is      *)
(* inserted and the older one kicked, one that is older is kicked, and the *)
(* same one is left alone.                                                 *)
(***************************************************************************)
RecvAccountList(c) ==
    /\ Idle(c)
    /\ Receives(toLs[c], "list")
    /\ enlisting' = [enlisting EXCEPT ![c] = Head(toLs[c]).lsids]
    /\ toLs' = [toLs EXCEPT ![c] = Tail(@)]
    /\ UNCHANGED <<logged, wait, join, checked, logoutQ, lsConn, retries,
                   login, epoch, linkUp, carry, toWs, gsToWs, wsToGs>>

Enlist(c) ==
    /\ enlisting[c] # <<>>
    /\ enlisting' = [enlisting EXCEPT ![c] = Tail(@)]
    /\ LET s == Head(enlisting[c])
           a == AccountOf(s)
           e == Search(a, join)
           newer == e.lsid < s /\ e.srv # NoConn
       IN  \/ /\ ~Found(a, join)
              /\ join' = <<Entry(s, c)>> \o join
              /\ UNCHANGED toWs
           \/ /\ Found(a, join) /\ newer
              /\ join' = <<Entry(s, c)>> \o join
              /\ \E d \in Targets(e.srv) : toWs' = SendToWs(d, toWs, KickAccount(a))
           \/ /\ Found(a, join) /\ ~newer
              /\ toWs' = IF e.lsid = s THEN toWs ELSE SendToWs(c, toWs, KickAccount(a))
              /\ UNCHANGED join
    /\ UNCHANGED <<logged, wait, checked, logoutQ, lsConn, retries,
                   login, epoch, linkUp, carry, toLs, gsToWs, wsToGs>>

-----------------------------------------------------------------------------
\* Mutant of Unlisted: the accounts of a closed connection are not logged out.
UnlistedForgets(c) == <<>>

\* The accounts of a connection, in the order Free() hands them over.
Unlisted(c) ==
    LET mine == Picked(join, {i \in DOMAIN join : join[i].list = c})
    IN  [i \in DOMAIN mine |-> mine[Len(mine) + 1 - i].lsid]

\* The login server notices that a connection is lost and frees its CLS_Server.
ServerClosed(c) ==
    /\ Idle(c)
    /\ ~Live(c)
    /\ lsConn' = [lsConn EXCEPT ![c] = "closed"]
    /\ toLs' = [toLs EXCEPT ![c] = <<>>]
    /\ logoutQ' = logoutQ \o Unlisted(c)
    /\ join' = [i \in DOMAIN join |->
                   IF join[i].list = c THEN [join[i] EXCEPT !.list = NoConn] ELSE join[i]]
    /\ UNCHANGED <<logged, wait, checked, enlisting, retries,
                   login, epoch, linkUp, carry, toWs, gsToWs, wsToGs>>

\* The SQL thread deletes an account it was handed; an entry that is handed over
\* twice is taken here to be deleted once.
DeleteAccount ==
    /\ logoutQ # <<>>
    /\ logoutQ' = Tail(logoutQ)
    /\ join' = Picked(join, {i \in DOMAIN join : join[i].lsid # Head(logoutQ)})
    /\ UNCHANGED <<logged, wait, checked, enlisting, lsConn, retries, linkVars>>
=============================================================================
