--------------------------- MODULE ChannelServer ----------------------------
(***************************************************************************)
(* The channel (game) server's part of a session: the client's socket, the *)
(* accounts it has registered (CUserLIST::m_pHashACCOUNT), and the work of *)
(* its SQL thread, which loads the character of a registered user and      *)
(* saves that of one who leaves.                                           *)
(*                                                                         *)
(* The SQL thread has one list of packets to load from and one of users to *)
(* save (module SqlThread).  It handles each in order, and which of the    *)
(* two is next depends on when it was woken.                               *)
(***************************************************************************)
EXTENDS SessionLinks

CONSTANTS
    MaxGsJoin,      \* bound: connections to the channel servers
    MaxCharChange   \* bound: returns to the character list

VARIABLES
    user,       \* user[s]: the classUSER of the session
    closing,    \* users whose socket is closed but who are still listed
    loadQ,      \* loadQ[w]: CLI_SELECT_CHAR for the SQL thread
    saveQ,      \* saveQ[w]: users for the SQL thread to save and free
    held,       \* sessions whose character is loaded and not saved since
    gsJoins,    \* connections so far
    changes     \* returns to the character list so far

gsVars == <<user, closing, loadQ, saveQ, held, gsJoins, changes>>

\* A user is "confirming" until the world answers, "registered" while it is in the
\* hash table, "deleted" once DeleteUSER has taken it out, and "gone" when it is
\* freed; one who went back to the character list may connect again.
ChannelInit ==
    /\ user = [s \in Session |-> "none"]
    /\ closing = {}
    /\ loadQ = [w \in World |-> <<>>]
    /\ saveQ = [w \in World |-> <<>>]
    /\ held = {}
    /\ gsJoins = 0
    /\ changes = 0

Registered(w, a) ==
    {s \in Started : user[s] = "registered" /\ WorldOf(s) = w /\ AccountOf(s) = a}

SendToWorld(w, packet) == gsToWs' = [gsToWs EXCEPT ![w] = Append(@, packet)]

-----------------------------------------------------------------------------
\* Recv_cli_JOIN_SERVER_REQ of a client whom the world server has sent here.
UserJoins(s) ==
    /\ user[s] = "none"
    /\ gsJoins < MaxGsJoin
    /\ gsJoins' = gsJoins + 1
    /\ user' = [user EXCEPT ![s] = "confirming"]
    /\ SendToWorld(WorldOf(s), ConfirmReq(s))
    /\ UNCHANGED <<closing, loadQ, saveQ, held, changes,
                   login, epoch, linkUp, carry, toLs, toWs, wsToGs>>

UserLeaves(s) ==
    /\ user[s] \in {"confirming", "registered"}
    /\ s \notin closing
    /\ closing' = closing \cup {s}
    /\ UNCHANGED <<user, loadQ, saveQ, held, gsJoins, changes, linkVars>>

\* Mutant of Namesakes: Find_ACCOUNT finds nobody.
NamesakesIgnored(w, a) == {}

\* The registered users who keep a new one of the same account out.
Namesakes(w, a) == Registered(w, a)

\* Mutant of Rejected: a user the world has confirmed and who has gone is forgotten.
RejectedSilently(w, a) == UNCHANGED gsToWs

\* Recv_wls_CONFIRM_ACCOUNT_REPLY takes a session back that Add_ACCOUNT refused.
Rejected(w, a) == SendToWorld(w, SubAccount(a))

\* Recv_wls_CONFIRM_ACCOUNT_REPLY and Add_ACCOUNT: a namesake is closed together
\* with the newcomer, and a newcomer without one registers and is to be loaded.
RecvJoinReply(w) ==
    /\ Receives(wsToGs[w], "reply")
    /\ wsToGs' = [wsToGs EXCEPT ![w] = Tail(@)]
    /\ LET s == Head(wsToGs[w]).lsid
           a == AccountOf(s)
           gone == user[s] \notin {"confirming", "registered"}
       IN  CASE Head(wsToGs[w]).result # "ok" ->
                  UNCHANGED <<user, closing, loadQ, gsToWs>>
             [] Head(wsToGs[w]).result = "ok" /\ gone ->
                  Rejected(w, a) /\ UNCHANGED <<user, closing, loadQ>>
             [] Head(wsToGs[w]).result = "ok" /\ ~gone /\ Namesakes(w, a) # {} ->
                  /\ \E t \in Namesakes(w, a) : closing' = closing \cup {s, t}
                  /\ Rejected(w, a)
                  /\ UNCHANGED <<user, loadQ>>
             [] OTHER ->
                  /\ user' = [user EXCEPT ![s] = "registered"]
                  /\ loadQ' = [loadQ EXCEPT ![w] = Append(@, s)]
                  /\ UNCHANGED <<closing, gsToWs>>
    /\ UNCHANGED <<saveQ, held, gsJoins, changes, login, epoch, linkUp, carry, toLs, toWs>>

\* Kick_ACCOUNT.
RecvGsKick(w) ==
    /\ Receives(wsToGs[w], "kick")
    /\ wsToGs' = [wsToGs EXCEPT ![w] = Tail(@)]
    /\ LET found == Registered(w, Head(wsToGs[w]).account) IN
          IF found = {}
             THEN UNCHANGED closing
             ELSE \E s \in found : closing' = closing \cup {s}
    /\ UNCHANGED <<user, loadQ, saveQ, held, gsJoins, changes,
                   login, epoch, linkUp, carry, toLs, toWs, gsToWs>>

-----------------------------------------------------------------------------
\* Mutant of DeleteUser: the user stays listed, to be deleted again.
DeleteUserStaysListed(s, mode) ==
    /\ user' = [user EXCEPT ![s] = "deleted"]
    /\ saveQ' = [saveQ EXCEPT ![WorldOf(s)] =
                    Append(@, [lsid |-> s, mode |-> mode, named |-> user[s] = "registered"])]
    /\ UNCHANGED <<closing, loadQ, held, gsJoins, linkVars>>

(***************************************************************************)
(* DeleteUSER: the user leaves the hash tables and goes to the SQL thread. *)
(* The socket's thread calls it outside a zone, the zone's thread inside   *)
(* one, after up to LOGOUT_WAIT_SECOND if the user was in a fight.         *)
(***************************************************************************)
DeleteUser(s, mode) ==
    /\ user' = [user EXCEPT ![s] = "deleted"]
    /\ closing' = closing \ {s}
    /\ saveQ' = [saveQ EXCEPT ![WorldOf(s)] =
                    Append(@, [lsid |-> s, mode |-> mode, named |-> user[s] = "registered"])]
    /\ UNCHANGED <<loadQ, held, gsJoins, linkVars>>

DeleteClosed(s) == s \in closing /\ DeleteUser(s, "left") /\ UNCHANGED changes

\* CLI_CHAR_CHANGE and ProcLogOUT, in a zone.
ChangeCharacter(s) ==
    /\ user[s] = "registered"
    /\ s \in held
    /\ s \notin closing
    /\ changes < MaxCharChange
    /\ changes' = changes + 1
    /\ DeleteUser(s, "charlist")

-----------------------------------------------------------------------------
(***************************************************************************)
(* The SQL thread.                                                         *)
(***************************************************************************)

\* Proc_cli_SELECT_CHAR finds the user by socket, and does nothing if it is closed.
LoadCharacter(w) ==
    /\ loadQ[w] # <<>>
    /\ loadQ' = [loadQ EXCEPT ![w] = Tail(@)]
    /\ held' = IF user[Head(loadQ[w])] = "registered"
                  THEN held \cup {Head(loadQ[w])} ELSE held
    /\ UNCHANGED <<user, closing, saveQ, gsJoins, changes, linkVars>>

\* Execute(): write the character, tell the world, free the user.
SaveUser(w) ==
    /\ saveQ[w] # <<>>
    /\ saveQ' = [saveQ EXCEPT ![w] = Tail(@)]
    /\ LET item == Head(saveQ[w])
           s == item.lsid
           back == item.named /\ item.mode = "charlist"
       IN  /\ held' = held \ {s}
           /\ user' = [user EXCEPT ![s] = IF back THEN "none" ELSE "gone"]
           /\ IF item.named
                 THEN SendToWorld(w, IF back THEN ChangeChar(AccountOf(s))
                                             ELSE SubAccount(AccountOf(s)))
                 ELSE UNCHANGED gsToWs
    /\ UNCHANGED <<closing, loadQ, gsJoins, changes,
                   login, epoch, linkUp, carry, toLs, toWs, wsToGs>>
=============================================================================
