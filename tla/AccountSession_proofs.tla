----------------------- MODULE AccountSession_proofs -----------------------
(***************************************************************************)
(* Theorems about AccountSession, for any number of accounts, worlds,      *)
(* sessions and lost connections: a world never has two records of an      *)
(* account and a channel server never two registered users of it.          *)
(*                                                                         *)
(* Both are checks against the server's own table, and hold whatever the   *)
(* login server lets through; what they rest on is that no packet takes a  *)
(* session to a world that is not its own, over any number of connections. *)
(***************************************************************************)
EXTENDS AccountSession, SequenceTheorems, FiniteSetTheorems, TLAPS

-----------------------------------------------------------------------------
(***************************************************************************)
(* Packets in their queues.                                                *)
(***************************************************************************)

\* The packets that may speak of the sessions in S, and of no other.
Mail(S) ==
    [type : {"confirm"}, lsid : S]
    \cup [type : {"reply"}, result : {"ok", "already", "timeout", "failed"}, lsid : S]
    \cup [type : {"sub", "kick", "change"}, account : Account]
    \cup [type : {"list"}, lsids : Seq(S)]

\* Every queue f[i] carries packets about the sessions in home[i].
Carries(f, home) ==
    /\ f = [i \in DOMAIN home |-> f[i]]
    /\ \A i \in DOMAIN home : f[i] \in Seq(Mail(home[i]))

\* The sessions started for a world, by the logins lg.
At(lg, w) == {s \in DOMAIN lg : lg[s].world = w}
WorldHome(lg) == [w \in World |-> At(lg, w)]
ConnHome(lg) == [c \in Conn |-> At(lg, c[1])]

\* What each kind of packet contributes, and what can be read from it.
LEMMA MailForms ==
    ASSUME NEW S
    PROVE  /\ \A s \in S : ConfirmReq(s) \in Mail(S)
           /\ \A s \in S : \A r \in {"ok", "already", "timeout", "failed"} :
                 ConfirmReply(r, s) \in Mail(S)
           /\ \A a \in Account : /\ SubAccount(a) \in Mail(S)
                                 /\ KickAccount(a) \in Mail(S)
                                 /\ ChangeChar(a) \in Mail(S)
           /\ \A q \in Seq(S) : AccountList(q) \in Mail(S)
  BY DEF Mail, ConfirmReq, ConfirmReply, SubAccount, KickAccount, ChangeChar, AccountList

LEMMA MailReads ==
    ASSUME NEW S, NEW p \in Mail(S)
    PROVE  /\ p.type \in {"confirm", "reply"} => p.lsid \in S
           /\ p.type \in {"sub", "kick", "change"} => p.account \in Account
           /\ p.type = "list" => p.lsids \in Seq(S)
  BY DEF Mail

LEMMA MailGrows ==
    ASSUME NEW S, NEW T, S \subseteq T
    PROVE  Mail(S) \subseteq Mail(T)
<1>1. \A q \in Seq(S) : q \in Seq(T)
  BY SeqMonotonic
<1>2. QED
  BY <1>1 DEF Mail

-----------------------------------------------------------------------------
\* A queue is replaced by another with packets of its own sessions.
LEMMA QueueSet ==
    ASSUME NEW f, NEW home, Carries(f, home), NEW i, NEW q,
           i \in DOMAIN home => q \in Seq(Mail(home[i]))
    PROVE  Carries([f EXCEPT ![i] = q], home)
  BY DEF Carries

\* A packet is appended.
LEMMA QueueSend ==
    ASSUME NEW f, NEW home, Carries(f, home), NEW i, NEW p,
           i \in DOMAIN home => p \in Mail(home[i])
    PROVE  Carries([f EXCEPT ![i] = Append(@, p)], home)
<1>1. i \in DOMAIN home => Append(f[i], p) \in Seq(Mail(home[i]))
  BY AppendProperties DEF Carries
<1>2. QED
  BY <1>1 DEF Carries

\* The first packet is taken.
LEMMA QueueTake ==
    ASSUME NEW f, NEW home, Carries(f, home), NEW i \in DOMAIN home, f[i] # <<>>
    PROVE  /\ Head(f[i]) \in Mail(home[i])
           /\ Carries([f EXCEPT ![i] = Tail(@)], home)
<1>1. f[i] \in Seq(Mail(home[i]))
  BY DEF Carries
<1>2. Head(f[i]) \in Mail(home[i]) /\ Tail(f[i]) \in Seq(Mail(home[i]))
  BY <1>1, HeadTailProperties
<1>3. QED
  BY <1>2 DEF Carries

\* Sessions start elsewhere.
LEMMA QueueGrows ==
    ASSUME NEW f, NEW home, NEW more, Carries(f, home), DOMAIN more = DOMAIN home,
           \A i \in DOMAIN home : home[i] \subseteq more[i]
    PROVE  Carries(f, more)
<1>1. ASSUME NEW i \in DOMAIN home
      PROVE  f[i] \in Seq(Mail(more[i]))
  <2>1. Mail(home[i]) \subseteq Mail(more[i])
    BY MailGrows
  <2>2. f[i] \in Seq(Mail(home[i]))
    BY DEF Carries
  <2>3. QED
    BY <2>1, <2>2, SeqMonotonic
<1>2. QED
  BY <1>1 DEF Carries

-----------------------------------------------------------------------------
(***************************************************************************)
(* The inductive invariant.  A server's own table is searched by account   *)
(* before a session enters it, so what has to be known besides is that the *)
(* session that is confirmed belongs to that server's world: in every      *)
(* packet under way, in what a broken connection kept for the next one,    *)
(* and between the two halves of a confirmation at the login server.       *)
(***************************************************************************)
LinksInv ==
    /\ login \in Seq([account : Account, world : World]) /\ Len(login) <= MaxLogin
    /\ epoch \in [World -> 0 .. MaxLoss]
    /\ linkUp \in [World -> BOOLEAN]
    /\ \A w \in World : linkUp[w] \/ epoch[w] < MaxLoss
    /\ Carries(toLs, ConnHome(login))
    /\ Carries(toWs, ConnHome(login))
    /\ Carries(carry, WorldHome(login))
    /\ Carries(gsToWs, WorldHome(login))
    /\ Carries(wsToGs, WorldHome(login))

LoginInv ==
    /\ checked = [c \in Conn |-> checked[c]]
    /\ \A c \in Conn : checked[c] # 0 => checked[c] \in At(login, c[1])
    /\ enlisting \in [Conn -> Seq(Started)]

SocksInv(socks) ==
    /\ socks \in [Session -> {"none", "closing", "closed"} \cup Connected]
    /\ \A s \in Session : socks[s] # "none" => s \in Started

WorldInv ==
    /\ SocksInv(sock)
    /\ bits \in [Session -> SUBSET {"WS", "GS"}]
    /\ \A s \in Session : bits[s] # {} => s \in Started
    /\ OneRecordPerAccount

Saves == [lsid : Started, mode : {"left", "charlist"}, named : BOOLEAN]

ChannelInv ==
    /\ user \in [Session -> {"none", "confirming", "registered", "deleted", "gone"}]
    /\ \A s \in Session : user[s] # "none" => s \in Started
    /\ closing \subseteq Started
    /\ saveQ \in [World -> Seq(Saves)]
    /\ OneUserPerAccount

Inv == LinksInv /\ LoginInv /\ WorldInv /\ ChannelInv

-----------------------------------------------------------------------------
LEMMA SessionFacts ==
    ASSUME LinksInv
    PROVE  /\ Started \subseteq Session
           /\ \A s \in Started :
                 AccountOf(s) \in Account /\ WorldOf(s) \in World /\ s \in At(login, WorldOf(s))
           /\ \A w \in World : \A s \in At(login, w) : s \in Started /\ WorldOf(s) = w
<1>1. Started = 1 .. Len(login) /\ Len(login) \in Nat
  BY LenProperties DEF LinksInv, Started
<1>2. \A s \in Started : login[s] \in [account : Account, world : World]
  BY <1>1, ElementOfSeq DEF LinksInv
<1>3. QED
  BY <1>1, <1>2, BoundsAssumption DEF LinksInv, At, AccountOf, WorldOf, Session, Started

LEMMA Homes ==
    /\ \A lg : DOMAIN ConnHome(lg) = Conn /\ DOMAIN WorldHome(lg) = World
    /\ \A lg : \A c \in Conn : ConnHome(lg)[c] = At(lg, c[1]) /\ c[1] \in World
    /\ \A lg : \A w \in World : WorldHome(lg)[w] = At(lg, w)
  BY DEF ConnHome, WorldHome, Conn

LEMMA CurrentConn ==
    ASSUME LinksInv, NEW w \in World
    PROVE  Current(w) \in Conn /\ Current(w)[1] = w
  BY DEF LinksInv, Current, Conn

\* What a world sends on its connection to the login server.
LEMMA SendsToLs ==
    ASSUME LinksInv, NEW w \in World, NEW p \in Mail(At(login, w))
    PROVE  Carries(SendToLs(w, toLs, p), ConnHome(login))
<1>1. Carries(toLs, ConnHome(login))
  BY DEF LinksInv
<1>2. Current(w) \in DOMAIN ConnHome(login) => p \in Mail(ConnHome(login)[Current(w)])
  BY CurrentConn, Homes
<1>3. Carries([toLs EXCEPT ![Current(w)] = Append(@, p)], ConnHome(login))
  BY <1>1, <1>2, QueueSend
<1>4. QED
  BY <1>1, <1>3 DEF SendToLs

\* What the login server sends to a connection, or to one that is gone.
LEMMA SendsToWs ==
    ASSUME LinksInv, NEW c, NEW p, c \in Conn => p \in Mail(At(login, c[1]))
    PROVE  Carries(SendToWs(c, toWs, p), ConnHome(login))
<1>1. Carries(toWs, ConnHome(login))
  BY DEF LinksInv
<1>2. c \in DOMAIN ConnHome(login) => p \in Mail(ConnHome(login)[c])
  BY Homes
<1>3. Carries([toWs EXCEPT ![c] = Append(@, p)], ConnHome(login))
  BY <1>1, <1>2, QueueSend
<1>4. QED
  BY <1>1, <1>3 DEF SendToWs

\* What a handler takes from the queue of a connection, and from that of a world.
LEMMA ConnTake ==
    ASSUME NEW f, NEW lg, Carries(f, ConnHome(lg)), NEW c \in Conn, f[c] # <<>>
    PROVE  /\ Head(f[c]) \in Mail(At(lg, c[1]))
           /\ Carries([f EXCEPT ![c] = Tail(@)], ConnHome(lg))
<1>1. c \in DOMAIN ConnHome(lg) /\ ConnHome(lg)[c] = At(lg, c[1])
  BY Homes
<1>2. QED
  BY <1>1, QueueTake

LEMMA WorldTake ==
    ASSUME NEW f, NEW lg, Carries(f, WorldHome(lg)), NEW w \in World, f[w] # <<>>
    PROVE  /\ Head(f[w]) \in Mail(At(lg, w))
           /\ Carries([f EXCEPT ![w] = Tail(@)], WorldHome(lg))
<1>1. w \in DOMAIN WorldHome(lg) /\ WorldHome(lg)[w] = At(lg, w)
  BY Homes
<1>2. QED
  BY <1>1, QueueTake

LEMMA WorldSend ==
    ASSUME NEW f, NEW lg, Carries(f, WorldHome(lg)), NEW w \in World,
           NEW p \in Mail(At(lg, w))
    PROVE  Carries([f EXCEPT ![w] = Append(@, p)], WorldHome(lg))
<1>1. w \in DOMAIN WorldHome(lg) => p \in Mail(WorldHome(lg)[w])
  BY Homes
<1>2. QED
  BY <1>1, QueueSend

-----------------------------------------------------------------------------
(***************************************************************************)
(* What a step that starts no session has to show.                         *)
(***************************************************************************)
LEMMA LinksKept ==
    ASSUME LinksInv, UNCHANGED <<login, epoch, linkUp>>,
           Carries(toLs', ConnHome(login)), Carries(toWs', ConnHome(login)),
           Carries(carry', WorldHome(login)), Carries(gsToWs', WorldHome(login)),
           Carries(wsToGs', WorldHome(login))
    PROVE  LinksInv'
  BY DEF LinksInv

LEMMA LoginKept ==
    ASSUME LoginInv, UNCHANGED <<login, checked, enlisting>>
    PROVE  LoginInv'
  BY DEF LoginInv, Started

LEMMA WorldKept ==
    ASSUME LinksInv, WorldInv, UNCHANGED login,
           SocksInv(sock'),
           bits' \in [Session -> SUBSET {"WS", "GS"}],
           \A s \in Session : bits'[s] # {} => bits[s] # {}
    PROVE  WorldInv'
<1>1. Started \subseteq Session
  BY SessionFacts
<1>2. QED
  BY <1>1 DEF WorldInv, SocksInv, OneRecordPerAccount, SamePlace, SameAccount, Started,
              AccountOf, WorldOf

LEMMA ChannelKept ==
    ASSUME LinksInv, ChannelInv, UNCHANGED login,
           user' \in [Session -> {"none", "confirming", "registered", "deleted", "gone"}],
           \A s \in Session : user'[s] # "none" => s \in Started,
           \A s \in Session : user'[s] = "registered" => user[s] = "registered",
           closing' \subseteq Started,
           saveQ' \in [World -> Seq(Saves)]
    PROVE  ChannelInv'
<1>1. Started \subseteq Session
  BY SessionFacts
<1>2. OneUserPerAccount'
  BY <1>1 DEF ChannelInv, OneUserPerAccount, SamePlace, SameAccount, Started,
              AccountOf, WorldOf
<1>3. Saves' = Saves /\ Started' = Started
  BY DEF Saves, Started
<1>4. QED
  BY <1>2, <1>3 DEF ChannelInv

LEMMA WorldSame ==
    ASSUME LinksInv, WorldInv, UNCHANGED <<login, wsVars>>
    PROVE  WorldInv'
  BY WorldKept DEF WorldInv, wsVars

LEMMA ChannelSame ==
    ASSUME LinksInv, ChannelInv, UNCHANGED <<login, gsVars>>
    PROVE  ChannelInv'
  BY ChannelKept DEF ChannelInv, gsVars

-----------------------------------------------------------------------------
(***************************************************************************)
(* The login server's steps.                                               *)
(***************************************************************************)
LEMMA SelectServerStep ==
    ASSUME Inv, NEW a \in Account, NEW w \in World, SelectServer(a, w),
           UNCHANGED <<wsVars, gsVars>>
    PROVE  Inv'
<1> DEFINE new == [account |-> a, world |-> w]
<1>1. /\ login' = Append(login, new)
      /\ login \in Seq([account : Account, world : World])
      /\ Len(login) < MaxLogin /\ MaxLogin \in Nat
      /\ UNCHANGED <<checked, enlisting, epoch, linkUp, carry, toLs, toWs, gsToWs, wsToGs>>
  BY BoundsAssumption DEF SelectServer, Inv, LinksInv
<1>2. /\ login' \in Seq([account : Account, world : World]) /\ Len(login') <= MaxLogin
      /\ DOMAIN login = 1 .. Len(login) /\ DOMAIN login' = 1 .. Len(login) + 1
      /\ \A s \in DOMAIN login : login'[s] = login[s]
      /\ Len(login) \in Nat
  BY <1>1
<1>3. /\ Started \subseteq Started' /\ Started' \subseteq Session
      /\ \A v : At(login, v) \subseteq At(login', v)
      /\ \A s \in Started : AccountOf(s)' = AccountOf(s) /\ WorldOf(s)' = WorldOf(s)
  BY <1>1, <1>2 DEF Started, Session, At, AccountOf, WorldOf
<1>4. LinksInv'
  <2>1. \A f : Carries(f, ConnHome(login)) => Carries(f, ConnHome(login'))
    BY <1>3, QueueGrows, Homes
  <2>2. \A f : Carries(f, WorldHome(login)) => Carries(f, WorldHome(login'))
    BY <1>3, QueueGrows, Homes
  <2>3. QED
    BY <1>1, <1>2, <2>1, <2>2 DEF Inv, LinksInv
<1>5. LoginInv'
  <2>1. \A q \in Seq(Started) : q \in Seq(Started')
    BY <1>3, SeqMonotonic
  <2>2. QED
    BY <1>1, <1>3, <2>1 DEF Inv, LoginInv
<1>6. WorldInv'
  <2>1. UNCHANGED <<sock, bits>>
    BY DEF wsVars
  <2>2. SocksInv(sock') /\ SocksInv(sock)'
    BY <1>3, <2>1 DEF Inv, WorldInv, SocksInv
  <2>3. OneRecordPerAccount'
    BY <1>3, <2>1 DEF Inv, WorldInv, OneRecordPerAccount, SamePlace, SameAccount
  <2>4. QED
    BY <1>3, <2>1, <2>2, <2>3 DEF Inv, WorldInv
<1>7. ChannelInv'
  <2>1. UNCHANGED <<user, closing, saveQ>>
    BY DEF gsVars
  <2>2. OneUserPerAccount'
    BY <1>3, <2>1 DEF Inv, ChannelInv, OneUserPerAccount, SamePlace, SameAccount
  <2>3. Saves \subseteq Saves'
    BY <1>3 DEF Saves
  <2>4. \A q \in Seq(Saves) : q \in Seq(Saves')
    BY <2>3, SeqMonotonic
  <2>5. QED
    BY <1>3, <2>1, <2>2, <2>4 DEF Inv, ChannelInv
<1>8. QED
  BY <1>4, <1>5, <1>6, <1>7 DEF Inv

LEMMA RefusalStep ==
    ASSUME Inv, NEW a \in Account, LoginRefused(a)
    PROVE  LinksInv' /\ LoginInv' /\ UNCHANGED login
<1>1. UNCHANGED <<login, epoch, linkUp, carry, toLs, gsToWs, wsToGs, checked, enlisting>>
  BY DEF LoginRefused
<1>2. Carries(toWs', ConnHome(login))
  <2>1. toWs' = toWs \/ \E c : toWs' = SendToWs(c, toWs, KickAccount(a))
    BY DEF LoginRefused
  <2>2. \A c : Carries(SendToWs(c, toWs, KickAccount(a)), ConnHome(login))
    BY SendsToWs, MailForms DEF Inv
  <2>3. QED
    BY <2>1, <2>2 DEF Inv, LinksInv
<1>3. QED
  BY <1>1, <1>2, LinksKept, LoginKept DEF Inv, LinksInv

LEMMA ConfirmCheckStep ==
    ASSUME Inv, NEW c \in Conn, ConfirmCheck(c)
    PROVE  LinksInv' /\ LoginInv' /\ UNCHANGED login
<1> DEFINE s == Head(toLs[c]).lsid
<1>1. /\ UNCHANGED <<login, epoch, linkUp, carry, gsToWs, wsToGs, enlisting>>
      /\ toLs[c] # <<>> /\ Head(toLs[c]).type = "confirm"
      /\ toLs' = [toLs EXCEPT ![c] = Tail(@)]
  BY DEF ConfirmCheck, Receives
<1>2. Carries(toLs, ConnHome(login)) /\ Carries(toWs, ConnHome(login))
  BY DEF Inv, LinksInv
<1>3. s \in At(login, c[1]) /\ Carries(toLs', ConnHome(login))
  BY <1>1, <1>2, ConnTake, MailReads
<1>4. Carries(toWs', ConnHome(login))
  <2>1. \/ toWs' = toWs
        \/ \E r \in {"timeout", "already"} : toWs' = SendToWs(c, toWs, ConfirmReply(r, s))
    BY DEF ConfirmCheck
  <2>2. \A r \in {"timeout", "already"} : ConfirmReply(r, s) \in Mail(At(login, c[1]))
    BY <1>3, MailForms
  <2>3. \A r \in {"timeout", "already"} :
            Carries(SendToWs(c, toWs, ConfirmReply(r, s)), ConnHome(login))
    BY <2>2, SendsToWs DEF Inv
  <2>4. QED
    BY <1>2, <2>1, <2>3
<1>5. LoginInv'
  <2>1. checked' = checked \/ checked' = [checked EXCEPT ![c] = s]
    BY DEF ConfirmCheck
  <2>2. QED
    BY <1>1, <1>3, <2>1 DEF Inv, LoginInv, Started
<1>6. QED
  BY <1>1, <1>2, <1>3, <1>4, <1>5, LinksKept DEF Inv, LinksInv

LEMMA ConfirmInsertStep ==
    ASSUME Inv, NEW c \in Conn, ConfirmInsert(c)
    PROVE  LinksInv' /\ LoginInv' /\ UNCHANGED login
<1>1. /\ UNCHANGED <<login, epoch, linkUp, carry, toLs, gsToWs, wsToGs, enlisting>>
      /\ checked[c] # 0 /\ checked' = [checked EXCEPT ![c] = 0]
      /\ toWs' = SendToWs(c, toWs, ConfirmReply("ok", checked[c]))
  BY DEF ConfirmInsert
<1>2. checked[c] \in At(login, c[1])
  BY <1>1 DEF Inv, LoginInv
<1>3. Carries(toWs', ConnHome(login))
  BY <1>1, <1>2, MailForms, SendsToWs DEF Inv
<1>4. LoginInv'
  BY <1>1 DEF Inv, LoginInv, Started
<1>5. QED
  BY <1>1, <1>3, <1>4, LinksKept DEF Inv, LinksInv

LEMMA RecvSubAccountStep ==
    ASSUME Inv, NEW c \in Conn, RecvSubAccount(c)
    PROVE  LinksInv' /\ LoginInv' /\ UNCHANGED login
<1>1. /\ UNCHANGED <<login, epoch, linkUp, carry, toWs, gsToWs, wsToGs, checked, enlisting>>
      /\ toLs[c] # <<>> /\ toLs' = [toLs EXCEPT ![c] = Tail(@)]
  BY DEF RecvSubAccount, Receives
<1>2. Carries(toLs', ConnHome(login))
  BY <1>1, ConnTake DEF Inv, LinksInv
<1>3. QED
  BY <1>1, <1>2, LinksKept, LoginKept DEF Inv, LinksInv

LEMMA RecvAccountListStep ==
    ASSUME Inv, NEW c \in Conn, RecvAccountList(c)
    PROVE  LinksInv' /\ LoginInv' /\ UNCHANGED login
<1>1. /\ UNCHANGED <<login, epoch, linkUp, carry, toWs, gsToWs, wsToGs, checked>>
      /\ toLs[c] # <<>> /\ Head(toLs[c]).type = "list"
      /\ toLs' = [toLs EXCEPT ![c] = Tail(@)]
      /\ enlisting' = [enlisting EXCEPT ![c] = Head(toLs[c]).lsids]
  BY DEF RecvAccountList, Receives
<1>2. Head(toLs[c]).lsids \in Seq(At(login, c[1])) /\ Carries(toLs', ConnHome(login))
  BY <1>1, ConnTake, MailReads DEF Inv, LinksInv
<1>3. Head(toLs[c]).lsids \in Seq(Started)
  BY <1>2, SeqMonotonic DEF At, Started
<1>4. LoginInv'
  BY <1>1, <1>3 DEF Inv, LoginInv, Started
<1>5. QED
  BY <1>1, <1>2, <1>4, LinksKept DEF Inv, LinksInv

LEMMA EnlistStep ==
    ASSUME Inv, NEW c \in Conn, Enlist(c)
    PROVE  LinksInv' /\ LoginInv' /\ UNCHANGED login
<1> DEFINE a == AccountOf(Head(enlisting[c]))
<1>1. /\ UNCHANGED <<login, epoch, linkUp, carry, toLs, gsToWs, wsToGs, checked>>
      /\ enlisting[c] # <<>> /\ enlisting' = [enlisting EXCEPT ![c] = Tail(@)]
  BY DEF Enlist
<1>2. Head(enlisting[c]) \in Started /\ Tail(enlisting[c]) \in Seq(Started)
  BY <1>1, HeadTailProperties DEF Inv, LoginInv
<1>3. Carries(toWs', ConnHome(login))
  <2>1. toWs' = toWs \/ \E d : toWs' = SendToWs(d, toWs, KickAccount(a))
    BY DEF Enlist
  <2>2. a \in Account
    BY <1>2, SessionFacts DEF Inv
  <2>3. \A d : Carries(SendToWs(d, toWs, KickAccount(a)), ConnHome(login))
    BY <2>2, SendsToWs, MailForms DEF Inv
  <2>4. QED
    BY <2>1, <2>3 DEF Inv, LinksInv
<1>4. LoginInv'
  BY <1>1, <1>2 DEF Inv, LoginInv, Started
<1>5. QED
  BY <1>1, <1>3, <1>4, LinksKept DEF Inv, LinksInv

LEMMA ServerClosedStep ==
    ASSUME Inv, NEW c \in Conn, ServerClosed(c)
    PROVE  LinksInv' /\ LoginInv' /\ UNCHANGED login
<1>1. /\ UNCHANGED <<login, epoch, linkUp, carry, toWs, gsToWs, wsToGs, checked, enlisting>>
      /\ toLs' = [toLs EXCEPT ![c] = <<>>]
  BY DEF ServerClosed
<1>2. \A i : <<>> \in Seq(Mail(ConnHome(login)[i]))
  BY EmptySeq
<1>3. Carries(toLs', ConnHome(login))
  BY <1>1, <1>2, QueueSet DEF Inv, LinksInv
<1>4. QED
  BY <1>1, <1>3, LinksKept, LoginKept DEF Inv, LinksInv

LEMMA LoginSteps ==
    ASSUME Inv, LoginStep
    PROVE  Inv'
<1>1. UNCHANGED <<wsVars, gsVars>>
  BY DEF LoginStep
<1>2. CASE \E a \in Account, w \in World : SelectServer(a, w)
  BY <1>1, <1>2, SelectServerStep
<1>3. ASSUME LinksInv', LoginInv', UNCHANGED login
      PROVE  Inv'
  BY <1>1, <1>3, WorldSame, ChannelSame DEF Inv
<1>4. CASE UNCHANGED <<linkVars, checked, enlisting>>
  <2>1. LinksInv' /\ LoginInv' /\ UNCHANGED login
    BY <1>4, LinksKept, LoginKept DEF Inv, LinksInv, linkVars
  <2>2. QED
    BY <1>3, <2>1
<1>5. CASE \E a \in Account : LoginRefused(a)
  BY <1>3, <1>5, RefusalStep
<1>6. CASE \E c \in Conn : ConfirmCheck(c) \/ ConfirmInsert(c) \/ RecvSubAccount(c)
                              \/ RecvAccountList(c) \/ Enlist(c) \/ ServerClosed(c)
  BY <1>3, <1>6, ConfirmCheckStep, ConfirmInsertStep, RecvSubAccountStep,
     RecvAccountListStep, EnlistStep, ServerClosedStep
<1>7. CASE \E a \in Account : LoginAccepted(a)
  BY <1>4, <1>7 DEF LoginAccepted, linkVars
<1>8. CASE \E s \in wait : WaitTimeout(s)
  BY <1>4, <1>8 DEF WaitTimeout, linkVars
<1>9. CASE DeleteAccount
  BY <1>4, <1>9 DEF DeleteAccount, linkVars
<1>10. QED
  BY <1>2, <1>5, <1>6, <1>7, <1>8, <1>9 DEF LoginStep

-----------------------------------------------------------------------------
(***************************************************************************)
(* The world server's steps.                                               *)
(***************************************************************************)
LEMMA CloseKeeps ==
    ASSUME NEW s, NEW socks, SocksInv(socks)
    PROVE  SocksInv(Close(s, socks))
  BY DEF SocksInv, Close, Connected

\* Del_ACCOUNT only takes bits away, and tells the servers of the account alone.
LEMMA DelAccountKeeps ==
    ASSUME LinksInv, WorldInv, UNCHANGED login, NEW w \in World, NEW a \in Account,
           NEW bit, NEW socks, NEW queues, SocksInv(socks),
           Carries(queues, WorldHome(login)),
           DelAccount(w, a, bit, socks, queues)
    PROVE  /\ Carries(toLs', ConnHome(login))
           /\ Carries(wsToGs', WorldHome(login))
           /\ WorldInv'
<1>1. Carries(toLs', ConnHome(login))
  <2>1. toLs' = toLs \/ toLs' = SendToLs(w, toLs, SubAccount(a))
    BY DEF DelAccount
  <2>2. Carries(SendToLs(w, toLs, SubAccount(a)), ConnHome(login))
    BY SendsToLs, MailForms
  <2>3. QED
    BY <2>1, <2>2 DEF LinksInv
<1>2. Carries(wsToGs', WorldHome(login))
  <2>1. \/ wsToGs' = queues
        \/ wsToGs' = [queues EXCEPT ![w] = Append(@, KickAccount(a))]
    BY DEF DelAccount
  <2>2. Carries([queues EXCEPT ![w] = Append(@, KickAccount(a))], WorldHome(login))
    BY WorldSend, MailForms
  <2>3. QED
    BY <2>1, <2>2
<1>3. SocksInv(sock')
  <2>1. sock' = socks \/ \E s : sock' = Close(s, socks)
    BY DEF DelAccount
  <2>2. QED
    BY <2>1, CloseKeeps
<1> DEFINE Shrunk == /\ bits' \in [Session -> SUBSET {"WS", "GS"}]
                     /\ \A s \in Session : bits'[s] # {} => bits[s] # {}
<1>4. Shrunk
  <2>1. CASE UNCHANGED bits
    BY <2>1 DEF WorldInv
  <2>2. ASSUME NEW s \in Session, NEW left,
               bits' = [bits EXCEPT ![s] = IF DeletedBy(left) THEN {} ELSE left],
               left = bits[s] \ {bit}
        PROVE  Shrunk
    BY <2>2 DEF WorldInv
  <2>3. UNCHANGED bits \/ \E s \in Started :
            bits' = [bits EXCEPT ![s] =
                        IF DeletedBy(bits[s] \ {bit}) THEN {} ELSE bits[s] \ {bit}]
    BY DEF DelAccount, Records
  <2>4. QED
    BY <2>1, <2>2, <2>3, SessionFacts
<1>5. QED
  BY <1>1, <1>2, <1>3, <1>4, WorldKept

LEMMA ClientJoinsStep ==
    ASSUME Inv, NEW s \in Session, ClientJoins(s)
    PROVE  LinksInv' /\ WorldInv' /\ UNCHANGED login
<1>1. /\ UNCHANGED <<bits, login, epoch, linkUp, carry, toWs, gsToWs, wsToGs>>
      /\ s \in Started /\ sock' = [sock EXCEPT ![s] = "open"]
      /\ toLs' = SendToLs(WorldOf(s), toLs, ConfirmReq(s))
  BY DEF ClientJoins
<1>2. Carries(toLs', ConnHome(login))
  BY <1>1, SessionFacts, MailForms, SendsToLs DEF Inv
<1>3. SocksInv(sock')
  BY <1>1 DEF Inv, WorldInv, SocksInv, Connected
<1>4. WorldInv'
  BY <1>1, <1>3, WorldKept DEF Inv, WorldInv
<1>5. QED
  BY <1>1, <1>2, <1>4, LinksKept DEF Inv, LinksInv

\* Steps of a client that only move its socket.
LEMMA SocketStep ==
    ASSUME Inv, NEW s \in Session, SelectChar(s) \/ ClientLeaves(s)
    PROVE  LinksInv' /\ WorldInv' /\ UNCHANGED login
<1>1. UNCHANGED <<bits, linkVars>>
  BY DEF SelectChar, ClientLeaves
<1>2. SocksInv(sock')
  <2>1. CASE SelectChar(s)
    BY <2>1 DEF SelectChar, Inv, WorldInv, SocksInv, Connected
  <2>2. CASE ClientLeaves(s)
    BY <2>2, CloseKeeps DEF ClientLeaves, Inv, WorldInv
  <2>3. QED
    BY <2>1, <2>2
<1>3. QED
  BY <1>1, <1>2, WorldKept, LinksKept DEF Inv, WorldInv, LinksInv, linkVars

LEMMA SocketClosedStep ==
    ASSUME Inv, NEW s \in Session, SocketClosed(s)
    PROVE  LinksInv' /\ WorldInv' /\ UNCHANGED login
<1> DEFINE closed == [sock EXCEPT ![s] = "closed"]
<1>1. UNCHANGED <<login, epoch, linkUp, carry, toWs, gsToWs>> /\ sock[s] = "closing"
  BY DEF SocketClosed
<1>2. SocksInv(closed)
  BY <1>1 DEF Inv, WorldInv, SocksInv
<1>3. CASE "WS" \in bits[s]
  <2>1. s \in Started
    BY <1>3 DEF Inv, WorldInv
  <2>2. WorldOf(s) \in World /\ AccountOf(s) \in Account
    BY <2>1, SessionFacts DEF Inv
  <2>3. DelAccount(WorldOf(s), AccountOf(s), "WS", closed, wsToGs)
    BY <1>3 DEF SocketClosed
  <2>4. Carries(toLs', ConnHome(login)) /\ Carries(wsToGs', WorldHome(login)) /\ WorldInv'
    BY <1>1, <1>2, <2>2, <2>3, DelAccountKeeps DEF Inv, LinksInv
  <2>5. QED
    BY <1>1, <2>4, LinksKept DEF Inv, LinksInv
<1>4. CASE "WS" \notin bits[s]
  <2>1. sock' = closed /\ UNCHANGED <<bits, toLs, wsToGs>>
    BY <1>4 DEF SocketClosed
  <2>2. QED
    BY <1>1, <1>2, <2>1, WorldKept, LinksKept DEF Inv, WorldInv, LinksInv
<1>5. QED
  BY <1>3, <1>4

\* A session that is accepted gets a record only if its account has none here.
LEMMA RecvConfirmReplyStep ==
    ASSUME Inv, NEW w \in World, RecvConfirmReply(w)
    PROVE  LinksInv' /\ WorldInv' /\ UNCHANGED login
<1> DEFINE c == Current(w)
           s == Head(toWs[c]).lsid
           a == AccountOf(s)
<1>1. /\ UNCHANGED <<login, epoch, linkUp, carry, gsToWs, wsToGs>>
      /\ toWs[c] # <<>> /\ Head(toWs[c]).type = "reply"
      /\ toWs' = [toWs EXCEPT ![c] = Tail(@)]
  BY DEF RecvConfirmReply, Receives
<1>2. c \in Conn /\ c[1] = w
  BY CurrentConn DEF Inv
<1>3. s \in At(login, w) /\ Carries(toWs', ConnHome(login))
  BY <1>1, <1>2, ConnTake, MailReads DEF Inv, LinksInv
<1>4. s \in Started /\ s \in Session /\ WorldOf(s) = w /\ a \in Account
  BY <1>3, SessionFacts DEF Inv
<1>5. Carries(toLs', ConnHome(login))
  <2>1. toLs' = toLs \/ toLs' = SendToLs(w, toLs, SubAccount(a))
    BY DEF RecvConfirmReply
  <2>2. Carries(SendToLs(w, toLs, SubAccount(a)), ConnHome(login))
    BY <1>4, SendsToLs, MailForms DEF Inv
  <2>3. QED
    BY <2>1, <2>2 DEF Inv, LinksInv
<1>6. LinksInv'
  BY <1>1, <1>3, <1>5, LinksKept DEF Inv, LinksInv
<1>7. WorldInv'
  <2>1. CASE UNCHANGED bits /\ (sock' = sock \/ \E t : sock' = Close(t, sock))
    <3>1. SocksInv(sock')
      BY <2>1, CloseKeeps DEF Inv, WorldInv
    <3>2. QED
      BY <1>1, <2>1, <3>1, WorldKept DEF Inv, WorldInv
  <2>2. CASE /\ Records(w, a) = {}
             /\ bits' = [bits EXCEPT ![s] = {"WS"}]
             /\ sock' = IF sock[s] = "open" THEN [sock EXCEPT ![s] = "joined"] ELSE sock
    <3>1. SocksInv(sock') /\ SocksInv(sock)'
      BY <1>1, <1>4, <2>2 DEF Inv, WorldInv, SocksInv, Connected, Started
    <3>2. /\ bits' \in [Session -> SUBSET {"WS", "GS"}]
          /\ \A t \in Session : bits'[t] # {} => t \in Started
      BY <1>4, <2>2 DEF Inv, WorldInv
    <3>3. \A t \in Started : bits[t] # {} => ~SamePlace(s, t)
      BY <1>4, <2>2 DEF Records, SamePlace, SameAccount
    <3>4. Started \subseteq Session
      BY SessionFacts DEF Inv
    <3>5. \A t, u \in Started :
              bits'[t] # {} /\ bits'[u] # {} /\ SamePlace(t, u) => t = u
      BY <2>2, <3>3, <3>4
      DEF Inv, WorldInv, OneRecordPerAccount, SamePlace, SameAccount
    <3>6. OneRecordPerAccount'
      BY <1>1, <3>5
      DEF OneRecordPerAccount, SamePlace, SameAccount, Started, AccountOf, WorldOf
    <3>7. QED
      BY <1>1, <3>1, <3>2, <3>6 DEF WorldInv, Started
  <2>3. QED
    BY <2>1, <2>2 DEF RecvConfirmReply, Duplicates
<1>8. QED
  BY <1>1, <1>6, <1>7

LEMMA RecvKickStep ==
    ASSUME Inv, NEW w \in World, RecvKick(w)
    PROVE  LinksInv' /\ WorldInv' /\ UNCHANGED login
<1> DEFINE c == Current(w)
           a == Head(toWs[c]).account
           kicked == [wsToGs EXCEPT ![w] = Append(@, KickAccount(a))]
<1>1. /\ UNCHANGED <<login, epoch, linkUp, carry, gsToWs>>
      /\ toWs[c] # <<>> /\ Head(toWs[c]).type = "kick"
      /\ toWs' = [toWs EXCEPT ![c] = Tail(@)]
  BY DEF RecvKick, Receives
<1>2. c \in Conn /\ c[1] = w
  BY CurrentConn DEF Inv
<1>3. a \in Account /\ Carries(toWs', ConnHome(login))
  BY <1>1, <1>2, ConnTake, MailReads DEF Inv, LinksInv
<1>4. CASE (\E s : sock' = Close(s, sock)) /\ UNCHANGED <<bits, toLs, wsToGs>>
  <2>1. SocksInv(sock')
    BY <1>4, CloseKeeps DEF Inv, WorldInv
  <2>2. QED
    BY <1>1, <1>3, <1>4, <2>1, WorldKept, LinksKept DEF Inv, WorldInv, LinksInv
<1>5. CASE DelAccount(w, a, "GS", sock, kicked)
  <2>1. Carries(kicked, WorldHome(login))
    BY <1>3, WorldSend, MailForms DEF Inv, LinksInv
  <2>2. Carries(toLs', ConnHome(login)) /\ Carries(wsToGs', WorldHome(login)) /\ WorldInv'
    BY <1>1, <1>3, <1>5, <2>1, DelAccountKeeps DEF Inv, WorldInv
  <2>3. QED
    BY <1>1, <1>3, <2>2, LinksKept DEF Inv, LinksInv
<1>6. QED
  BY <1>4, <1>5 DEF RecvKick

LEMMA RecvGsConfirmStep ==
    ASSUME Inv, NEW w \in World, RecvGsConfirm(w)
    PROVE  LinksInv' /\ WorldInv' /\ UNCHANGED login
<1> DEFINE s == Head(gsToWs[w]).lsid
           accepted == sock[s] # "closed" /\ "WS" \in bits[s]
           answer == ConfirmReply(IF accepted THEN "ok" ELSE "failed", s)
<1>1. /\ UNCHANGED <<sock, login, epoch, linkUp, carry, toLs, toWs>>
      /\ gsToWs[w] # <<>> /\ Head(gsToWs[w]).type = "confirm"
      /\ gsToWs' = [gsToWs EXCEPT ![w] = Tail(@)]
      /\ bits' = IF accepted THEN [bits EXCEPT ![s] = @ \cup {"GS"}] ELSE bits
      /\ wsToGs' = [wsToGs EXCEPT ![w] = Append(@, answer)]
  BY DEF RecvGsConfirm, Receives
<1>2. s \in At(login, w) /\ Carries(gsToWs', WorldHome(login))
  BY <1>1, WorldTake, MailReads DEF Inv, LinksInv
<1>3. answer \in Mail(At(login, w))
  BY <1>2, MailForms
<1>4. Carries(wsToGs', WorldHome(login))
  BY <1>1, <1>3, WorldSend DEF Inv, LinksInv
<1>5. /\ bits' \in [Session -> SUBSET {"WS", "GS"}]
      /\ \A t \in Session : bits'[t] # {} => bits[t] # {}
  BY <1>1 DEF Inv, WorldInv
<1>6. QED
  BY <1>1, <1>2, <1>4, <1>5, WorldKept, LinksKept DEF Inv, WorldInv, LinksInv

LEMMA RecvGsSubAccountStep ==
    ASSUME Inv, NEW w \in World, RecvGsSubAccount(w)
    PROVE  LinksInv' /\ WorldInv' /\ UNCHANGED login
<1> DEFINE a == Head(gsToWs[w]).account
<1>1. /\ UNCHANGED <<login, epoch, linkUp, carry, toWs>>
      /\ gsToWs[w] # <<>> /\ Head(gsToWs[w]).type = "sub"
      /\ gsToWs' = [gsToWs EXCEPT ![w] = Tail(@)]
      /\ DelAccount(w, a, "GS", sock, wsToGs)
  BY DEF RecvGsSubAccount, Receives
<1>2. a \in Account /\ Carries(gsToWs', WorldHome(login))
  BY <1>1, WorldTake, MailReads DEF Inv, LinksInv
<1>3. Carries(toLs', ConnHome(login)) /\ Carries(wsToGs', WorldHome(login)) /\ WorldInv'
  BY <1>1, <1>2, DelAccountKeeps DEF Inv, WorldInv, LinksInv
<1>4. QED
  BY <1>1, <1>2, <1>3, LinksKept DEF Inv, LinksInv

LEMMA RecvChangeCharStep ==
    ASSUME Inv, NEW w \in World, RecvChangeChar(w)
    PROVE  LinksInv' /\ WorldInv' /\ UNCHANGED login
<1>1. /\ UNCHANGED <<login, epoch, linkUp, carry, toLs, toWs, wsToGs>>
      /\ gsToWs[w] # <<>> /\ gsToWs' = [gsToWs EXCEPT ![w] = Tail(@)]
  BY DEF RecvChangeChar, Receives
<1>2. Carries(gsToWs', WorldHome(login))
  BY <1>1, WorldTake DEF Inv, LinksInv
<1>3. CASE UNCHANGED wsVars
  BY <1>1, <1>2, <1>3, WorldSame, LinksKept DEF Inv, LinksInv
<1>4. ASSUME NEW s \in Started,
             bits' = [bits EXCEPT ![s] = @ \ {"GS"}],
             sock' = IF sock[s] = "away" THEN [sock EXCEPT ![s] = "joined"] ELSE sock
      PROVE  LinksInv' /\ WorldInv' /\ UNCHANGED login
  <2>1. SocksInv(sock')
    BY <1>4 DEF Inv, WorldInv, SocksInv, Connected
  <2>2. /\ bits' \in [Session -> SUBSET {"WS", "GS"}]
        /\ \A t \in Session : bits'[t] # {} => bits[t] # {}
    BY <1>4 DEF Inv, WorldInv
  <2>3. QED
    BY <1>1, <1>2, <2>1, <2>2, WorldKept, LinksKept DEF Inv, LinksInv
<1>5. QED
  BY <1>3, <1>4 DEF RecvChangeChar, Records

\* What the lost connection kept for the next one has the packets it had.
LEMMA LinkLostStep ==
    ASSUME Inv, NEW w \in World, LinkLost(w)
    PROVE  LinksInv' /\ UNCHANGED <<login, wsVars>>
<1> DEFINE c == Current(w)
           n == Len(toLs[c])
           S == Mail(At(login, w))
<1>1. /\ UNCHANGED <<wsVars, login, epoch, gsToWs, wsToGs>>
      /\ epoch[w] < MaxLoss
      /\ linkUp' = [linkUp EXCEPT ![w] = FALSE]
      /\ toWs' = [toWs EXCEPT ![c] = <<>>]
  BY DEF LinkLost
<1>2. /\ c \in Conn /\ c[1] = w
      /\ c \in DOMAIN ConnHome(login) /\ ConnHome(login)[c] = At(login, w)
      /\ w \in DOMAIN WorldHome(login) /\ WorldHome(login)[w] = At(login, w)
  BY CurrentConn, Homes DEF Inv
<1>3. toLs[c] \in Seq(S)
  BY <1>2 DEF Inv, LinksInv, Carries
<1>4. n \in Nat /\ \A k \in 1 .. n : toLs[c][k] \in S
  BY <1>3, LenProperties, ElementOfSeq
<1>5. PICK i \in 0 .. n : \E j \in i .. n :
          /\ toLs' = [toLs EXCEPT ![c] = SubSeq(@, 1, i)]
          /\ carry' = [carry EXCEPT ![w] = SubSeq(toLs[c], j + 1, n)]
  BY DEF LinkLost
<1>6. PICK j \in i .. n :
          /\ toLs' = [toLs EXCEPT ![c] = SubSeq(@, 1, i)]
          /\ carry' = [carry EXCEPT ![w] = SubSeq(toLs[c], j + 1, n)]
  BY <1>5
<1>7. SubSeq(toLs[c], 1, i) \in Seq(S) /\ SubSeq(toLs[c], j + 1, n) \in Seq(S)
  <2>1. \A k \in 1 .. i : toLs[c][k] \in S
    BY <1>4
  <2>2. \A k \in j + 1 .. n : toLs[c][k] \in S
    BY <1>4
  <2>3. QED
    BY <1>4, <2>1, <2>2, SubSeqProperties
<1>8. <<>> \in Seq(S)
  BY EmptySeq
<1>9. Carries(toLs', ConnHome(login))
  BY <1>2, <1>6, <1>7, QueueSet DEF Inv, LinksInv
<1>10. Carries(toWs', ConnHome(login))
  BY <1>1, <1>2, <1>8, QueueSet DEF Inv, LinksInv
<1>11. Carries(carry', WorldHome(login))
  BY <1>2, <1>6, <1>7, QueueSet DEF Inv, LinksInv
<1>12. QED
  BY <1>1, <1>9, <1>10, <1>11 DEF Inv, LinksInv

LEMMA WorldSteps ==
    ASSUME Inv, WorldStep
    PROVE  Inv'
<1>1. UNCHANGED <<lsVars, gsVars>>
  BY DEF WorldStep
<1>2. ASSUME LinksInv', WorldInv', UNCHANGED login
      PROVE  Inv'
  BY <1>1, <1>2, LoginKept, ChannelSame DEF Inv, lsVars
<1>3. CASE \E s \in Session : ClientJoins(s) \/ SelectChar(s) \/ ClientLeaves(s)
                                 \/ SocketClosed(s)
  BY <1>2, <1>3, ClientJoinsStep, SocketStep, SocketClosedStep
<1>4. CASE \E w \in World : RecvConfirmReply(w) \/ RecvKick(w) \/ RecvGsConfirm(w)
                               \/ RecvGsSubAccount(w) \/ RecvChangeChar(w)
  BY <1>2, <1>4, RecvConfirmReplyStep, RecvKickStep, RecvGsConfirmStep,
     RecvGsSubAccountStep, RecvChangeCharStep
<1>5. CASE \E w \in World : LinkLost(w)
  BY <1>2, <1>5, LinkLostStep, WorldSame DEF Inv
<1>6. QED
  BY <1>3, <1>4, <1>5 DEF WorldStep

-----------------------------------------------------------------------------
(***************************************************************************)
(* The channel server's steps.                                             *)
(***************************************************************************)

\* What the channel server sends to its world.
LEMMA SendsToWorld ==
    ASSUME Inv, NEW w \in World, NEW p \in Mail(At(login, w)),
           UNCHANGED login, SendToWorld(w, p)
    PROVE  Carries(gsToWs', WorldHome(login))
  BY WorldSend DEF Inv, LinksInv, SendToWorld

LEMMA UserJoinsStep ==
    ASSUME Inv, NEW s \in Started, UserJoins(s)
    PROVE  LinksInv' /\ ChannelInv' /\ UNCHANGED login
<1>1. /\ UNCHANGED <<closing, saveQ, login, epoch, linkUp, carry, toLs, toWs, wsToGs>>
      /\ user' = [user EXCEPT ![s] = "confirming"]
      /\ SendToWorld(WorldOf(s), ConfirmReq(s))
  BY DEF UserJoins
<1>2. Carries(gsToWs', WorldHome(login))
  BY <1>1, SessionFacts, MailForms, SendsToWorld DEF Inv
<1>3. ChannelInv'
  BY <1>1, ChannelKept DEF Inv, ChannelInv
<1>4. QED
  BY <1>1, <1>2, <1>3, LinksKept DEF Inv, LinksInv

LEMMA UserLeavesStep ==
    ASSUME Inv, NEW s \in Session, UserLeaves(s)
    PROVE  LinksInv' /\ ChannelInv' /\ UNCHANGED login
<1>1. /\ UNCHANGED <<user, saveQ, linkVars>>
      /\ user[s] # "none" /\ closing' = closing \cup {s}
  BY DEF UserLeaves
<1>2. ChannelInv'
  BY <1>1, ChannelKept DEF Inv, ChannelInv, linkVars
<1>3. QED
  BY <1>1, <1>2, LinksKept DEF Inv, LinksInv, linkVars

\* Both ways of leaving: a closed socket, and the return to the character list.
LEMMA DeleteUserStep ==
    ASSUME Inv, NEW s \in Started, NEW mode \in {"left", "charlist"}, DeleteUser(s, mode)
    PROVE  LinksInv' /\ ChannelInv' /\ UNCHANGED login
<1> DEFINE item == [lsid |-> s, mode |-> mode, named |-> user[s] = "registered"]
<1>1. /\ UNCHANGED linkVars
      /\ user' = [user EXCEPT ![s] = "deleted"]
      /\ closing' = closing \ {s}
      /\ saveQ' = [saveQ EXCEPT ![WorldOf(s)] = Append(@, item)]
  BY DEF DeleteUser
<1>2. saveQ' \in [World -> Seq(Saves)]
  <2>1. item \in Saves
    BY DEF Saves
  <2>2. saveQ[WorldOf(s)] \in Seq(Saves) /\ WorldOf(s) \in World
    BY SessionFacts DEF Inv, ChannelInv
  <2>3. Append(saveQ[WorldOf(s)], item) \in Seq(Saves)
    BY <2>1, <2>2, AppendProperties
  <2>4. QED
    BY <1>1, <2>3 DEF Inv, ChannelInv
<1>3. ChannelInv'
  BY <1>1, <1>2, ChannelKept DEF Inv, ChannelInv, linkVars
<1>4. QED
  BY <1>1, <1>3, LinksKept DEF Inv, LinksInv, linkVars

\* A confirmed user is registered only if its account has no other user here.
LEMMA RecvJoinReplyStep ==
    ASSUME Inv, NEW w \in World, RecvJoinReply(w)
    PROVE  LinksInv' /\ ChannelInv' /\ UNCHANGED login
<1> DEFINE s == Head(wsToGs[w]).lsid
           a == AccountOf(s)
<1>1. /\ UNCHANGED <<saveQ, login, epoch, linkUp, carry, toLs, toWs>>
      /\ wsToGs[w] # <<>> /\ Head(wsToGs[w]).type = "reply"
      /\ wsToGs' = [wsToGs EXCEPT ![w] = Tail(@)]
  BY DEF RecvJoinReply, Receives
<1>2. s \in At(login, w) /\ Carries(wsToGs', WorldHome(login))
  BY <1>1, WorldTake, MailReads DEF Inv, LinksInv
<1>3. s \in Started /\ s \in Session /\ WorldOf(s) = w /\ a \in Account
  BY <1>2, SessionFacts DEF Inv
<1>4. Carries(gsToWs', WorldHome(login))
  <2>1. UNCHANGED gsToWs \/ SendToWorld(w, SubAccount(a))
    BY DEF RecvJoinReply, Rejected
  <2>2. SubAccount(a) \in Mail(At(login, w))
    BY <1>3, MailForms
  <2>3. QED
    BY <1>1, <2>1, <2>2, SendsToWorld DEF Inv, LinksInv
<1>5. CASE UNCHANGED user /\ closing' \subseteq closing \cup {s} \cup Namesakes(w, a)
  <2>1. closing' \subseteq Started
    BY <1>3, <1>5 DEF Inv, ChannelInv, Namesakes, Registered
  <2>2. ChannelInv'
    BY <1>1, <1>5, <2>1, ChannelKept DEF Inv, ChannelInv
  <2>3. QED
    BY <1>1, <1>2, <1>4, <2>2, LinksKept DEF Inv, LinksInv
<1>6. CASE /\ Namesakes(w, a) = {} /\ UNCHANGED closing
           /\ user' = [user EXCEPT ![s] = "registered"]
  <2>1. /\ user' \in [Session -> {"none", "confirming", "registered", "deleted", "gone"}]
        /\ \A t \in Session : user'[t] # "none" => t \in Started
    BY <1>3, <1>6 DEF Inv, ChannelInv
  <2>2. \A t \in Started : user[t] = "registered" => ~SamePlace(s, t)
    BY <1>3, <1>6 DEF Namesakes, Registered, SamePlace, SameAccount
  <2>3. Started \subseteq Session
    BY SessionFacts DEF Inv
  <2>4. \A t, u \in Started :
            user'[t] = "registered" /\ user'[u] = "registered" /\ SamePlace(t, u) => t = u
    BY <1>6, <2>2, <2>3
    DEF Inv, ChannelInv, OneUserPerAccount, SamePlace, SameAccount
  <2>5. OneUserPerAccount'
    BY <1>1, <2>4
    DEF OneUserPerAccount, SamePlace, SameAccount, Started, AccountOf, WorldOf
  <2>6. Saves' = Saves /\ Started' = Started
    BY <1>1 DEF Saves, Started
  <2>7. ChannelInv'
    BY <1>1, <1>6, <2>1, <2>5, <2>6 DEF Inv, ChannelInv
  <2>8. QED
    BY <1>1, <1>2, <1>4, <2>7, LinksKept DEF Inv, LinksInv
<1>7. QED
  BY <1>5, <1>6 DEF RecvJoinReply

LEMMA RecvGsKickStep ==
    ASSUME Inv, NEW w \in World, RecvGsKick(w)
    PROVE  LinksInv' /\ ChannelInv' /\ UNCHANGED login
<1>1. /\ UNCHANGED <<user, saveQ, login, epoch, linkUp, carry, toLs, toWs, gsToWs>>
      /\ wsToGs[w] # <<>> /\ wsToGs' = [wsToGs EXCEPT ![w] = Tail(@)]
  BY DEF RecvGsKick, Receives
<1>2. Carries(wsToGs', WorldHome(login))
  BY <1>1, WorldTake DEF Inv, LinksInv
<1>3. closing' \subseteq Started
  BY DEF RecvGsKick, Registered, Inv, ChannelInv
<1>4. ChannelInv'
  BY <1>1, <1>3, ChannelKept DEF Inv, ChannelInv
<1>5. QED
  BY <1>1, <1>2, <1>4, LinksKept DEF Inv, LinksInv

LEMMA SaveUserStep ==
    ASSUME Inv, NEW w \in World, SaveUser(w)
    PROVE  LinksInv' /\ ChannelInv' /\ UNCHANGED login
<1> DEFINE item == Head(saveQ[w])
           s == item.lsid
<1>1. /\ UNCHANGED <<closing, login, epoch, linkUp, carry, toLs, toWs, wsToGs>>
      /\ saveQ[w] # <<>> /\ saveQ' = [saveQ EXCEPT ![w] = Tail(@)]
      /\ \E next \in {"none", "gone"} : user' = [user EXCEPT ![s] = next]
  BY DEF SaveUser
<1>2. item \in Saves /\ Tail(saveQ[w]) \in Seq(Saves)
  BY <1>1, HeadTailProperties DEF Inv, ChannelInv
<1>3. s \in Started /\ AccountOf(s) \in Account
  BY <1>2, SessionFacts DEF Saves, Inv
<1>4. Carries(gsToWs', WorldHome(login))
  <2>1. \/ UNCHANGED gsToWs
        \/ \E p \in {ChangeChar(AccountOf(s)), SubAccount(AccountOf(s))} : SendToWorld(w, p)
    BY DEF SaveUser
  <2>2. \A p \in {ChangeChar(AccountOf(s)), SubAccount(AccountOf(s))} :
            p \in Mail(At(login, w))
    BY <1>3, MailForms
  <2>3. QED
    BY <1>1, <2>1, <2>2, SendsToWorld DEF Inv, LinksInv
<1>5. ChannelInv'
  <2>1. /\ user' \in [Session -> {"none", "confirming", "registered", "deleted", "gone"}]
        /\ \A t \in Session : user'[t] # "none" => t \in Started
        /\ \A t \in Session : user'[t] = "registered" => user[t] = "registered"
    BY <1>1, <1>3 DEF Inv, ChannelInv
  <2>2. saveQ' \in [World -> Seq(Saves)]
    BY <1>1, <1>2 DEF Inv, ChannelInv
  <2>3. QED
    BY <1>1, <2>1, <2>2, ChannelKept DEF Inv, ChannelInv
<1>6. QED
  BY <1>1, <1>4, <1>5, LinksKept DEF Inv, LinksInv

LEMMA ChannelSteps ==
    ASSUME Inv, ChannelStep
    PROVE  Inv'
<1>1. UNCHANGED <<lsVars, wsVars>>
  BY DEF ChannelStep
<1>2. ASSUME LinksInv', ChannelInv', UNCHANGED login
      PROVE  Inv'
  BY <1>1, <1>2, LoginKept, WorldSame DEF Inv, lsVars
<1>3. CASE \E s \in Session : UserLeaves(s)
  BY <1>2, <1>3, UserLeavesStep
<1>4. CASE \E s \in Session : DeleteClosed(s) \/ ChangeCharacter(s)
  <2>1. PICK s \in Session : DeleteClosed(s) \/ ChangeCharacter(s)
    BY <1>4
  <2>2. s \in Started /\ \E mode \in {"left", "charlist"} : DeleteUser(s, mode)
    BY <2>1 DEF DeleteClosed, ChangeCharacter, Inv, ChannelInv
  <2>3. QED
    BY <1>2, <2>2, DeleteUserStep
<1>5. CASE \E w \in World : RecvJoinReply(w) \/ RecvGsKick(w) \/ SaveUser(w)
  BY <1>2, <1>5, RecvJoinReplyStep, RecvGsKickStep, SaveUserStep
<1>6. CASE \E w \in World : LoadCharacter(w)
  <2>1. UNCHANGED <<user, closing, saveQ, linkVars>>
    BY <1>6 DEF LoadCharacter
  <2>2. LinksInv' /\ ChannelInv' /\ UNCHANGED login
    BY <2>1, LinksKept, ChannelKept DEF Inv, LinksInv, ChannelInv, linkVars
  <2>3. QED
    BY <1>2, <2>2
<1>7. QED
  BY <1>3, <1>4, <1>5, <1>6 DEF ChannelStep

-----------------------------------------------------------------------------
(***************************************************************************)
(* Steps of two servers.                                                   *)
(***************************************************************************)
LEMMA EnterChannelStep ==
    ASSUME Inv, NEW s \in Session, EnterChannel(s)
    PROVE  Inv'
<1>1. /\ UNCHANGED <<lsVars, bits>> /\ UserJoins(s)
      /\ sock[s] = "moved" /\ sock' = [sock EXCEPT ![s] = "away"]
  BY DEF EnterChannel, FollowsMove
<1>2. s \in Started
  BY <1>1 DEF Inv, WorldInv, SocksInv
<1>3. LinksInv' /\ ChannelInv' /\ UNCHANGED login
  BY <1>1, <1>2, UserJoinsStep
<1>4. SocksInv(sock')
  BY <1>1, <1>2 DEF Inv, WorldInv, SocksInv, Connected
<1>5. WorldInv'
  BY <1>1, <1>3, <1>4, WorldKept DEF Inv, WorldInv
<1>6. QED
  BY <1>1, <1>3, <1>5, LoginKept DEF Inv, lsVars

\* A set of sessions in some order is a sequence of them.
LEMMA OrdersAreSequences ==
    ASSUME LinksInv, NEW S \in SUBSET Started, NEW q \in Orders(S)
    PROVE  q \in Seq(S)
<1>1. Started = 1 .. Len(login) /\ Len(login) \in Nat
  BY LenProperties DEF LinksInv, Started
<1>2. IsFiniteSet(Started)
  BY <1>1, FS_Interval
<1>3. Cardinality(S) \in Nat
  BY <1>2, FS_Subset, FS_CardinalityType
<1>4. q \in [1 .. Cardinality(S) -> S]
  BY DEF Orders
<1>5. QED
  BY <1>3, <1>4

\* The next connection starts with what the last one kept and the list of the
\* world's own records.
LEMMA ReconnectStep ==
    ASSUME Inv, NEW w \in World, Reconnect(w)
    PROVE  Inv'
<1> DEFINE c == <<w, epoch[w] + 1>>
           mine == {s \in Started : bits[s] # {} /\ WorldOf(s) = w}
<1>1. /\ UNCHANGED <<login, toWs, gsToWs, wsToGs, checked, enlisting, wsVars, gsVars>>
      /\ ~linkUp[w] /\ linkUp' = [linkUp EXCEPT ![w] = TRUE]
      /\ epoch' = [epoch EXCEPT ![w] = @ + 1]
      /\ carry' = [carry EXCEPT ![w] = <<>>]
  BY DEF Reconnect
<1>2. epoch[w] \in 0 .. MaxLoss /\ epoch[w] + 1 \in 0 .. MaxLoss /\ MaxLoss \in Nat
  BY <1>1, BoundsAssumption DEF Inv, LinksInv
<1>3. c \in Conn /\ c[1] = w
  BY <1>2 DEF Conn
<1>4. /\ c \in DOMAIN ConnHome(login) /\ ConnHome(login)[c] = At(login, w)
      /\ w \in DOMAIN WorldHome(login) /\ WorldHome(login)[w] = At(login, w)
  BY <1>3, Homes
<1>5. carry[w] \in Seq(Mail(At(login, w)))
  BY <1>4 DEF Inv, LinksInv, Carries
<1>6. ASSUME NEW packets \in AfterReconnect(w)
      PROVE  packets \in Seq(Mail(At(login, w)))
  <2>1. CASE packets = carry[w]
    BY <1>5, <2>1
  <2>2. CASE \E q \in Orders(mine) : packets = Append(carry[w], AccountList(q))
    <3>1. PICK q \in Orders(mine) : packets = Append(carry[w], AccountList(q))
      BY <2>2
    <3>2. mine \subseteq Started /\ mine \subseteq At(login, w)
      BY DEF At, Started, WorldOf
    <3>3. q \in Seq(mine)
      BY <3>2, OrdersAreSequences DEF Inv
    <3>4. q \in Seq(At(login, w))
      BY <3>2, <3>3, SeqMonotonic
    <3>5. AccountList(q) \in Mail(At(login, w))
      BY <3>4, MailForms
    <3>6. QED
      BY <1>5, <3>1, <3>5, AppendProperties
  <2>3. QED
    BY <2>1, <2>2 DEF AfterReconnect
<1>7. Carries(toLs', ConnHome(login))
  <2>1. PICK packets \in AfterReconnect(w) : toLs' = [toLs EXCEPT ![c] = packets]
    BY DEF Reconnect
  <2>2. QED
    BY <1>4, <1>6, <2>1, QueueSet DEF Inv, LinksInv
<1>8. Carries(carry', WorldHome(login))
  <2>1. <<>> \in Seq(Mail(At(login, w)))
    BY EmptySeq
  <2>2. QED
    BY <1>1, <1>4, <2>1, QueueSet DEF Inv, LinksInv
<1>9. LinksInv'
  BY <1>1, <1>2, <1>7, <1>8 DEF Inv, LinksInv
<1>10. QED
  BY <1>1, <1>9, LoginKept, WorldSame, ChannelSame DEF Inv

-----------------------------------------------------------------------------
(***************************************************************************)
(* The theorems.                                                           *)
(***************************************************************************)
LEMMA InitInv == Init => Inv
<1> SUFFICES ASSUME Init PROVE Inv
  OBVIOUS
<1> USE DEF Init, LinksInit, LoginInit, WorldInit, ChannelInit
<1>1. \A S : <<>> \in Seq(S)
  BY EmptySeq
<1>2. Started = {} /\ Len(login) = 0 /\ login \in Seq([account : Account, world : World])
  BY <1>1, EmptySeq DEF Started
<1>3. LinksInv
  BY <1>1, <1>2, Homes, BoundsAssumption DEF LinksInv, Carries
<1>4. LoginInv
  BY <1>1 DEF LoginInv
<1>5. WorldInv
  BY <1>2 DEF WorldInv, SocksInv, OneRecordPerAccount
<1>6. ChannelInv
  BY <1>1, <1>2 DEF ChannelInv, OneUserPerAccount
<1>7. QED
  BY <1>3, <1>4, <1>5, <1>6 DEF Inv

LEMMA NextInv == Inv /\ [Next]_vars => Inv'
<1> SUFFICES ASSUME Inv, [Next]_vars PROVE Inv'
  OBVIOUS
<1>1. CASE LoginStep
  BY <1>1, LoginSteps
<1>2. CASE WorldStep
  BY <1>2, WorldSteps
<1>3. CASE ChannelStep
  BY <1>3, ChannelSteps
<1>4. CASE \E s \in Session : EnterChannel(s)
  BY <1>4, EnterChannelStep
<1>5. CASE \E w \in World : Reconnect(w)
  BY <1>5, ReconnectStep
<1>6. CASE UNCHANGED vars
  <2>1. UNCHANGED <<linkVars, checked, enlisting, wsVars, gsVars>>
    BY <1>6 DEF vars, lsVars
  <2>2. LinksInv'
    BY <2>1, LinksKept DEF Inv, LinksInv, linkVars
  <2>3. QED
    BY <2>1, <2>2, LoginKept, WorldSame, ChannelSame DEF Inv, linkVars
<1>7. QED
  BY <1>1, <1>2, <1>3, <1>4, <1>5, <1>6 DEF Next

\* The inductive invariant holds in every reachable state.
THEOREM SessionInvariance == Spec => []Inv
  BY InitInv, NextInv, PTL DEF Spec

\* A world has at most one record of an account, whatever sessions the login server
\* has let through and whatever was lost or arrived late (Add_ACCOUNT,
\* cws_client.cpp:789).
THEOREM RecordSafety == Spec => []OneRecordPerAccount
<1>1. Inv => OneRecordPerAccount
  BY DEF Inv, WorldInv
<1>2. QED
  BY <1>1, SessionInvariance, PTL

\* A channel server has at most one registered user of an account, whenever the
\* world confirms it and whenever its socket closes (CUserLIST::Add_ACCOUNT).
THEOREM UserSafety == Spec => []OneUserPerAccount
<1>1. Inv => OneUserPerAccount
  BY DEF Inv, ChannelInv
<1>2. QED
  BY <1>1, SessionInvariance, PTL
=============================================================================
