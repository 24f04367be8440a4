------------------------- MODULE AccountLease_proofs ------------------------
(***************************************************************************)
(* The servers implement the lease of an account (module AccountLease), in *)
(* one world that keeps its connection to the login server and while       *)
(* nobody is kicked.                                                       *)
(*                                                                         *)
(* The proof follows one thing through the servers.  Between world and     *)
(* channel server it is the GS bit of the account's record: whoever may    *)
(* still have the character in memory (a confirmation on its way, a        *)
(* registered user, a user to be saved) has it, and it is given back by    *)
(* one packet, after which nobody may.  Between login server and world it  *)
(* is the entry of the JOIN list: a confirmation on its way and a record   *)
(* have it, and it is given back by one packet.                            *)
(***************************************************************************)
EXTENDS AccountJoin_proofs

-----------------------------------------------------------------------------
(***************************************************************************)
(* Packets of a kind in a queue: whether there is one, and at most one.    *)
(***************************************************************************)
Has(q, P) == \E k \in DOMAIN q : q[k] \in P
Single(q, P) == \A j, k \in DOMAIN q : q[j] \in P /\ q[k] \in P => j = k

LEMMA EmptyHasNone ==
    ASSUME NEW P
    PROVE  ~Has(<<>>, P) /\ Single(<<>>, P)
  BY DEF Has, Single

LEMMA HasAfterSend ==
    ASSUME NEW T, NEW q \in Seq(T), NEW p \in T, NEW P
    PROVE  /\ Has(Append(q, p), P) <=> Has(q, P) \/ p \in P
           /\ Single(q, P) /\ (p \in P => ~Has(q, P)) => Single(Append(q, p), P)
  <1>1. PICK n \in Nat : n = Len(q) /\ DOMAIN q = 1 .. n
    BY LenProperties
  <1>2. PICK r : r = Append(q, p)
    OBVIOUS
  <1>3. DOMAIN r = 1 .. n + 1 /\ r[n + 1] = p /\ \A k \in 1 .. n : r[k] = q[k]
    BY <1>1, <1>2, AppendProperties, LenProperties
  <1>4. \A k \in 1 .. n + 1 : k \in 1 .. n \/ k = n + 1
    BY <1>1
  <1>5. \A k \in 1 .. n : k \in 1 .. n + 1
    BY <1>1
  <1>6. n + 1 \in 1 .. n + 1
    BY <1>1
  <1>7. Has(r, P) <=> Has(q, P) \/ p \in P
    BY <1>1, <1>3, <1>4, <1>5, <1>6 DEF Has
  <1>8. ASSUME Single(q, P), p \in P => ~Has(q, P)
        PROVE  Single(r, P)
    <2> SUFFICES ASSUME NEW j \in DOMAIN r, NEW k \in DOMAIN r, r[j] \in P, r[k] \in P
                 PROVE  j = k
      BY DEF Single
    <2>1. CASE j \in 1 .. n /\ k \in 1 .. n
      BY <1>1, <1>3, <1>8, <2>1 DEF Single
    <2>2. CASE j = n + 1 \/ k = n + 1
      <3>1. p \in P
        BY <1>3, <2>2
      <3>2. \A i \in 1 .. n : q[i] \notin P
        BY <1>1, <1>8, <3>1 DEF Has
      <3>3. \A i \in 1 .. n : r[i] \notin P
        BY <1>3, <3>2
      <3> QED
        BY <1>3, <1>4, <3>3
    <2> QED
      BY <1>3, <1>4, <2>1, <2>2
  <1> QED
    BY <1>2, <1>7, <1>8

LEMMA HasAfterTake ==
    ASSUME NEW T, NEW q \in Seq(T), q # <<>>, NEW P
    PROVE  /\ Has(Tail(q), P) => Has(q, P)
           /\ Has(q, P) /\ Head(q) \notin P => Has(Tail(q), P)
           /\ Head(q) \in P => Has(q, P)
           /\ Single(q, P) => Single(Tail(q), P)
           /\ Single(q, P) /\ Head(q) \in P => ~Has(Tail(q), P)
  <1>1. PICK n \in Nat : n = Len(q) /\ DOMAIN q = 1 .. n
    BY LenProperties
  <1>2. PICK r : r = Tail(q)
    OBVIOUS
  <1>3. n # 0 /\ DOMAIN r = 1 .. n - 1 /\ \A k \in 1 .. n - 1 : r[k] = q[k + 1]
    BY <1>1, <1>2, HeadTailProperties, LenProperties
  <1>4. Head(q) = q[1] /\ 1 \in 1 .. n
    BY <1>1, <1>3, HeadTailProperties
  <1>5. \A k \in 1 .. n - 1 : k + 1 \in 1 .. n /\ k + 1 # 1
    BY <1>1
  <1>6. \A k \in 1 .. n : k = 1 \/ (k - 1 \in 1 .. n - 1 /\ (k - 1) + 1 = k)
    BY <1>1
  <1>7. Has(r, P) => Has(q, P)
    BY <1>1, <1>3, <1>5 DEF Has
  <1>8. Has(q, P) /\ Head(q) \notin P => Has(r, P)
    <2> SUFFICES ASSUME NEW k \in 1 .. n, q[k] \in P, q[1] \notin P
                 PROVE  Has(r, P)
      BY <1>1, <1>4 DEF Has
    <2>1. k - 1 \in 1 .. n - 1 /\ (k - 1) + 1 = k
      BY <1>6
    <2>2. r[k - 1] = q[k]
      BY <1>3, <2>1
    <2> QED
      BY <1>3, <2>1, <2>2 DEF Has
  <1>9. Head(q) \in P => Has(q, P)
    BY <1>1, <1>4 DEF Has
  <1>10. ASSUME Single(q, P)
         PROVE  Single(r, P)
    <2> SUFFICES ASSUME NEW j \in 1 .. n - 1, NEW k \in 1 .. n - 1, r[j] \in P, r[k] \in P
                 PROVE  j = k
      BY <1>3 DEF Single
    <2>1. q[j + 1] \in P /\ q[k + 1] \in P /\ j + 1 \in 1 .. n /\ k + 1 \in 1 .. n
      BY <1>3, <1>5
    <2>2. j + 1 = k + 1
      BY <1>1, <1>10, <2>1 DEF Single
    <2> QED
      BY <2>2
  <1>11. ASSUME Single(q, P), Head(q) \in P, NEW k \in 1 .. n - 1, r[k] \in P
         PROVE  FALSE
    <2>1. q[k + 1] \in P /\ k + 1 \in 1 .. n /\ k + 1 # 1
      BY <1>3, <1>5, <1>11
    <2> QED
      BY <1>1, <1>4, <1>11, <2>1 DEF Single
  <1> QED
    BY <1>2, <1>3, <1>7, <1>8, <1>9, <1>10, <1>11 DEF Has

\* The same for one queue of several.
LEMMA SentTo ==
    ASSUME NEW I, NEW T, NEW f \in [I -> Seq(T)], NEW v \in I, NEW p \in T, NEW g,
           g[v] = Append(f[v], p), \A i \in I : i # v => g[i] = f[i]
    PROVE  /\ \A i \in I : \A P : Has(g[i], P) <=> Has(f[i], P) \/ (i = v /\ p \in P)
           /\ \A i \in I : \A P : Single(f[i], P) /\ (i = v /\ p \in P => ~Has(f[i], P))
                                     => Single(g[i], P)
  <1>2. f[v] \in Seq(T)
    OBVIOUS
  <1>3. \A P : Has(g[v], P) <=> Has(f[v], P) \/ p \in P
    BY <1>2, HasAfterSend
  <1>4. \A P : Single(f[v], P) /\ (p \in P => ~Has(f[v], P)) => Single(g[v], P)
    BY <1>2, HasAfterSend
  <1> QED
    BY <1>3, <1>4

LEMMA TakenFrom ==
    ASSUME NEW I, NEW T, NEW f \in [I -> Seq(T)], NEW v \in I, f[v] # <<>>, NEW g,
           g[v] = Tail(f[v]), \A i \in I : i # v => g[i] = f[i]
    PROVE  /\ \A i \in I : \A P : Has(g[i], P) => Has(f[i], P)
           /\ \A i \in I : \A P : Has(f[i], P) /\ (i = v => Head(f[v]) \notin P)
                                     => Has(g[i], P)
           /\ \A i \in I : \A P : Single(f[i], P) => Single(g[i], P)
           /\ \A P : Head(f[v]) \in P => Has(f[v], P)
           /\ \A P : Single(f[v], P) /\ Head(f[v]) \in P => ~Has(g[v], P)
  <1>2. f[v] \in Seq(T)
    OBVIOUS
  <1>3. \A P : /\ Has(g[v], P) => Has(f[v], P)
               /\ Has(f[v], P) /\ Head(f[v]) \notin P => Has(g[v], P)
    BY <1>2, HasAfterTake
  <1>4. \A P : /\ Head(f[v]) \in P => Has(f[v], P)
               /\ Single(f[v], P) => Single(g[v], P)
    BY <1>2, HasAfterTake
  <1>5. \A P : Single(f[v], P) /\ Head(f[v]) \in P => ~Has(g[v], P)
    BY <1>2, HasAfterTake
  <1> QED
    BY <1>3, <1>4, <1>5

-----------------------------------------------------------------------------
(***************************************************************************)
(* The kinds of packets, and of users to be saved.                         *)
(***************************************************************************)
Results == {"ok", "already", "timeout", "failed"}
Modes == {"left", "charlist"}

Asks(s) == {ConfirmReq(s)}
Answers(s) == {ConfirmReply(r, s) : r \in Results}
Oks(s) == {ConfirmReply("ok", s)}
Subs(a) == {SubAccount(a)}
Changes(a) == {ChangeChar(a)}
Releases(a) == {SubAccount(a), ChangeChar(a)}
Items(s) == [lsid : {s}, mode : Modes, named : BOOLEAN]
Named(s) == [lsid : {s}, mode : Modes, named : {TRUE}]

\* Which packet is of which kind.
LEMMA KindsOfAsk ==
    ASSUME NEW s
    PROVE  /\ \A t : ConfirmReq(s) \in Asks(t) <=> s = t
           /\ \A t : ConfirmReq(s) \notin Answers(t) /\ ConfirmReq(s) \notin Oks(t)
           /\ \A a : /\ ConfirmReq(s) \notin Subs(a) /\ ConfirmReq(s) \notin Changes(a)
                     /\ ConfirmReq(s) \notin Releases(a)
  BY DEF Asks, Answers, Oks, Subs, Changes, Releases, ConfirmReq, ConfirmReply, SubAccount,
         ChangeChar

LEMMA KindsOfAnswer ==
    ASSUME NEW s, NEW r \in Results
    PROVE  /\ \A t : ConfirmReply(r, s) \in Answers(t) <=> s = t
           /\ \A t : ConfirmReply(r, s) \in Oks(t) <=> s = t /\ r = "ok"
           /\ \A t : ConfirmReply(r, s) \notin Asks(t)
           /\ \A a : /\ ConfirmReply(r, s) \notin Subs(a)
                     /\ ConfirmReply(r, s) \notin Changes(a)
                     /\ ConfirmReply(r, s) \notin Releases(a)
  BY DEF Asks, Answers, Oks, Subs, Changes, Releases, ConfirmReq, ConfirmReply, SubAccount,
         ChangeChar

LEMMA KindsOfSub ==
    ASSUME NEW a
    PROVE  /\ \A b : SubAccount(a) \in Subs(b) <=> a = b
           /\ \A b : SubAccount(a) \in Releases(b) <=> a = b
           /\ \A b : SubAccount(a) \notin Changes(b)
           /\ \A t : /\ SubAccount(a) \notin Asks(t) /\ SubAccount(a) \notin Answers(t)
                     /\ SubAccount(a) \notin Oks(t)
  BY DEF Asks, Answers, Oks, Subs, Changes, Releases, ConfirmReq, ConfirmReply, SubAccount,
         ChangeChar

LEMMA KindsOfChange ==
    ASSUME NEW a
    PROVE  /\ \A b : ChangeChar(a) \in Changes(b) <=> a = b
           /\ \A b : ChangeChar(a) \in Releases(b) <=> a = b
           /\ \A b : ChangeChar(a) \notin Subs(b)
           /\ \A t : /\ ChangeChar(a) \notin Asks(t) /\ ChangeChar(a) \notin Answers(t)
                     /\ ChangeChar(a) \notin Oks(t)
  BY DEF Asks, Answers, Oks, Subs, Changes, Releases, ConfirmReq, ConfirmReply, SubAccount,
         ChangeChar

LEMMA KindsOfKick ==
    ASSUME NEW a
    PROVE  /\ \A b : /\ KickAccount(a) \notin Subs(b) /\ KickAccount(a) \notin Changes(b)
                     /\ KickAccount(a) \notin Releases(b)
           /\ \A t : /\ KickAccount(a) \notin Asks(t) /\ KickAccount(a) \notin Answers(t)
                     /\ KickAccount(a) \notin Oks(t)
  BY DEF Asks, Answers, Oks, Subs, Changes, Releases, ConfirmReq, ConfirmReply, SubAccount,
         ChangeChar, KickAccount

\* A packet is the one its fields say.
LEMMA PacketIs ==
    ASSUME NEW p \in Packet
    PROVE  /\ p.type = "confirm" => p = ConfirmReq(p.lsid)
           /\ p.type = "reply" => p.result \in Results /\ p = ConfirmReply(p.result, p.lsid)
           /\ p.type = "sub" => p = SubAccount(p.account)
           /\ p.type = "kick" => p = KickAccount(p.account)
           /\ p.type = "change" => p = ChangeChar(p.account)
  BY DEF Packet, Results, ConfirmReq, ConfirmReply, SubAccount, KickAccount, ChangeChar

LEMMA KindsGrow ==
    ASSUME NEW q
    PROVE  /\ \A s : Has(q, Oks(s)) => Has(q, Answers(s))
           /\ \A s : Has(q, Named(s)) => Has(q, Items(s))
           /\ \A a : Has(q, Releases(a)) <=> Has(q, Subs(a)) \/ Has(q, Changes(a))
           /\ \A s : Single(q, Answers(s)) => Single(q, Oks(s))
  <1>1. \A s : Oks(s) \subseteq Answers(s)
    BY DEF Oks, Answers, Results
  <1>2. \A s : Named(s) \subseteq Items(s)
    BY DEF Named, Items
  <1>3. \A a : Releases(a) = Subs(a) \cup Changes(a)
    BY DEF Releases, Subs, Changes
  <1> QED
    BY <1>1, <1>2, <1>3 DEF Has, Single

-----------------------------------------------------------------------------
(***************************************************************************)
(* The seat of an account at a channel server: from the request to confirm *)
(* the session to the packet that gives the GS bit back.                   *)
(***************************************************************************)
Asked(s) == Has(gsToWs[WorldOf(s)], Asks(s))
Answered(s) == Has(wsToGs[WorldOf(s)], Answers(s))
Confirmed(s) == Has(wsToGs[WorldOf(s)], Oks(s))
ToSave(s) == Has(saveQ[WorldOf(s)], Named(s))

Pending(s) == Asked(s) \/ Answered(s)

\* The session may have its character in memory, or will soon.
Bound(s) == Confirmed(s) \/ user[s] = "registered" \/ ToSave(s)

\* The user of the session does not come back.
Over(s) == user[s] \in {"deleted", "gone"} /\ ~Pending(s) /\ ~ToSave(s)

\* The client has left the world server for the channel server.
Departed == {"away", "closing", "closed"}

Playing ==
    \A s \in Started :
        "GS" \in bits[s] \/ user[s] \in {"confirming", "registered", "deleted"} \/ Pending(s)
            => sock[s] \in Departed

\* One confirmation is under way at a time, for a user who waits for it or has gone.
Asking ==
    \A s \in Started :
        /\ Single(gsToWs[WorldOf(s)], Asks(s))
        /\ Single(wsToGs[WorldOf(s)], Answers(s))
        /\ ~(Asked(s) /\ Answered(s))
        /\ Pending(s) => user[s] \notin {"none", "registered"} /\ ~ToSave(s)

Backed ==
    \A s \in Started :
        Bound(s) => /\ "GS" \in bits[s]
                    /\ ~Has(gsToWs[WorldOf(s)], Releases(AccountOf(s)))

SeatOf(s, w, a) == WorldOf(s) = w /\ AccountOf(s) = a /\ "GS" \in bits[s]

\* The packet that gives the bit back finds the record it is meant for.
Releasing ==
    \A w \in World, a \in Account :
        /\ Single(gsToWs[w], Releases(a))
        /\ Has(gsToWs[w], Subs(a)) => \E s \in Started : SeatOf(s, w, a) /\ Over(s)
        /\ Has(gsToWs[w], Changes(a)) => \E s \in Started : SeatOf(s, w, a) /\ user[s] = "none"

Holding == \A s \in held : user[s] = "registered" \/ ToSave(s)

Seat == Playing /\ Asking /\ Backed /\ Releasing /\ Holding

\* A world has one record with the bit.
LEMMA OneSeat ==
    ASSUME Inv, NEW s \in Started, NEW t \in Started, SamePlace(s, t),
           bits[s] # {}, bits[t] # {}
    PROVE  s = t
  BY DEF Inv, WorldInv, OneRecordPerAccount

LEMMA QueueTypes ==
    ASSUME Typed
    PROVE  /\ gsToWs \in [World -> Seq(Packet)] /\ wsToGs \in [World -> Seq(Packet)]
           /\ saveQ \in [World -> Seq(Saves)]
           /\ \A s \in Started : /\ WorldOf(s) \in World /\ AccountOf(s) \in Account
                                 /\ s \in Session
  BY SessionFacts, StartedNumbers DEF Typed, Packets, Inv, ChannelInv

\* Users to be saved are deleted, and there once.
LEMMA SaveFacts ==
    ASSUME Typed, NEW s \in Started
    PROVE  /\ Single(saveQ[WorldOf(s)], Items(s))
           /\ Has(saveQ[WorldOf(s)], Items(s)) => user[s] = "deleted"
           /\ ToSave(s) => user[s] = "deleted"
  <1>1. \A i : i \in Items(s) => i.lsid = s
    BY DEF Items
  <1>2. PICK w \in World : w = WorldOf(s)
    BY QueueTypes
  <1>3. Single(saveQ[w], Items(s))
    BY <1>1 DEF Single, Typed, Leaving
  <1>4. Has(saveQ[w], Items(s)) => user[s] = "deleted"
    BY <1>1 DEF Has, Typed, Leaving
  <1> QED
    BY <1>2, <1>3, <1>4, KindsGrow DEF ToSave

-----------------------------------------------------------------------------
(***************************************************************************)
(* Nobody is kicked by the login server when no login is refused and no    *)
(* connection is made again.                                               *)
(***************************************************************************)
Kicks == {KickAccount(a) : a \in Account}

NoKicks == retries = 0 /\ \A c \in Conn : ~Has(toWs[c], Kicks)

LEMMA NotKicked ==
    ASSUME NoKicks, Typed, NEW w \in World, RecvKick(w), Current(w) \in Conn
    PROVE  FALSE
  <1>1. PICK q \in Seq(Packet) : q = toWs[Current(w)]
    BY DEF Typed, Packets
  <1>2. q # <<>> /\ Head(q).type = "kick" /\ ~Has(q, Kicks)
    BY <1>1 DEF RecvKick, Receives, NoKicks
  <1>3. PICK p \in Packet : p = Head(q)
    BY <1>1, <1>2, HeadTailProperties
  <1>4. p.account \in Account /\ p = KickAccount(p.account)
    BY <1>2, <1>3, PacketIs, PacketReads
  <1>5. Head(q) \in Kicks
    BY <1>3, <1>4 DEF Kicks
  <1> QED
    BY <1>1, <1>2, <1>5, HasAfterTake

LEMMA NoKickSent ==
    ASSUME NoKicks, Typed, NEW c \in Conn, NEW s \in Session, NEW r \in Results,
           toWs' = SendToWs(c, toWs, ConfirmReply(r, s)), UNCHANGED retries
    PROVE  NoKicks'
  <1>1. PICK p \in Packet : p = ConfirmReply(r, s)
    BY PacketForms DEF Results
  <1>2. p \notin Kicks
    BY <1>1 DEF Kicks, ConfirmReply, KickAccount
  <1>3. PICK g : g = [toWs EXCEPT ![c] = Append(@, p)]
    OBVIOUS
  <1>4. PICK f \in [Conn -> Seq(Packet)] : f = toWs
    BY DEF Typed, Packets
  <1>7. g[c] = Append(f[c], p) /\ \A d \in Conn : d # c => g[d] = f[d]
    BY <1>3, <1>4
  <1>8. \A d \in Conn : \A P : Has(g[d], P) <=> Has(f[d], P) \/ (d = c /\ p \in P)
    BY <1>7, SentTo
  <1>5. toWs' = toWs \/ toWs' = g
    BY <1>1, <1>3 DEF SendToWs
  <1>6. \A d \in Conn : ~Has(toWs'[d], Kicks)
    BY <1>2, <1>4, <1>5, <1>8 DEF NoKicks
  <1> QED
    BY <1>6 DEF NoKicks

LEMMA NoKickTaken ==
    ASSUME NoKicks, Typed, NEW c \in Conn, toWs[c] # <<>>,
           toWs' = [toWs EXCEPT ![c] = Tail(@)], UNCHANGED retries
    PROVE  NoKicks'
  <1>1. PICK f \in [Conn -> Seq(Packet)] : f = toWs
    BY DEF Typed, Packets
  <1>2. PICK g : g = [f EXCEPT ![c] = Tail(@)]
    OBVIOUS
  <1>3. /\ f[c] # <<>> /\ toWs' = g
        /\ g[c] = Tail(f[c]) /\ \A d \in Conn : d # c => g[d] = f[d]
    BY <1>1, <1>2
  <1>4. \A d \in Conn : \A P : Has(g[d], P) => Has(f[d], P)
    BY <1>3, TakenFrom
  <1> QED
    BY <1>1, <1>3, <1>4 DEF NoKicks

LEMMA NoKickStep ==
    ASSUME MaxLoss = 0, MaxRetry = 0, Steadily, NoKicks, [Next]_vars
    PROVE  NoKicks'
  <1>1. Typed /\ Quiet /\ Inv
    BY DEF Steadily, Typed
  <1>2. CASE UNCHANGED <<toWs, retries>>
    BY <1>2 DEF NoKicks
  <1>3. CASE LoginStep
    <2>1. \A c \in Conn : ~ServerClosed(c) /\ ~Enlist(c) /\ ~RecvAccountList(c)
      BY <1>1, NoLoss
    <2>2. \A a \in Account : ~LoginRefused(a)
      BY DEF NoKicks, LoginRefused
    <2>3. CASE \E c \in Conn : ConfirmCheck(c)
      <3>1. PICK c \in Conn : ConfirmCheck(c)
        BY <2>3
      <3>2. PICK s : s = Head(toLs[c]).lsid
        OBVIOUS
      <3>3. s \in Session
        <4>1. toLs[c] # <<>> /\ Head(toLs[c]).type = "confirm"
          BY <3>1 DEF ConfirmCheck, Receives
        <4>2. Head(toLs[c]) \in Packet
          BY <1>1, <4>1, TypedTake DEF Quiet
        <4> QED
          BY <3>2, <4>1, <4>2, PacketReads
      <3>4. \/ UNCHANGED toWs
            \/ \E r \in Results : toWs' = SendToWs(c, toWs, ConfirmReply(r, s))
        BY <3>1, <3>2 DEF ConfirmCheck, Results
      <3>5. UNCHANGED retries
        BY <3>1 DEF ConfirmCheck
      <3> QED
        BY <1>1, <1>2, <3>3, <3>4, <3>5, NoKickSent
    <2>4. CASE \E c \in Conn : ConfirmInsert(c)
      <3>1. PICK c \in Conn : ConfirmInsert(c)
        BY <2>4
      <3>2. PICK s : s = checked[c]
        OBVIOUS
      <3>3. s \in Session
        <4>1. s # 0 /\ s \in At(login, c[1])
          BY <1>1, <3>1, <3>2 DEF ConfirmInsert, Inv, LoginInv
        <4> QED
          BY <1>1, <4>1, ConnFacts, SessionFacts DEF Inv
      <3>4. UNCHANGED retries /\ toWs' = SendToWs(c, toWs, ConfirmReply("ok", s))
        BY <3>1, <3>2 DEF ConfirmInsert
      <3>5. "ok" \in Results
        BY DEF Results
      <3> QED
        BY <1>1, <3>3, <3>4, <3>5, NoKickSent
    <2>5. CASE \/ \E a \in Account : LoginAccepted(a)
               \/ \E a \in Account, w \in World : SelectServer(a, w)
               \/ \E s \in wait : WaitTimeout(s)
               \/ \E c \in Conn : RecvSubAccount(c)
               \/ DeleteAccount
      BY <1>2, <2>5 DEF LoginAccepted, SelectServer, WaitTimeout, RecvSubAccount,
                        DeleteAccount, linkVars
    <2> QED
      BY <1>3, <2>1, <2>2, <2>3, <2>4, <2>5 DEF LoginStep
  <1>4. CASE WorldStep
    <2>1. \A w \in World : ~LinkLost(w)
      BY <1>1, NoLoss
    <2>2. \A w \in World : Current(w) \in Conn
      BY <1>1, Steady DEF Conn, Inv
    <2>3. CASE \E w \in World : RecvConfirmReply(w)
      <3>1. PICK w \in World : RecvConfirmReply(w)
        BY <2>3
      <3>2. PICK c \in Conn : c = Current(w)
        BY <2>2
      <3>3. toWs[c] # <<>> /\ toWs' = [toWs EXCEPT ![c] = Tail(@)]
        BY <3>1, <3>2 DEF RecvConfirmReply, Receives
      <3>4. UNCHANGED retries
        BY <1>4 DEF WorldStep, lsVars
      <3> QED
        BY <1>1, <3>3, <3>4, NoKickTaken
    <2>4. \A w \in World : ~RecvKick(w)
      BY <1>1, <2>2, NotKicked
    <2>5. CASE \/ \E s \in Session : ClientJoins(s) \/ SelectChar(s) \/ ClientLeaves(s)
                                        \/ SocketClosed(s)
               \/ \E w \in World : RecvGsConfirm(w) \/ RecvGsSubAccount(w) \/ RecvChangeChar(w)
      <3>1. UNCHANGED retries
        BY <1>4 DEF WorldStep, lsVars
      <3>2. UNCHANGED toWs
        BY <2>5 DEF ClientJoins, SelectChar, ClientLeaves, SocketClosed, RecvGsConfirm,
                    RecvGsSubAccount, RecvChangeChar, linkVars
      <3> QED
        BY <1>2, <3>1, <3>2
    <2> QED
      BY <1>4, <2>1, <2>3, <2>4, <2>5 DEF WorldStep
  <1>5. CASE ChannelStep
    <2>1. UNCHANGED retries
      BY <1>5 DEF ChannelStep, lsVars
    <2>2. UNCHANGED toWs
      BY <1>5 DEF ChannelStep, UserLeaves, DeleteClosed, ChangeCharacter, DeleteUser,
                  RecvJoinReply, RecvGsKick, LoadCharacter, SaveUser, linkVars
    <2> QED
      BY <1>2, <2>1, <2>2
  <1>6. CASE \E s \in Session : EnterChannel(s)
    BY <1>2, <1>6 DEF EnterChannel, UserJoins, lsVars
  <1>7. \A w \in World : ~Reconnect(w)
    BY <1>1, NoLoss
  <1>8. CASE UNCHANGED vars
    BY <1>2, <1>8 DEF vars, lsVars, linkVars
  <1> QED
    BY <1>3, <1>4, <1>5, <1>6, <1>7, <1>8 DEF Next

-----------------------------------------------------------------------------
(***************************************************************************)
(* Steps that do not move a seat.                                          *)
(***************************************************************************)
LEMMA SeatKept ==
    ASSUME Seat, UNCHANGED <<login, gsToWs, saveQ, user>>,
           \A s \in Started :
               LET w == WorldOf(s) IN
               /\ Has(wsToGs'[w], Answers(s)) => Has(wsToGs[w], Answers(s))
               /\ Has(wsToGs'[w], Oks(s)) => Has(wsToGs[w], Oks(s))
               /\ Single(wsToGs[w], Answers(s)) => Single(wsToGs'[w], Answers(s))
               /\ "GS" \in bits'[s] <=> "GS" \in bits[s]
               /\ sock[s] \in Departed => sock'[s] \in Departed,
           \A s \in held' : s \in held \/ user[s] = "registered"
    PROVE  Seat'
  <1>1. Started' = Started /\ \A s : WorldOf(s)' = WorldOf(s) /\ AccountOf(s)' = AccountOf(s)
    BY DEF Started, WorldOf, AccountOf
  <1>2. \A s \in Started : /\ Asked(s)' <=> Asked(s)
                           /\ Answered(s)' => Answered(s)
                           /\ Confirmed(s)' => Confirmed(s)
                           /\ ToSave(s)' <=> ToSave(s)
    BY DEF Asked, Answered, Confirmed, ToSave, WorldOf
  <1>3. Playing'
    BY <1>1, <1>2 DEF Seat, Playing, Pending
  <1>4. Asking'
    <2> SUFFICES ASSUME NEW s \in Started
                 PROVE  /\ Single(gsToWs'[WorldOf(s)'], Asks(s))
                        /\ Single(wsToGs'[WorldOf(s)'], Answers(s))
                        /\ ~(Asked(s)' /\ Answered(s)')
                        /\ Asked(s)' \/ Answered(s)'
                              => user'[s] \notin {"none", "registered"} /\ ~ToSave(s)'
      BY <1>1 DEF Asking, Pending
    <2> QED
      BY <1>1, <1>2 DEF Seat, Asking, Pending
  <1>5. Backed'
    BY <1>1, <1>2 DEF Seat, Backed, Bound
  <1>6. \A s \in Started : Over(s) => Over(s)'
    BY <1>2 DEF Over, Pending
  <1>7. Releasing'
    BY <1>1, <1>6 DEF Seat, Releasing, SeatOf
  <1>8. Holding'
    BY DEF Seat, Holding, ToSave, WorldOf
  <1> QED
    BY <1>3, <1>4, <1>5, <1>7, <1>8 DEF Seat

\* A session that starts has no part in anything.
LEMMA SeatStarts ==
    ASSUME Typed, Seat, NEW a \in Account, NEW w \in World, SelectServer(a, w),
           UNCHANGED <<wsVars, gsVars>>
    PROVE  Seat'
  <1>1. PICK n : n = Len(login) + 1
    OBVIOUS
  <1>2. /\ Started' = Started \cup {n} /\ n \notin Started
        /\ \A s \in Started : AccountOf(s)' = AccountOf(s) /\ WorldOf(s)' = WorldOf(s)
    BY <1>1, SessionStarts DEF Typed
  <1>3. UNCHANGED <<gsToWs, wsToGs, saveQ, user, sock, bits, held>>
    BY DEF SelectServer, wsVars, gsVars
  <1>4. n \in Session
    BY <1>1, <1>2, SessionStarts DEF Typed
  <1>5. sock[n] = "none" /\ bits[n] = {} /\ user[n] = "none"
    BY <1>2, <1>4 DEF Typed, Inv, WorldInv, SocksInv, ChannelInv
  <1>6. \A v \in World : ~Has(gsToWs[v], Asks(n)) /\ ~Has(wsToGs[v], Answers(n))
    <2> SUFFICES ASSUME NEW v \in World
                 PROVE  ~Has(gsToWs[v], Asks(n)) /\ ~Has(wsToGs[v], Answers(n))
      OBVIOUS
    <2>1. n \notin At(login, v)
      BY <1>2 DEF At, Started
    <2>2. gsToWs[v] \in Seq(Mail(At(login, v))) /\ wsToGs[v] \in Seq(Mail(At(login, v)))
      BY Homes DEF Carries, Typed, Inv, LinksInv
    <2>3. \A k \in DOMAIN gsToWs[v] : gsToWs[v][k] \in Mail(At(login, v))
      BY <2>2, ElementOfSeq, LenProperties
    <2>4. \A k \in DOMAIN wsToGs[v] : wsToGs[v][k] \in Mail(At(login, v))
      BY <2>2, ElementOfSeq, LenProperties
    <2>5. ConfirmReq(n) \notin Mail(At(login, v))
      BY <2>1 DEF Mail, ConfirmReq
    <2>6. \A r : ConfirmReply(r, n) \notin Mail(At(login, v))
      BY <2>1 DEF Mail, ConfirmReply
    <2> QED
      BY <2>3, <2>4, <2>5, <2>6 DEF Has, Asks, Answers
  <1>7. \A v \in World : ~Has(saveQ[v], Items(n))
    BY <1>2, SavesTyped DEF Has, Items, Typed
  <1>8. WorldOf(n)' \in World
    <2>1. /\ login' = Append(login, [account |-> a, world |-> w])
          /\ login \in Seq([account : Account, world : World])
      BY DEF SelectServer, Typed, Inv, LinksInv
    <2>2. login'[n] = [account |-> a, world |-> w]
      BY <1>1, <2>1
    <2> QED
      BY <2>2 DEF WorldOf
  <1>9. \A s \in Started : /\ Asked(s)' <=> Asked(s)
                           /\ Answered(s)' <=> Answered(s)
                           /\ Confirmed(s)' <=> Confirmed(s)
                           /\ ToSave(s)' <=> ToSave(s)
    BY <1>2, <1>3 DEF Asked, Answered, Confirmed, ToSave
  <1>10. ~Asked(n)' /\ ~Answered(n)' /\ ~Confirmed(n)' /\ ~ToSave(n)'
    BY <1>3, <1>6, <1>7, <1>8, KindsGrow DEF Asked, Answered, Confirmed, ToSave
  <1>11. Playing'
    BY <1>2, <1>3, <1>5, <1>9, <1>10 DEF Seat, Playing, Pending
  <1>12. Asking'
    <2>1. ASSUME NEW s \in Started
          PROVE  /\ Single(gsToWs'[WorldOf(s)'], Asks(s))
                 /\ Single(wsToGs'[WorldOf(s)'], Answers(s))
                 /\ ~(Asked(s)' /\ Answered(s)')
                 /\ Asked(s)' \/ Answered(s)'
                       => user'[s] \notin {"none", "registered"} /\ ~ToSave(s)'
      BY <1>2, <1>3, <1>9 DEF Seat, Asking, Pending
    <2>2. Single(gsToWs'[WorldOf(n)'], Asks(n)) /\ Single(wsToGs'[WorldOf(n)'], Answers(n))
      BY <1>3, <1>6, <1>8 DEF Single, Has
    <2> QED
      BY <1>2, <1>10, <2>1, <2>2 DEF Asking, Pending
  <1>13. Backed'
    BY <1>2, <1>3, <1>5, <1>9, <1>10 DEF Seat, Backed, Bound
  <1>14. \A s \in Started : Over(s) => Over(s)'
    BY <1>3, <1>9 DEF Over, Pending
  <1>15. Releasing'
    <2>1. \A s \in Started : \A v, b : SeatOf(s, v, b) => SeatOf(s, v, b)'
      BY <1>2, <1>3 DEF SeatOf
    <2> QED
      BY <1>2, <1>3, <1>14, <2>1 DEF Seat, Releasing
  <1>16. Holding'
    <2>1. held \subseteq Started
      BY DEF Typed, Leaving
    <2> QED
      BY <1>3, <1>9, <2>1 DEF Seat, Holding
  <1> QED
    BY <1>11, <1>12, <1>13, <1>15, <1>16 DEF Seat

-----------------------------------------------------------------------------
(***************************************************************************)
(* What is sent and taken between a world and its channel server.          *)
(***************************************************************************)
LEMMA AskOf ==
    ASSUME Typed, NEW f, f \in {gsToWs, wsToGs}, NEW w \in World, f[w] # <<>>
    PROVE  /\ Head(f[w]) \in Packet
           /\ Head(f[w]).type \in {"confirm", "reply"} =>
                 /\ Head(f[w]).lsid \in Started
                 /\ WorldOf(Head(f[w]).lsid) = w
                 /\ AccountOf(Head(f[w]).lsid) \in Account
           /\ Head(f[w]).type \in {"sub", "kick", "change"} => Head(f[w]).account \in Account
  <1>1. f \in [World -> Seq(Packet)] /\ Carries(f, WorldHome(login))
    BY DEF Typed, Packets, Inv, LinksInv
  <1>2. Head(f[w]) \in Packet
    BY <1>1, TypedTake
  <1>3. Head(f[w]) \in Mail(At(login, w))
    BY <1>1, WorldTake
  <1>4. Head(f[w]).type \in {"confirm", "reply"} => Head(f[w]).lsid \in At(login, w)
    BY <1>3, MailReads
  <1> QED
    BY <1>2, <1>4, PacketReads, SessionFacts DEF Typed, Inv

LEMMA GsTaken ==
    ASSUME Typed, NEW w \in World, gsToWs[w] # <<>>,
           gsToWs' = [gsToWs EXCEPT ![w] = Tail(@)]
    PROVE  /\ \A i \in World : \A P : Has(gsToWs'[i], P) => Has(gsToWs[i], P)
           /\ \A i \in World : \A P :
                 Has(gsToWs[i], P) /\ (i = w => Head(gsToWs[w]) \notin P) => Has(gsToWs'[i], P)
           /\ \A i \in World : \A P : Single(gsToWs[i], P) => Single(gsToWs'[i], P)
           /\ \A P : Head(gsToWs[w]) \in P => Has(gsToWs[w], P)
           /\ \A P : Single(gsToWs[w], P) /\ Head(gsToWs[w]) \in P => ~Has(gsToWs'[w], P)
  <1>1. PICK f \in [World -> Seq(Packet)] : f = gsToWs
    BY DEF Typed, Packets
  <1>2. PICK g : g = gsToWs'
    OBVIOUS
  <1>3. f[w] # <<>> /\ g[w] = Tail(f[w]) /\ \A i \in World : i # w => g[i] = f[i]
    BY <1>1, <1>2
  <1>4. /\ \A i \in World : \A P : Has(g[i], P) => Has(f[i], P)
        /\ \A i \in World : \A P : Has(f[i], P) /\ (i = w => Head(f[w]) \notin P)
                                      => Has(g[i], P)
        /\ \A i \in World : \A P : Single(f[i], P) => Single(g[i], P)
        /\ \A P : Head(f[w]) \in P => Has(f[w], P)
        /\ \A P : Single(f[w], P) /\ Head(f[w]) \in P => ~Has(g[w], P)
    BY <1>3, TakenFrom
  <1> QED
    BY <1>1, <1>2, <1>4

LEMMA WsTaken ==
    ASSUME Typed, NEW w \in World, wsToGs[w] # <<>>,
           wsToGs' = [wsToGs EXCEPT ![w] = Tail(@)]
    PROVE  /\ \A i \in World : \A P : Has(wsToGs'[i], P) => Has(wsToGs[i], P)
           /\ \A i \in World : \A P : Single(wsToGs[i], P) => Single(wsToGs'[i], P)
           /\ \A P : Head(wsToGs[w]) \in P => Has(wsToGs[w], P)
           /\ \A P : Single(wsToGs[w], P) /\ Head(wsToGs[w]) \in P => ~Has(wsToGs'[w], P)
  <1>1. PICK f \in [World -> Seq(Packet)] : f = wsToGs
    BY DEF Typed, Packets
  <1>2. PICK g : g = wsToGs'
    OBVIOUS
  <1>3. f[w] # <<>> /\ g[w] = Tail(f[w]) /\ \A i \in World : i # w => g[i] = f[i]
    BY <1>1, <1>2
  <1>4. /\ \A i \in World : \A P : Has(g[i], P) => Has(f[i], P)
        /\ \A i \in World : \A P : Has(f[i], P) /\ (i = w => Head(f[w]) \notin P)
                                      => Has(g[i], P)
        /\ \A i \in World : \A P : Single(f[i], P) => Single(g[i], P)
        /\ \A P : Head(f[w]) \in P => Has(f[w], P)
        /\ \A P : Single(f[w], P) /\ Head(f[w]) \in P => ~Has(g[w], P)
    BY <1>3, TakenFrom
  <1> QED
    BY <1>1, <1>2, <1>4

LEMMA GsSent ==
    ASSUME Typed, NEW w \in World, NEW p \in Packet, SendToWorld(w, p)
    PROVE  /\ \A i \in World : \A P :
                 Has(gsToWs'[i], P) <=> Has(gsToWs[i], P) \/ (i = w /\ p \in P)
           /\ \A i \in World : \A P :
                 Single(gsToWs[i], P) /\ (i = w /\ p \in P => ~Has(gsToWs[i], P))
                    => Single(gsToWs'[i], P)
  <1>1. PICK f \in [World -> Seq(Packet)] : f = gsToWs
    BY DEF Typed, Packets
  <1>2. PICK g : g = gsToWs'
    OBVIOUS
  <1>3. g[w] = Append(f[w], p) /\ \A i \in World : i # w => g[i] = f[i]
    BY <1>1, <1>2 DEF SendToWorld
  <1>4. f[w] \in Seq(Packet)
    OBVIOUS
  <1>5. \A P : Has(g[w], P) <=> Has(f[w], P) \/ p \in P
    BY <1>3, <1>4, HasAfterSend
  <1>6. \A P : Single(f[w], P) /\ (p \in P => ~Has(f[w], P)) => Single(g[w], P)
    BY <1>3, <1>4, HasAfterSend
  <1> QED
    BY <1>1, <1>2, <1>3, <1>5, <1>6

LEMMA WsSent ==
    ASSUME Typed, NEW w \in World, NEW p \in Packet,
           wsToGs' = [wsToGs EXCEPT ![w] = Append(@, p)]
    PROVE  /\ \A i \in World : \A P :
                 Has(wsToGs'[i], P) <=> Has(wsToGs[i], P) \/ (i = w /\ p \in P)
           /\ \A i \in World : \A P :
                 Single(wsToGs[i], P) /\ (i = w /\ p \in P => ~Has(wsToGs[i], P))
                    => Single(wsToGs'[i], P)
  <1>1. PICK f \in [World -> Seq(Packet)] : f = wsToGs
    BY DEF Typed, Packets
  <1>2. PICK g : g = wsToGs'
    OBVIOUS
  <1>3. g[w] = Append(f[w], p) /\ \A i \in World : i # w => g[i] = f[i]
    BY <1>1, <1>2
  <1>4. f[w] \in Seq(Packet)
    OBVIOUS
  <1>5. \A P : Has(g[w], P) <=> Has(f[w], P) \/ p \in P
    BY <1>3, <1>4, HasAfterSend
  <1>6. \A P : Single(f[w], P) /\ (p \in P => ~Has(f[w], P)) => Single(g[w], P)
    BY <1>3, <1>4, HasAfterSend
  <1> QED
    BY <1>1, <1>2, <1>3, <1>5, <1>6

-----------------------------------------------------------------------------
(***************************************************************************)
(* The world server answers, and takes the bit back.                       *)
(***************************************************************************)
LEMMA SeatConfirm ==
    ASSUME Typed, Seat, NEW w \in World, RecvGsConfirm(w), UNCHANGED <<lsVars, gsVars>>
    PROVE  Seat'
  <1>1. /\ gsToWs[w] # <<>> /\ Head(gsToWs[w]).type = "confirm"
        /\ gsToWs' = [gsToWs EXCEPT ![w] = Tail(@)]
        /\ UNCHANGED <<sock, login, saveQ, user, held>>
    BY DEF RecvGsConfirm, Receives, gsVars
  <1>2. PICK s \in Started : /\ s = Head(gsToWs[w]).lsid /\ WorldOf(s) = w
                             /\ Head(gsToWs[w]) = ConfirmReq(s)
    <2>1. PICK f : f = gsToWs
      OBVIOUS
    <2>2. f[w] # <<>> /\ Head(f[w]).type = "confirm"
      BY <1>1, <2>1
    <2> QED
      BY <2>1, <2>2, AskOf, PacketIs
  <1>3. PICK ok \in BOOLEAN : ok <=> sock[s] # "closed" /\ "WS" \in bits[s]
    OBVIOUS
  <1>4. PICK r \in Results : r = IF ok THEN "ok" ELSE "failed"
    BY DEF Results
  <1>5. /\ bits' = IF ok THEN [bits EXCEPT ![s] = @ \cup {"GS"}] ELSE bits
        /\ wsToGs' = [wsToGs EXCEPT ![w] = Append(@, ConfirmReply(r, s))]
    BY <1>2, <1>3, <1>4 DEF RecvGsConfirm
  <1>6. PICK p \in Packet : p = ConfirmReply(r, s)
    BY QueueTypes, PacketForms DEF Results
  <1>7. /\ \A i \in World : \A P :
              Has(wsToGs'[i], P) <=> Has(wsToGs[i], P) \/ (i = w /\ p \in P)
        /\ \A i \in World : \A P :
              Single(wsToGs[i], P) /\ (i = w /\ p \in P => ~Has(wsToGs[i], P))
                 => Single(wsToGs'[i], P)
    BY <1>5, <1>6, WsSent
  <1>8. /\ \A i \in World : \A P : Has(gsToWs'[i], P) => Has(gsToWs[i], P)
        /\ \A i \in World : \A P :
              Has(gsToWs[i], P) /\ (i = w => Head(gsToWs[w]) \notin P) => Has(gsToWs'[i], P)
        /\ \A i \in World : \A P : Single(gsToWs[i], P) => Single(gsToWs'[i], P)
        /\ \A P : Head(gsToWs[w]) \in P => Has(gsToWs[w], P)
        /\ \A P : Single(gsToWs[w], P) /\ Head(gsToWs[w]) \in P => ~Has(gsToWs'[w], P)
    BY <1>1, GsTaken
  <1>9. /\ \A t : p \in Answers(t) <=> s = t
        /\ \A t : p \in Oks(t) <=> s = t /\ ok
    BY <1>4, <1>6, KindsOfAnswer
  <1>10. \A t : Head(gsToWs[w]) \in Asks(t) <=> s = t
    BY <1>2, KindsOfAsk
  <1>11. /\ Started' = Started
         /\ \A t : WorldOf(t)' = WorldOf(t) /\ AccountOf(t)' = AccountOf(t)
    BY <1>1 DEF Started, WorldOf, AccountOf
  <1>12. /\ Asked(s) /\ ~Answered(s)
         /\ user[s] \notin {"none", "registered"} /\ ~ToSave(s) /\ sock[s] \in Departed
    BY <1>2, <1>8, <1>10 DEF Seat, Asking, Playing, Asked, Pending
  <1>13. ~Asked(s)' /\ Answered(s)' /\ (Confirmed(s)' <=> ok)
    <2>1. Single(gsToWs[w], Asks(s)) /\ ~Confirmed(s)
      BY <1>2, <1>12, KindsGrow, QueueTypes DEF Seat, Asking, Answered, Confirmed
    <2>2. ~Has(gsToWs'[w], Asks(s))
      BY <1>8, <1>10, <2>1
    <2>3. Has(wsToGs'[w], Answers(s)) /\ (Has(wsToGs'[w], Oks(s)) <=> ok)
      BY <1>2, <1>7, <1>9, <2>1 DEF Confirmed
    <2> QED
      BY <1>2, <1>11, <2>2, <2>3 DEF Asked, Answered, Confirmed
  <1>14. \A t \in Started : t # s => /\ Asked(t)' <=> Asked(t)
                                     /\ Answered(t)' <=> Answered(t)
                                     /\ Confirmed(t)' <=> Confirmed(t)
    BY <1>7, <1>8, <1>9, <1>10, <1>11, QueueTypes DEF Asked, Answered, Confirmed
  <1>15. \A t \in Started : ToSave(t)' <=> ToSave(t)
    BY <1>1, <1>11 DEF ToSave
  <1>16. \A t \in Started : /\ "GS" \in bits[t] => "GS" \in bits'[t]
                            /\ "GS" \in bits'[t] => "GS" \in bits[t] \/ (t = s /\ ok)
    BY <1>5, QueueTypes DEF Typed, Inv, WorldInv
  <1>17. ok => "GS" \in bits'[s]
    BY <1>5, QueueTypes DEF Typed, Inv, WorldInv
  <1>18. ok => ~Has(gsToWs[w], Releases(AccountOf(s)))
    <2> SUFFICES ASSUME ok, Has(gsToWs[w], Releases(AccountOf(s)))
                 PROVE  FALSE
      OBVIOUS
    <2>1. PICK t \in Started : /\ SeatOf(t, w, AccountOf(s))
                               /\ Over(t) \/ user[t] = "none"
      BY QueueTypes, KindsGrow DEF Seat, Releasing
    <2>2. bits[t] # {} /\ bits[s] # {} /\ SamePlace(s, t)
      BY <1>2, <1>3, <2>1 DEF SeatOf, SamePlace, SameAccount
    <2>3. t = s
      BY <2>2, OneSeat DEF Typed
    <2> QED
      BY <1>12, <2>1, <2>3 DEF Over, Pending
  <1>19. Playing'
    BY <1>1, <1>11, <1>12, <1>14, <1>16 DEF Seat, Playing, Pending
  <1>20. Asking'
    <2> SUFFICES ASSUME NEW t \in Started
                 PROVE  /\ Single(gsToWs'[WorldOf(t)'], Asks(t))
                        /\ Single(wsToGs'[WorldOf(t)'], Answers(t))
                        /\ ~(Asked(t)' /\ Answered(t)')
                        /\ Asked(t)' \/ Answered(t)'
                              => user'[t] \notin {"none", "registered"} /\ ~ToSave(t)'
      BY <1>11 DEF Asking, Pending
    <2>1. Single(gsToWs'[WorldOf(t)'], Asks(t))
      BY <1>8, <1>11, QueueTypes DEF Seat, Asking
    <2>2. Single(wsToGs'[WorldOf(t)'], Answers(t))
      BY <1>2, <1>7, <1>9, <1>11, <1>12, QueueTypes DEF Seat, Asking, Answered
    <2>3. ~(Asked(t)' /\ Answered(t)')
      BY <1>13, <1>14 DEF Seat, Asking
    <2>4. Asked(t)' \/ Answered(t)' => user'[t] \notin {"none", "registered"} /\ ~ToSave(t)'
      BY <1>1, <1>12, <1>14, <1>15 DEF Seat, Asking, Pending
    <2> QED
      BY <2>1, <2>2, <2>3, <2>4
  <1>21. Backed'
    <2> SUFFICES ASSUME NEW t \in Started,
                        Confirmed(t)' \/ user'[t] = "registered" \/ ToSave(t)'
                 PROVE  /\ "GS" \in bits'[t]
                        /\ ~Has(gsToWs'[WorldOf(t)], Releases(AccountOf(t)))
      BY <1>11 DEF Backed, Bound
    <2>1. CASE t = s
      BY <1>1, <1>2, <1>8, <1>12, <1>13, <1>15, <1>17, <1>18, <2>1
    <2>2. CASE t # s
      BY <1>1, <1>8, <1>14, <1>15, <1>16, <2>2, QueueTypes DEF Seat, Backed, Bound
    <2> QED
      BY <2>1, <2>2
  <1>22. \A t \in Started : Over(t) => Over(t)'
    BY <1>1, <1>12, <1>14, <1>15 DEF Over, Pending
  <1>23. Releasing'
    <2>1. \A t \in Started : \A v, b : SeatOf(t, v, b) => SeatOf(t, v, b)'
      BY <1>11, <1>16 DEF SeatOf
    <2> QED
      BY <1>1, <1>8, <1>11, <1>22, <2>1 DEF Seat, Releasing
  <1>24. Holding'
    <2>1. held \subseteq Started
      BY DEF Typed, Leaving
    <2> QED
      BY <1>1, <1>15, <2>1 DEF Seat, Holding
  <1> QED
    BY <1>19, <1>20, <1>21, <1>23, <1>24 DEF Seat

\* The record that is to lose the bit is that of a session which nobody plays any more.
LEMMA SeatBack ==
    ASSUME Typed, Seat, NEW w \in World, NEW s \in Started, gsToWs[w] # <<>>,
           Head(gsToWs[w]) \in Releases(AccountOf(s)),
           gsToWs' = [gsToWs EXCEPT ![w] = Tail(@)],
           UNCHANGED <<login, wsToGs, saveQ, user, held>>,
           SeatOf(s, w, AccountOf(s)), Over(s) \/ user[s] = "none",
           \A t \in Started : t # s => bits'[t] = bits[t],
           \A t \in Started : \/ sock[t] \in Departed => sock'[t] \in Departed
                              \/ t = s /\ user[s] = "none" /\ "GS" \notin bits'[s]
    PROVE  Seat'
  <1>1. PICK a \in Account : a = AccountOf(s)
    BY QueueTypes
  <1>2. /\ \A i \in World : \A P : Has(gsToWs'[i], P) => Has(gsToWs[i], P)
        /\ \A i \in World : \A P :
              Has(gsToWs[i], P) /\ (i = w => Head(gsToWs[w]) \notin P) => Has(gsToWs'[i], P)
        /\ \A i \in World : \A P : Single(gsToWs[i], P) => Single(gsToWs'[i], P)
        /\ \A P : Head(gsToWs[w]) \in P => Has(gsToWs[w], P)
        /\ \A P : Single(gsToWs[w], P) /\ Head(gsToWs[w]) \in P => ~Has(gsToWs'[w], P)
    BY GsTaken
  <1>3. ~Has(gsToWs'[w], Releases(a))
    BY <1>1, <1>2 DEF Seat, Releasing
  <1>4. \A t : Head(gsToWs[w]) \notin Asks(t)
    BY DEF Releases, Asks, SubAccount, ChangeChar, ConfirmReq
  <1>5. /\ Started' = Started
        /\ \A t : WorldOf(t)' = WorldOf(t) /\ AccountOf(t)' = AccountOf(t)
    BY DEF Started, WorldOf, AccountOf
  <1>6. \A t \in Started : /\ Asked(t)' <=> Asked(t)
                           /\ Answered(t)' <=> Answered(t)
                           /\ Confirmed(t)' <=> Confirmed(t)
                           /\ ToSave(t)' <=> ToSave(t)
    BY <1>2, <1>4, <1>5, QueueTypes DEF Asked, Answered, Confirmed, ToSave
  <1>7. ~Confirmed(s) /\ user[s] # "registered" /\ ~ToSave(s)
    <2>1. Confirmed(s) => Answered(s)
      BY KindsGrow DEF Confirmed, Answered
    <2>2. ToSave(s) => user[s] = "deleted"
      BY SaveFacts
    <2> QED
      BY <2>1, <2>2 DEF Over, Pending, Seat, Asking
  <1>8. Playing'
    <2> SUFFICES ASSUME NEW t \in Started,
                        \/ "GS" \in bits'[t]
                        \/ user[t] \in {"confirming", "registered", "deleted"}
                        \/ Pending(t)
                 PROVE  sock'[t] \in Departed
      BY <1>5, <1>6 DEF Playing, Pending
    <2>1. CASE t # s
      BY <2>1 DEF Seat, Playing
    <2>2. CASE t = s
      BY <2>2 DEF Seat, Playing, Asking, SeatOf
    <2> QED
      BY <2>1, <2>2
  <1>9. Asking'
    <2> SUFFICES ASSUME NEW t \in Started
                 PROVE  /\ Single(gsToWs'[WorldOf(t)'], Asks(t))
                        /\ Single(wsToGs'[WorldOf(t)'], Answers(t))
                        /\ ~(Asked(t)' /\ Answered(t)')
                        /\ Asked(t)' \/ Answered(t)'
                              => user'[t] \notin {"none", "registered"} /\ ~ToSave(t)'
      BY <1>5 DEF Asking, Pending
    <2>1. Single(gsToWs'[WorldOf(t)'], Asks(t))
      BY <1>2, <1>5, QueueTypes DEF Seat, Asking
    <2> QED
      BY <1>5, <1>6, <2>1 DEF Seat, Asking, Pending
  <1>10. Backed'
    <2> SUFFICES ASSUME NEW t \in Started,
                        Confirmed(t) \/ user[t] = "registered" \/ ToSave(t)
                 PROVE  /\ "GS" \in bits'[t]
                        /\ ~Has(gsToWs'[WorldOf(t)], Releases(AccountOf(t)))
      BY <1>5, <1>6 DEF Backed, Bound
    <2>1. t # s
      BY <1>7
    <2> QED
      BY <1>2, <2>1, QueueTypes DEF Seat, Backed, Bound
  <1>11. \A t \in Started : Over(t) => Over(t)'
    BY <1>6 DEF Over, Pending
  <1>12. Releasing'
    <2>1. \A t \in Started : \A v, b : t # s /\ SeatOf(t, v, b) => SeatOf(t, v, b)'
      BY <1>5 DEF SeatOf
    <2> SUFFICES ASSUME NEW v \in World, NEW b \in Account
                 PROVE  /\ Single(gsToWs'[v], Releases(b))
                        /\ Has(gsToWs'[v], Subs(b)) =>
                              \E t \in Started : SeatOf(t, v, b)' /\ Over(t)'
                        /\ Has(gsToWs'[v], Changes(b)) =>
                              \E t \in Started : SeatOf(t, v, b)' /\ user'[t] = "none"
      BY <1>5 DEF Releasing
    <2>2. Single(gsToWs'[v], Releases(b))
      BY <1>2 DEF Seat, Releasing
    <2>3. CASE v = w /\ b = a
      <3>1. ~Has(gsToWs'[v], Subs(b)) /\ ~Has(gsToWs'[v], Changes(b))
        BY <1>3, <2>3, KindsGrow
      <3> QED
        BY <2>2, <3>1
    <2>4. CASE v # w \/ b # a
      <3>1. \A t : SeatOf(t, v, b) => t # s
        BY <1>1, <2>4 DEF SeatOf
      <3>2. /\ Has(gsToWs'[v], Subs(b)) => Has(gsToWs[v], Subs(b))
            /\ Has(gsToWs'[v], Changes(b)) => Has(gsToWs[v], Changes(b))
        BY <1>2
      <3> QED
        BY <1>11, <2>1, <2>2, <3>1, <3>2 DEF Seat, Releasing
    <2> QED
      BY <2>3, <2>4
  <1>13. Holding'
    BY <1>6 DEF Seat, Holding, ToSave, WorldOf
  <1> QED
    BY <1>8, <1>9, <1>10, <1>12, <1>13 DEF Seat

LEMMA SeatSub ==
    ASSUME Typed, Seat, NEW w \in World, RecvGsSubAccount(w), UNCHANGED <<lsVars, gsVars>>
    PROVE  Seat'
  <1>1. PICK p \in Packet : p = Head(gsToWs[w])
    <2>1. PICK f : f = gsToWs
      OBVIOUS
    <2>2. f[w] # <<>>
      BY <2>1 DEF RecvGsSubAccount, Receives
    <2> QED
      BY <2>1, <2>2, AskOf
  <1>2. PICK a \in Account : p = SubAccount(a) /\ a = p.account
    BY <1>1, PacketIs, PacketReads DEF RecvGsSubAccount, Receives
  <1>3. /\ gsToWs[w] # <<>>
        /\ gsToWs' = [gsToWs EXCEPT ![w] = Tail(@)]
        /\ DelAccount(w, a, "GS", sock, wsToGs)
        /\ UNCHANGED <<login, saveQ, user, held>>
    BY <1>1, <1>2 DEF RecvGsSubAccount, Receives, gsVars
  <1>4. Has(gsToWs[w], Subs(a))
    <2>1. Head(gsToWs[w]) \in Subs(a)
      BY <1>1, <1>2 DEF Subs
    <2> QED
      BY <1>3, <2>1, GsTaken
  <1>5. PICK s \in Started : SeatOf(s, w, a) /\ Over(s)
    BY <1>4 DEF Seat, Releasing
  <1>6. s \in Records(w, a)
    BY <1>5 DEF Records, SeatOf
  <1>7. \A t \in Records(w, a) : t = s
    BY <1>5, <1>6, OneSeat DEF Records, SamePlace, SameAccount, Typed
  <1>8. PICK left : left = bits[s] \ {"GS"}
    OBVIOUS
  <1>9. /\ bits' = [bits EXCEPT ![s] = IF DeletedBy(left) THEN {} ELSE left]
        /\ sock' = IF "WS" \in left THEN Close(s, sock) ELSE sock
        /\ wsToGs' = IF left = {"GS"}
                        THEN [wsToGs EXCEPT ![w] = Append(@, KickAccount(a))]
                        ELSE wsToGs
    BY <1>3, <1>6, <1>7, <1>8 DEF DelAccount
  <1>10. /\ UNCHANGED wsToGs
         /\ "GS" \notin bits'[s]
         /\ \A t \in Started : t # s => bits'[t] = bits[t]
    BY <1>8, <1>9, QueueTypes DEF Typed, Inv, WorldInv
  <1>11. \A t \in Started : sock[t] \in Departed => sock'[t] \in Departed
    BY <1>9, QueueTypes DEF Close, Departed, Connected, Typed, Inv, WorldInv, SocksInv
  <1>12. Head(gsToWs[w]) \in Releases(AccountOf(s)) /\ SeatOf(s, w, AccountOf(s))
    BY <1>1, <1>2, <1>5 DEF Releases, SeatOf
  <1> QED
    BY <1>3, <1>5, <1>10, <1>11, <1>12, SeatBack

LEMMA SeatChange ==
    ASSUME Typed, Seat, NEW w \in World, RecvChangeChar(w), UNCHANGED <<lsVars, gsVars>>
    PROVE  Seat'
  <1>1. PICK p \in Packet : p = Head(gsToWs[w])
    <2>1. PICK f : f = gsToWs
      OBVIOUS
    <2>2. f[w] # <<>>
      BY <2>1 DEF RecvChangeChar, Receives
    <2> QED
      BY <2>1, <2>2, AskOf
  <1>2. PICK a \in Account : p = ChangeChar(a) /\ a = p.account
    BY <1>1, PacketIs, PacketReads DEF RecvChangeChar, Receives
  <1>3. PICK here : here = {s \in Records(w, a) : "WS" \in bits[s]}
    OBVIOUS
  <1>4. /\ gsToWs[w] # <<>>
        /\ gsToWs' = [gsToWs EXCEPT ![w] = Tail(@)]
        /\ UNCHANGED <<login, wsToGs, saveQ, user, held>>
        /\ \/ here = {} /\ UNCHANGED wsVars
           \/ \E s \in here :
                 /\ bits' = [bits EXCEPT ![s] = @ \ {"GS"}]
                 /\ sock' = IF sock[s] = "away" THEN [sock EXCEPT ![s] = "joined"] ELSE sock
    BY <1>1, <1>2, <1>3 DEF RecvChangeChar, Receives, gsVars
  <1>5. Has(gsToWs[w], Changes(a))
    <2>1. Head(gsToWs[w]) \in Changes(a)
      BY <1>1, <1>2 DEF Changes
    <2> QED
      BY <1>4, <2>1, GsTaken
  <1>6. PICK s \in Started : SeatOf(s, w, a) /\ user[s] = "none"
    BY <1>5 DEF Seat, Releasing
  <1>7. Head(gsToWs[w]) \in Releases(AccountOf(s)) /\ SeatOf(s, w, AccountOf(s))
    BY <1>1, <1>2, <1>6 DEF Releases, SeatOf
  <1>8. CASE \E t \in here :
                 /\ bits' = [bits EXCEPT ![t] = @ \ {"GS"}]
                 /\ sock' = IF sock[t] = "away" THEN [sock EXCEPT ![t] = "joined"] ELSE sock
    <2>1. \A t \in here : t = s
      BY <1>3, <1>6, OneSeat DEF Records, SeatOf, SamePlace, SameAccount, Typed
    <2>2. /\ bits' = [bits EXCEPT ![s] = @ \ {"GS"}]
          /\ sock' = IF sock[s] = "away" THEN [sock EXCEPT ![s] = "joined"] ELSE sock
      BY <1>8, <2>1
    <2>3. /\ "GS" \notin bits'[s]
          /\ \A t \in Started : t # s => bits'[t] = bits[t] /\ sock'[t] = sock[t]
      BY <2>2, QueueTypes DEF Typed, Inv, WorldInv
    <2> QED
      BY <1>4, <1>6, <1>7, <2>3, SeatBack
  <1>9. CASE UNCHANGED wsVars
    \* The client has gone, and the record keeps the bit.
    <2>1. UNCHANGED <<bits, sock>>
      BY <1>9 DEF wsVars
    <2> QED
      BY <1>4, <1>6, <1>7, <2>1, SeatBack
  <1> QED
    BY <1>4, <1>8, <1>9

-----------------------------------------------------------------------------
(***************************************************************************)
(* The channel server asks, registers, and gives the bit back.             *)
(***************************************************************************)

\* The seat of s is given back: nobody plays the session after this step.
LEMMA SeatGiven ==
    ASSUME Typed, Seat, NEW w \in World, NEW s \in Started, WorldOf(s) = w,
           NEW p \in {SubAccount(AccountOf(s)), ChangeChar(AccountOf(s))},
           SendToWorld(w, p), UNCHANGED <<login, bits, sock>>,
           Bound(s),
           ~Asked(s), ~Has(wsToGs'[w], Answers(s)), ~Has(saveQ'[w], Named(s)),
           \A t \in Started : /\ Has(wsToGs'[WorldOf(t)], Answers(t)) => Answered(t)
                              /\ Has(wsToGs'[WorldOf(t)], Oks(t)) => Confirmed(t)
                              /\ Single(wsToGs'[WorldOf(t)], Answers(t))
                              /\ t # s => (Has(saveQ'[WorldOf(t)], Named(t)) <=> ToSave(t))
                              /\ t # s => user'[t] = user[t],
           \/ p = SubAccount(AccountOf(s)) /\ user'[s] \in {"deleted", "gone"}
           \/ p = ChangeChar(AccountOf(s)) /\ user'[s] = "none",
           held' \subseteq held, s \notin held'
    PROVE  Seat'
  <1>1. PICK a \in Account : a = AccountOf(s)
    BY QueueTypes
  <1>2. p \in Packet
    BY <1>1, PacketForms
  <1>3. /\ \A i \in World : \A P :
              Has(gsToWs'[i], P) <=> Has(gsToWs[i], P) \/ (i = w /\ p \in P)
        /\ \A i \in World : \A P :
              Single(gsToWs[i], P) /\ (i = w /\ p \in P => ~Has(gsToWs[i], P))
                 => Single(gsToWs'[i], P)
    BY <1>2, GsSent
  <1>4. \A t : p \notin Asks(t)
    BY DEF Asks, SubAccount, ChangeChar, ConfirmReq
  <1>5. /\ \A b : p \in Releases(b) <=> a = b
        /\ \A b : p \in Subs(b) => a = b /\ p = SubAccount(a)
        /\ \A b : p \in Changes(b) => a = b /\ p = ChangeChar(a)
    BY <1>1, KindsOfSub, KindsOfChange
  <1>6. SubAccount(a) # ChangeChar(a)
    BY DEF SubAccount, ChangeChar
  <1>7. /\ Started' = Started
        /\ \A t : WorldOf(t)' = WorldOf(t) /\ AccountOf(t)' = AccountOf(t)
    BY DEF Started, WorldOf, AccountOf
  <1>8. \A t \in Started : /\ Asked(t)' <=> Asked(t)
                           /\ Answered(t)' => Answered(t)
                           /\ Confirmed(t)' => Confirmed(t)
                           /\ t # s => (ToSave(t)' <=> ToSave(t))
    BY <1>3, <1>4, <1>7, QueueTypes DEF Asked, Answered, Confirmed, ToSave
  <1>9. ~Asked(s)' /\ ~Answered(s)' /\ ~Confirmed(s)' /\ ~ToSave(s)'
    <2>1. ~Has(wsToGs'[w], Oks(s))
      BY KindsGrow
    <2> QED
      BY <1>7, <1>8, <2>1 DEF Answered, Confirmed, ToSave
  <1>10. "GS" \in bits[s] /\ ~Has(gsToWs[w], Releases(a)) /\ sock[s] \in Departed
    BY <1>1 DEF Seat, Backed, Playing
  <1>11. Playing'
    BY <1>7, <1>8, <1>10 DEF Seat, Playing, Pending
  <1>12. Asking'
    <2> SUFFICES ASSUME NEW t \in Started
                 PROVE  /\ Single(gsToWs'[WorldOf(t)'], Asks(t))
                        /\ Single(wsToGs'[WorldOf(t)'], Answers(t))
                        /\ ~(Asked(t)' /\ Answered(t)')
                        /\ Asked(t)' \/ Answered(t)'
                              => user'[t] \notin {"none", "registered"} /\ ~ToSave(t)'
      BY <1>7 DEF Asking, Pending
    <2>1. Single(gsToWs'[WorldOf(t)'], Asks(t))
      BY <1>3, <1>4, <1>7, QueueTypes DEF Seat, Asking
    <2> QED
      BY <1>7, <1>8, <1>9, <2>1 DEF Seat, Asking, Pending
  <1>13. user'[s] # "registered"
    OBVIOUS
  <1>14. Backed'
    <2> SUFFICES ASSUME NEW t \in Started,
                        Confirmed(t)' \/ user'[t] = "registered" \/ ToSave(t)'
                 PROVE  /\ "GS" \in bits'[t]
                        /\ ~Has(gsToWs'[WorldOf(t)], Releases(AccountOf(t)))
      BY <1>7 DEF Backed, Bound
    <2>1. t # s /\ Bound(t)
      BY <1>8, <1>9, <1>13 DEF Bound
    <2>2. "GS" \in bits[t] /\ ~Has(gsToWs[WorldOf(t)], Releases(AccountOf(t)))
      BY <2>1 DEF Seat, Backed
    <2>3. WorldOf(t) # w \/ AccountOf(t) # a
      BY <1>1, <1>10, <2>1, <2>2, OneSeat DEF SamePlace, SameAccount, Typed
    <2> QED
      BY <1>3, <1>5, <2>2, <2>3, QueueTypes
  <1>15. \A t \in Started : t # s /\ Over(t) => Over(t)'
    BY <1>8 DEF Over, Pending
  <1>16. user'[s] # "none" => Over(s)'
    BY <1>9 DEF Over, Pending
  <1>17. Releasing'
    <2>1. \A t \in Started : \A v, b : SeatOf(t, v, b) => SeatOf(t, v, b)'
      BY <1>7 DEF SeatOf
    <2> SUFFICES ASSUME NEW v \in World, NEW b \in Account
                 PROVE  /\ Single(gsToWs'[v], Releases(b))
                        /\ Has(gsToWs'[v], Subs(b)) =>
                              \E t \in Started : SeatOf(t, v, b)' /\ Over(t)'
                        /\ Has(gsToWs'[v], Changes(b)) =>
                              \E t \in Started : SeatOf(t, v, b)' /\ user'[t] = "none"
      BY <1>7 DEF Releasing
    <2>2. Single(gsToWs'[v], Releases(b))
      BY <1>3, <1>5, <1>10 DEF Seat, Releasing
    <2>3. CASE v = w /\ b = a
      <3>1. ~Has(gsToWs[v], Subs(b)) /\ ~Has(gsToWs[v], Changes(b))
        BY <1>10, <2>3, KindsGrow
      <3>2. SeatOf(s, v, b)'
        BY <1>1, <1>10, <2>1, <2>3 DEF SeatOf
      <3>3. Has(gsToWs'[v], Subs(b)) => p = SubAccount(a)
        BY <1>3, <1>5, <3>1
      <3>4. Has(gsToWs'[v], Changes(b)) => p = ChangeChar(a)
        BY <1>3, <1>5, <3>1
      <3>5. Has(gsToWs'[v], Subs(b)) => Over(s)'
        BY <1>1, <1>6, <1>16, <3>3
      <3>6. Has(gsToWs'[v], Changes(b)) => user'[s] = "none"
        BY <1>1, <1>6, <3>4
      <3> QED
        BY <2>2, <3>2, <3>5, <3>6
    <2>4. CASE v # w \/ b # a
      <3>1. \A t : SeatOf(t, v, b) => t # s
        BY <1>1, <2>4 DEF SeatOf
      <3>2. /\ Has(gsToWs'[v], Subs(b)) => Has(gsToWs[v], Subs(b))
            /\ Has(gsToWs'[v], Changes(b)) => Has(gsToWs[v], Changes(b))
        BY <1>3, <1>5, <2>4
      <3>3. Has(gsToWs'[v], Subs(b)) => \E t \in Started : SeatOf(t, v, b)' /\ Over(t)'
        BY <1>15, <2>1, <3>1, <3>2 DEF Seat, Releasing
      <3>4. Has(gsToWs'[v], Changes(b))
               => \E t \in Started : SeatOf(t, v, b)' /\ user'[t] = "none"
        BY <2>1, <3>1, <3>2 DEF Seat, Releasing
      <3> QED
        BY <2>2, <3>3, <3>4
    <2> QED
      BY <2>3, <2>4
  <1>18. Holding'
    <2>1. held \subseteq Started
      BY DEF Typed, Leaving
    <2> QED
      BY <1>8, <2>1 DEF Seat, Holding
  <1> QED
    BY <1>11, <1>12, <1>14, <1>17, <1>18 DEF Seat

LEMMA SeatReply ==
    ASSUME Typed, Seat, NEW w \in World, RecvJoinReply(w), UNCHANGED <<lsVars, wsVars>>
    PROVE  Seat'
  <1>1. /\ wsToGs[w] # <<>> /\ Head(wsToGs[w]).type = "reply"
        /\ wsToGs' = [wsToGs EXCEPT ![w] = Tail(@)]
        /\ UNCHANGED <<sock, bits, login, saveQ, held>>
    BY DEF RecvJoinReply, Receives, wsVars
  <1>2. PICK s \in Started, r \in Results :
           /\ s = Head(wsToGs[w]).lsid /\ r = Head(wsToGs[w]).result
           /\ WorldOf(s) = w /\ Head(wsToGs[w]) = ConfirmReply(r, s)
    <2>1. PICK f : f = wsToGs
      OBVIOUS
    <2>2. f[w] # <<>> /\ Head(f[w]).type = "reply"
      BY <1>1, <2>1
    <2> QED
      BY <2>1, <2>2, AskOf, PacketIs
  <1>3. PICK a \in Account : a = AccountOf(s)
    BY QueueTypes
  <1>4. /\ \A i \in World : \A P : Has(wsToGs'[i], P) => Has(wsToGs[i], P)
        /\ \A i \in World : \A P : Single(wsToGs[i], P) => Single(wsToGs'[i], P)
        /\ \A P : Head(wsToGs[w]) \in P => Has(wsToGs[w], P)
        /\ \A P : Single(wsToGs[w], P) /\ Head(wsToGs[w]) \in P => ~Has(wsToGs'[w], P)
    BY <1>1, WsTaken
  <1>5. /\ \A t : Head(wsToGs[w]) \in Answers(t) <=> s = t
        /\ \A t : Head(wsToGs[w]) \in Oks(t) <=> s = t /\ r = "ok"
    BY <1>2, KindsOfAnswer
  <1>6. Answered(s) /\ (r = "ok" => Confirmed(s)) /\ ~Has(wsToGs'[w], Answers(s))
    BY <1>2, <1>4, <1>5 DEF Seat, Asking, Answered, Confirmed
  <1>7. ~Asked(s) /\ user[s] \notin {"none", "registered"} /\ ~ToSave(s)
    BY <1>6 DEF Seat, Asking, Pending
  <1>8. r = "ok" => Bound(s) /\ "GS" \in bits[s]
    BY <1>6 DEF Bound, Seat, Backed
  <1>9. \A t \in Started : /\ Has(wsToGs'[WorldOf(t)], Answers(t)) => Answered(t)
                           /\ Has(wsToGs'[WorldOf(t)], Oks(t)) => Confirmed(t)
                           /\ Single(wsToGs'[WorldOf(t)], Answers(t))
    BY <1>4, QueueTypes DEF Seat, Asking, Answered, Confirmed
  <1>10. CASE UNCHANGED <<user, gsToWs>>
    BY <1>1, <1>9, <1>10, SeatKept DEF Answered, Confirmed
  <1>11. CASE r = "ok" /\ user[s] \notin {"confirming", "registered"}
    <2>1. SendToWorld(w, SubAccount(a)) /\ UNCHANGED user
      BY <1>2, <1>3, <1>11 DEF RecvJoinReply, Rejected
    <2>2. user'[s] \in {"deleted", "gone"}
      BY <1>7, <1>11, <2>1, QueueTypes DEF Typed, Inv, ChannelInv
    <2>3. s \notin held
      BY <1>7 DEF Seat, Holding
    <2>4. ~Has(saveQ'[w], Named(s)) /\ \A t : Has(saveQ'[WorldOf(t)], Named(t)) <=> ToSave(t)
      BY <1>1, <1>2, <1>7 DEF ToSave
    <2>5. SubAccount(a) \in {SubAccount(AccountOf(s)), ChangeChar(AccountOf(s))}
      BY <1>3
    <2>6. PICK p \in {SubAccount(AccountOf(s)), ChangeChar(AccountOf(s))} : p = SubAccount(a)
      BY <2>5
    <2>7. SendToWorld(w, p) /\ p = SubAccount(AccountOf(s))
      BY <1>3, <2>1, <2>6
    <2> QED
      BY <1>1, <1>2, <1>6, <1>7, <1>8, <1>9, <1>11, <2>1, <2>2, <2>3, <2>4, <2>7, SeatGiven
  <1>12. CASE r = "ok" /\ user[s] \in {"confirming", "registered"}
    \* A registered namesake would have a record with the bit of its own.
    <2>1. Namesakes(w, a) = {}
      <3> SUFFICES ASSUME NEW t \in Started, user[t] = "registered", WorldOf(t) = w,
                          AccountOf(t) = a
                   PROVE  FALSE
        BY DEF Namesakes, Registered
      <3>1. "GS" \in bits[t]
        BY DEF Seat, Backed, Bound
      <3>2. t = s
        BY <1>2, <1>3, <1>8, <1>12, <3>1, OneSeat DEF SamePlace, SameAccount, Typed
      <3> QED
        BY <1>7, <3>2
    <2>2. user' = [user EXCEPT ![s] = "registered"] /\ UNCHANGED gsToWs
      BY <1>2, <1>3, <1>12, <2>1 DEF RecvJoinReply
    <2>3. /\ Started' = Started
          /\ \A t : WorldOf(t)' = WorldOf(t) /\ AccountOf(t)' = AccountOf(t)
      BY <1>1 DEF Started, WorldOf, AccountOf
    <2>4. \A t \in Started : /\ Asked(t)' <=> Asked(t)
                             /\ Answered(t)' => Answered(t)
                             /\ Confirmed(t)' => Confirmed(t)
                             /\ ToSave(t)' <=> ToSave(t)
      BY <1>1, <1>9, <2>2, <2>3 DEF Asked, Answered, Confirmed, ToSave
    <2>5. ~Asked(s)' /\ ~Answered(s)'
      BY <1>2, <1>6, <1>7, <2>3, <2>4 DEF Answered
    <2>6. user'[s] = "registered" /\ \A t \in Started : t # s => user'[t] = user[t]
      BY <2>2, QueueTypes DEF Typed, Inv, ChannelInv
    <2>7. Playing'
      <3>1. sock[s] \in Departed
        BY <1>6 DEF Seat, Playing, Pending
      <3> QED
        BY <1>1, <2>3, <2>4, <2>6, <3>1 DEF Seat, Playing, Pending
    <2>8. Asking'
      <3> SUFFICES ASSUME NEW t \in Started
                   PROVE  /\ Single(gsToWs'[WorldOf(t)'], Asks(t))
                          /\ Single(wsToGs'[WorldOf(t)'], Answers(t))
                          /\ ~(Asked(t)' /\ Answered(t)')
                          /\ Asked(t)' \/ Answered(t)'
                                => user'[t] \notin {"none", "registered"} /\ ~ToSave(t)'
        BY <2>3 DEF Asking, Pending
      <3> QED
        BY <1>9, <2>2, <2>3, <2>4, <2>5, <2>6 DEF Seat, Asking, Pending
    <2>9. Backed'
      <3> SUFFICES ASSUME NEW t \in Started,
                          Confirmed(t)' \/ user'[t] = "registered" \/ ToSave(t)'
                   PROVE  /\ "GS" \in bits'[t]
                          /\ ~Has(gsToWs'[WorldOf(t)], Releases(AccountOf(t)))
        BY <2>3 DEF Backed, Bound
      <3>1. Bound(t)
        BY <1>8, <1>12, <2>4, <2>6 DEF Bound
      <3> QED
        BY <1>1, <2>2, <3>1 DEF Seat, Backed
    <2>10. Releasing'
      <3>1. \A t \in Started : Over(t) => Over(t)'
        BY <1>6, <2>4, <2>6 DEF Over, Pending
      <3>2. \A t \in Started : user[t] = "none" => user'[t] = "none"
        BY <1>7, <2>6
      <3>3. \A t \in Started : \A v, b : SeatOf(t, v, b) => SeatOf(t, v, b)'
        BY <1>1, <2>3 DEF SeatOf
      <3> QED
        BY <2>2, <2>3, <3>1, <3>2, <3>3 DEF Seat, Releasing
    <2>11. Holding'
      <3>1. held \subseteq Started
        BY DEF Typed, Leaving
      <3> QED
        BY <1>1, <2>4, <2>6, <3>1 DEF Seat, Holding
    <2> QED
      BY <2>7, <2>8, <2>9, <2>10, <2>11 DEF Seat
  <1>13. r = "ok" \/ UNCHANGED <<user, gsToWs>>
    BY <1>2 DEF RecvJoinReply
  <1> QED
    BY <1>10, <1>11, <1>12, <1>13

LEMMA SeatKick ==
    ASSUME Typed, Seat, NEW w \in World, RecvGsKick(w), UNCHANGED <<lsVars, wsVars>>
    PROVE  Seat'
  <1>1. /\ wsToGs[w] # <<>>
        /\ wsToGs' = [wsToGs EXCEPT ![w] = Tail(@)]
        /\ UNCHANGED <<login, gsToWs, saveQ, user, sock, bits, held>>
    BY DEF RecvGsKick, Receives, wsVars
  <1>2. /\ \A i \in World : \A P : Has(wsToGs'[i], P) => Has(wsToGs[i], P)
        /\ \A i \in World : \A P : Single(wsToGs[i], P) => Single(wsToGs'[i], P)
    BY <1>1, WsTaken
  <1> QED
    BY <1>1, <1>2, SeatKept, QueueTypes

LEMMA SeatEnter ==
    ASSUME Typed, Seat, NEW s \in Session, EnterChannel(s)
    PROVE  Seat'
  <1>1. /\ sock[s] = "moved" /\ sock' = [sock EXCEPT ![s] = "away"]
        /\ user[s] = "none" /\ user' = [user EXCEPT ![s] = "confirming"]
        /\ SendToWorld(WorldOf(s), ConfirmReq(s))
        /\ UNCHANGED <<login, bits, saveQ, held, wsToGs>>
    BY DEF EnterChannel, FollowsMove, UserJoins
  <1>2. PICK w \in World : s \in Started /\ w = WorldOf(s)
    BY <1>1, QueueTypes DEF Typed, Inv, WorldInv, SocksInv
  <1>3. PICK p \in Packet : p = ConfirmReq(s)
    BY PacketForms
  <1>4. /\ \A i \in World : \A P :
              Has(gsToWs'[i], P) <=> Has(gsToWs[i], P) \/ (i = w /\ p \in P)
        /\ \A i \in World : \A P :
              Single(gsToWs[i], P) /\ (i = w /\ p \in P => ~Has(gsToWs[i], P))
                 => Single(gsToWs'[i], P)
    <2>1. SendToWorld(w, p)
      BY <1>1, <1>2, <1>3
    <2> QED
      BY <2>1, GsSent
  <1>5. /\ \A t : p \in Asks(t) <=> s = t
        /\ \A a : p \notin Subs(a) /\ p \notin Changes(a) /\ p \notin Releases(a)
    BY <1>3, KindsOfAsk
  <1>6. /\ Started' = Started
        /\ \A t : WorldOf(t)' = WorldOf(t) /\ AccountOf(t)' = AccountOf(t)
    BY <1>1 DEF Started, WorldOf, AccountOf
  <1>7. "GS" \notin bits[s] /\ ~Asked(s) /\ ~Answered(s)
    BY <1>1, <1>2 DEF Seat, Playing, Pending, Departed
  <1>8. ~Confirmed(s) /\ ~ToSave(s)
    <2>1. Confirmed(s) => Answered(s)
      BY KindsGrow DEF Confirmed, Answered
    <2>2. ToSave(s) => user[s] = "deleted"
      BY <1>2, SaveFacts
    <2> QED
      BY <1>1, <1>7, <2>1, <2>2
  <1>9. \A t \in Started : /\ t # s => (Asked(t)' <=> Asked(t))
                           /\ Answered(t)' <=> Answered(t)
                           /\ Confirmed(t)' <=> Confirmed(t)
                           /\ ToSave(t)' <=> ToSave(t)
    BY <1>1, <1>4, <1>5, <1>6, QueueTypes DEF Asked, Answered, Confirmed, ToSave
  <1>10. /\ user'[s] = "confirming" /\ sock'[s] = "away"
         /\ \A t \in Started : t # s => user'[t] = user[t] /\ sock'[t] = sock[t]
    BY <1>1, QueueTypes DEF Typed, Inv, ChannelInv, WorldInv, SocksInv
  <1>11. Playing'
    BY <1>1, <1>6, <1>9, <1>10 DEF Seat, Playing, Pending, Departed
  <1>12. Asking'
    <2> SUFFICES ASSUME NEW t \in Started
                 PROVE  /\ Single(gsToWs'[WorldOf(t)'], Asks(t))
                        /\ Single(wsToGs'[WorldOf(t)'], Answers(t))
                        /\ ~(Asked(t)' /\ Answered(t)')
                        /\ Asked(t)' \/ Answered(t)'
                              => user'[t] \notin {"none", "registered"} /\ ~ToSave(t)'
      BY <1>6 DEF Asking, Pending
    <2>1. Single(gsToWs'[WorldOf(t)'], Asks(t))
      BY <1>2, <1>4, <1>5, <1>6, <1>7, QueueTypes DEF Seat, Asking, Asked
    <2> QED
      BY <1>1, <1>6, <1>7, <1>8, <1>9, <1>10, <2>1 DEF Seat, Asking, Pending
  <1>13. Backed'
    <2> SUFFICES ASSUME NEW t \in Started,
                        Confirmed(t)' \/ user'[t] = "registered" \/ ToSave(t)'
                 PROVE  /\ "GS" \in bits'[t]
                        /\ ~Has(gsToWs'[WorldOf(t)], Releases(AccountOf(t)))
      BY <1>6 DEF Backed, Bound
    <2>1. t # s /\ Bound(t)
      BY <1>8, <1>9, <1>10 DEF Bound
    <2> QED
      BY <1>1, <1>4, <1>5, <2>1, QueueTypes DEF Seat, Backed
  <1>14. Releasing'
    <2>1. \A t \in Started : t # s /\ Over(t) => Over(t)'
      BY <1>9, <1>10 DEF Over, Pending
    <2>2. \A t \in Started : \A v, b : SeatOf(t, v, b) => t # s /\ SeatOf(t, v, b)'
      BY <1>1, <1>6, <1>7 DEF SeatOf
    <2>3. \A i \in World : \A b : /\ Has(gsToWs'[i], Subs(b)) => Has(gsToWs[i], Subs(b))
                                  /\ Has(gsToWs'[i], Changes(b)) => Has(gsToWs[i], Changes(b))
                                  /\ Single(gsToWs[i], Releases(b))
                                        => Single(gsToWs'[i], Releases(b))
      BY <1>4, <1>5
    <2> QED
      BY <1>6, <1>10, <2>1, <2>2, <2>3 DEF Seat, Releasing
  <1>15. Holding'
    <2>1. held \subseteq Started
      BY DEF Typed, Leaving
    <2> QED
      BY <1>1, <1>9, <1>10, <2>1 DEF Seat, Holding
  <1> QED
    BY <1>11, <1>12, <1>13, <1>14, <1>15 DEF Seat

LEMMA SeatDelete ==
    ASSUME Typed, Seat, NEW s \in Session, NEW mode \in Modes,
           user[s] \in {"confirming", "registered"}, DeleteUser(s, mode),
           UNCHANGED <<lsVars, wsVars>>
    PROVE  Seat'
  <1>1. PICK w \in World : s \in Started /\ w = WorldOf(s)
    BY QueueTypes DEF Typed, Inv, ChannelInv
  <1>2. PICK named \in BOOLEAN : named = (user[s] = "registered")
    OBVIOUS
  <1>3. PICK item : item = [lsid |-> s, mode |-> mode, named |-> named]
    OBVIOUS
  <1>4. /\ user' = [user EXCEPT ![s] = "deleted"]
        /\ saveQ' = [saveQ EXCEPT ![w] = Append(@, item)]
        /\ UNCHANGED <<login, gsToWs, wsToGs, held, sock, bits>>
    BY <1>1, <1>2, <1>3 DEF DeleteUser, linkVars, wsVars
  <1>5. item \in Saves
    BY <1>1, <1>3 DEF Saves, Modes
  <1>6. /\ \A P : Has(saveQ'[w], P) <=> Has(saveQ[w], P) \/ item \in P
        /\ \A i \in World : i # w => saveQ'[i] = saveQ[i]
    <2>1. PICK q \in Seq(Saves) : q = saveQ[w]
      BY SavesTyped DEF Typed
    <2>2. saveQ'[w] = Append(q, item)
      BY <1>4, <2>1, QueueTypes
    <2>3. \A P : Has(Append(q, item), P) <=> Has(q, P) \/ item \in P
      BY <1>5, <2>1, HasAfterSend
    <2> QED
      BY <1>4, <2>1, <2>2, <2>3, QueueTypes
  <1>7. \A t : item \in Named(t) <=> t = s /\ named
    BY <1>3 DEF Named, Modes
  <1>8. ~ToSave(s)
    BY <1>1, SaveFacts
  <1>9. /\ Started' = Started
        /\ \A t : WorldOf(t)' = WorldOf(t) /\ AccountOf(t)' = AccountOf(t)
    BY <1>4 DEF Started, WorldOf, AccountOf
  <1>10. \A t \in Started : /\ Asked(t)' <=> Asked(t)
                            /\ Answered(t)' <=> Answered(t)
                            /\ Confirmed(t)' <=> Confirmed(t)
                            /\ t # s => (ToSave(t)' <=> ToSave(t))
    BY <1>4, <1>6, <1>7, <1>9, QueueTypes DEF Asked, Answered, Confirmed, ToSave
  <1>11. ToSave(s)' <=> user[s] = "registered"
    BY <1>1, <1>2, <1>6, <1>7, <1>8, <1>9 DEF ToSave
  <1>12. user'[s] = "deleted" /\ \A t \in Started : t # s => user'[t] = user[t]
    BY <1>4, QueueTypes DEF Typed, Inv, ChannelInv
  <1>13. Playing'
    BY <1>1, <1>4, <1>9, <1>10, <1>12 DEF Seat, Playing, Pending
  <1>14. Asking'
    <2> SUFFICES ASSUME NEW t \in Started
                 PROVE  /\ Single(gsToWs'[WorldOf(t)'], Asks(t))
                        /\ Single(wsToGs'[WorldOf(t)'], Answers(t))
                        /\ ~(Asked(t)' /\ Answered(t)')
                        /\ Asked(t)' \/ Answered(t)'
                              => user'[t] \notin {"none", "registered"} /\ ~ToSave(t)'
      BY <1>9 DEF Asking, Pending
    <2> QED
      BY <1>4, <1>9, <1>10, <1>11, <1>12 DEF Seat, Asking, Pending
  <1>15. Backed'
    <2> SUFFICES ASSUME NEW t \in Started,
                        Confirmed(t)' \/ user'[t] = "registered" \/ ToSave(t)'
                 PROVE  /\ "GS" \in bits'[t]
                        /\ ~Has(gsToWs'[WorldOf(t)], Releases(AccountOf(t)))
      BY <1>9 DEF Backed, Bound
    <2>1. Bound(t)
      BY <1>10, <1>11, <1>12 DEF Bound
    <2> QED
      BY <1>4, <2>1 DEF Seat, Backed
  <1>16. Releasing'
    <2>1. \A t \in Started : Over(t) => Over(t)'
      BY <1>10, <1>12 DEF Over, Pending
    <2>2. \A t \in Started : user[t] = "none" => user'[t] = "none"
      BY <1>12
    <2>3. \A t \in Started : \A v, b : SeatOf(t, v, b) => SeatOf(t, v, b)'
      BY <1>4, <1>9 DEF SeatOf
    <2> QED
      BY <1>4, <1>9, <2>1, <2>2, <2>3 DEF Seat, Releasing
  <1>17. Holding'
    <2>1. held \subseteq Started
      BY DEF Typed, Leaving
    <2> QED
      BY <1>4, <1>8, <1>10, <1>11, <1>12, <2>1 DEF Seat, Holding
  <1> QED
    BY <1>13, <1>14, <1>15, <1>16, <1>17 DEF Seat

LEMMA SeatSave ==
    ASSUME Typed, Seat, NEW w \in World, SaveUser(w), UNCHANGED <<lsVars, wsVars>>
    PROVE  Seat'
  <1>1. PICK q \in Seq(Saves) : q = saveQ[w] /\ q # <<>>
    BY SavesTyped DEF SaveUser, Typed
  <1>2. PICK item \in Saves : item = Head(q)
    BY <1>1, HeadTailProperties
  <1>3. PICK s \in Started : s = item.lsid
    BY <1>2 DEF Saves
  <1>4. PICK back \in BOOLEAN : back <=> item.named /\ item.mode = "charlist"
    OBVIOUS
  <1>5. /\ saveQ' = [saveQ EXCEPT ![w] = Tail(@)]
        /\ held' = held \ {s}
        /\ user' = [user EXCEPT ![s] = IF back THEN "none" ELSE "gone"]
        /\ item.named => SendToWorld(w, IF back THEN ChangeChar(AccountOf(s))
                                                ELSE SubAccount(AccountOf(s)))
        /\ ~item.named => UNCHANGED gsToWs
        /\ UNCHANGED <<login, wsToGs, sock, bits>>
    BY <1>1, <1>2, <1>3, <1>4 DEF SaveUser, wsVars
  <1>6. item \in Items(s) /\ (item \in Named(s) <=> item.named)
    BY <1>2, <1>3 DEF Saves, Items, Named, Modes
  <1>7. \A t : item \in Named(t) => t = s
    BY <1>3 DEF Named
  <1>8. WorldOf(s) = w /\ user[s] = "deleted"
    <2>1. q[1] = item /\ 1 \in DOMAIN q
      BY <1>1, <1>2, HeadTailProperties, LenProperties
    <2> QED
      BY <1>1, <1>3, <2>1 DEF Typed, Leaving
  <1>9. /\ \A P : Has(Tail(q), P) => Has(q, P)
        /\ \A P : Has(q, P) /\ item \notin P => Has(Tail(q), P)
        /\ \A P : item \in P => Has(q, P)
        /\ \A P : Single(q, P) /\ item \in P => ~Has(Tail(q), P)
    BY <1>1, <1>2, HasAfterTake
  <1>10. saveQ'[w] = Tail(q) /\ \A i \in World : i # w => saveQ'[i] = saveQ[i]
    BY <1>1, <1>5, QueueTypes
  <1>11. ~Has(Tail(q), Items(s)) /\ ~Has(Tail(q), Named(s))
    <2>1. Single(q, Items(s))
      BY <1>1, <1>8, SaveFacts
    <2> QED
      BY <1>6, <1>9, <2>1, KindsGrow
  <1>12. ToSave(s) <=> item.named
    <2>1. ToSave(s) <=> Has(q, Named(s))
      BY <1>1, <1>8 DEF ToSave
    <2> QED
      BY <1>6, <1>9, <1>11, <2>1
  <1>13. /\ Started' = Started
         /\ \A t : WorldOf(t)' = WorldOf(t) /\ AccountOf(t)' = AccountOf(t)
    BY <1>5 DEF Started, WorldOf, AccountOf
  <1>14. \A t \in Started : t # s => (Has(saveQ'[WorldOf(t)], Named(t)) <=> ToSave(t))
    <2> SUFFICES ASSUME NEW t \in Started, t # s
                 PROVE  Has(saveQ'[WorldOf(t)], Named(t)) <=> ToSave(t)
      OBVIOUS
    <2>1. Has(Tail(q), Named(t)) <=> Has(q, Named(t))
      BY <1>7, <1>9
    <2> QED
      BY <1>1, <1>10, <2>1, QueueTypes DEF ToSave
  <1>15. ~Has(saveQ'[w], Named(s))
    BY <1>10, <1>11
  <1>16. /\ user'[s] = IF back THEN "none" ELSE "gone"
         /\ \A t \in Started : t # s => user'[t] = user[t]
    BY <1>5, QueueTypes DEF Typed, Inv, ChannelInv
  <1>17. CASE item.named
    <2>1. ~Asked(s) /\ ~Answered(s) /\ Bound(s)
      BY <1>12, <1>17 DEF Seat, Asking, Pending, Bound
    <2>2. PICK p \in {SubAccount(AccountOf(s)), ChangeChar(AccountOf(s))} :
             p = IF back THEN ChangeChar(AccountOf(s)) ELSE SubAccount(AccountOf(s))
      OBVIOUS
    <2>3. SendToWorld(w, p)
      BY <1>5, <1>17, <2>2
    <2>4. \A t \in Started : /\ Has(wsToGs'[WorldOf(t)], Answers(t)) => Answered(t)
                             /\ Has(wsToGs'[WorldOf(t)], Oks(t)) => Confirmed(t)
                             /\ Single(wsToGs'[WorldOf(t)], Answers(t))
      BY <1>5 DEF Answered, Confirmed, Seat, Asking
    <2>5. ~Has(wsToGs'[w], Answers(s))
      BY <1>5, <1>8, <2>1 DEF Answered
    <2>6. \/ p = SubAccount(AccountOf(s)) /\ user'[s] \in {"deleted", "gone"}
          \/ p = ChangeChar(AccountOf(s)) /\ user'[s] = "none"
      BY <1>16, <2>2
    <2> QED
      BY <1>5, <1>8, <1>14, <1>15, <1>16, <2>1, <2>3, <2>4, <2>5, <2>6, SeatGiven
  <1>18. CASE ~item.named
    <2>1. ~ToSave(s) /\ user'[s] = "gone" /\ UNCHANGED gsToWs
      BY <1>4, <1>5, <1>12, <1>16, <1>18
    <2>2. \A t \in Started : /\ Asked(t)' <=> Asked(t)
                             /\ Answered(t)' <=> Answered(t)
                             /\ Confirmed(t)' <=> Confirmed(t)
                             /\ ToSave(t)' <=> ToSave(t)
      BY <1>5, <1>8, <1>13, <1>14, <1>15, <2>1 DEF Asked, Answered, Confirmed, ToSave
    <2>3. Playing'
      BY <1>5, <1>8, <1>13, <1>16, <2>1, <2>2 DEF Seat, Playing, Pending
    <2>4. Asking'
      <3> SUFFICES ASSUME NEW t \in Started
                   PROVE  /\ Single(gsToWs'[WorldOf(t)'], Asks(t))
                          /\ Single(wsToGs'[WorldOf(t)'], Answers(t))
                          /\ ~(Asked(t)' /\ Answered(t)')
                          /\ Asked(t)' \/ Answered(t)'
                                => user'[t] \notin {"none", "registered"} /\ ~ToSave(t)'
        BY <1>13 DEF Asking, Pending
      <3> QED
        BY <1>5, <1>13, <1>16, <2>1, <2>2 DEF Seat, Asking, Pending
    <2>5. Backed'
      <3> SUFFICES ASSUME NEW t \in Started,
                          Confirmed(t)' \/ user'[t] = "registered" \/ ToSave(t)'
                   PROVE  /\ "GS" \in bits'[t]
                          /\ ~Has(gsToWs'[WorldOf(t)], Releases(AccountOf(t)))
        BY <1>13 DEF Backed, Bound
      <3>1. Bound(t)
        BY <1>16, <2>1, <2>2 DEF Bound
      <3> QED
        BY <1>5, <2>1, <3>1 DEF Seat, Backed
    <2>6. Releasing'
      <3>1. \A t \in Started : Over(t) => Over(t)'
        BY <1>16, <2>1, <2>2 DEF Over, Pending
      <3>2. \A t \in Started : user[t] = "none" => user'[t] = "none"
        BY <1>8, <1>16
      <3>3. \A t \in Started : \A v, b : SeatOf(t, v, b) => SeatOf(t, v, b)'
        BY <1>5, <1>13 DEF SeatOf
      <3> QED
        BY <1>13, <2>1, <3>1, <3>2, <3>3 DEF Seat, Releasing
    <2>7. Holding'
      <3>1. held \subseteq Started
        BY DEF Typed, Leaving
      <3> QED
        BY <1>5, <1>16, <2>2, <3>1 DEF Seat, Holding
    <2> QED
      BY <2>3, <2>4, <2>5, <2>6, <2>7 DEF Seat
  <1> QED
    BY <1>2, <1>17, <1>18 DEF Saves

-----------------------------------------------------------------------------
(***************************************************************************)
(* The rest leaves the seats where they are.                               *)
(***************************************************************************)
LEMMA SeatWorld ==
    ASSUME Seat, UNCHANGED <<login, gsToWs, wsToGs, saveQ, user>>,
           \A s \in Started : /\ "GS" \in bits'[s] <=> "GS" \in bits[s]
                              /\ sock[s] \in Departed => sock'[s] \in Departed,
           \A s \in held' : s \in held \/ user[s] = "registered"
    PROVE  Seat'
  <1>1. \A s \in Started :
            LET v == WorldOf(s) IN
            /\ Has(wsToGs'[v], Answers(s)) => Has(wsToGs[v], Answers(s))
            /\ Has(wsToGs'[v], Oks(s)) => Has(wsToGs[v], Oks(s))
            /\ Single(wsToGs[v], Answers(s)) => Single(wsToGs'[v], Answers(s))
            /\ "GS" \in bits'[s] <=> "GS" \in bits[s]
            /\ sock[s] \in Departed => sock'[s] \in Departed
    OBVIOUS
  <1> QED
    BY <1>1, SeatKept

LEMMA SeatSocket ==
    ASSUME Typed, Seat, NEW s \in Session,
           ClientJoins(s) \/ SelectChar(s) \/ ClientLeaves(s),
           UNCHANGED <<lsVars, gsVars>>
    PROVE  Seat'
  <1>1. UNCHANGED <<login, gsToWs, wsToGs, saveQ, user, bits, held>>
    BY DEF ClientJoins, SelectChar, ClientLeaves, linkVars, gsVars
  <1>2. \A t \in Started : sock[t] \in Departed => sock'[t] \in Departed
    BY QueueTypes DEF ClientJoins, SelectChar, ClientLeaves, Close, Departed, Connected, Typed,
                      Inv, WorldInv, SocksInv
  <1> QED
    BY <1>1, <1>2, SeatWorld

LEMMA SeatClosed ==
    ASSUME Typed, Seat, NEW s \in Session, SocketClosed(s), UNCHANGED <<lsVars, gsVars>>
    PROVE  Seat'
  <1>1. UNCHANGED <<login, gsToWs, saveQ, user, held>>
    BY DEF SocketClosed, gsVars
  <1>2. PICK closed : closed = [sock EXCEPT ![s] = "closed"]
    OBVIOUS
  <1>3. \A t \in Started : sock[t] \in Departed => closed[t] \in Departed
    BY <1>2, QueueTypes DEF Departed, Typed, Inv, WorldInv, SocksInv
  <1>4. CASE "WS" \notin bits[s]
    <2>1. sock' = closed /\ UNCHANGED <<bits, wsToGs>>
      BY <1>2, <1>4 DEF SocketClosed
    <2> QED
      BY <1>1, <1>3, <2>1, SeatWorld
  <1>5. CASE "WS" \in bits[s]
    <2>1. PICK w \in World, a \in Account : s \in Started /\ w = WorldOf(s) /\ a = AccountOf(s)
      BY <1>5, QueueTypes DEF Typed, Inv, WorldInv
    <2>2. DelAccount(w, a, "WS", closed, wsToGs)
      BY <1>2, <1>5, <2>1 DEF SocketClosed
    <2>3. s \in Records(w, a)
      BY <1>5, <2>1 DEF Records
    <2>4. \A t \in Records(w, a) : t = s
      BY <1>5, <2>1, OneSeat DEF Records, SamePlace, SameAccount, Typed
    <2>5. PICK left : left = bits[s] \ {"WS"}
      OBVIOUS
    <2>6. /\ bits' = [bits EXCEPT ![s] = IF DeletedBy(left) THEN {} ELSE left]
          /\ sock' = closed
          /\ wsToGs' = IF left = {"GS"}
                          THEN [wsToGs EXCEPT ![w] = Append(@, KickAccount(a))]
                          ELSE wsToGs
      BY <2>2, <2>3, <2>4, <2>5 DEF DelAccount
    <2>7. \A t \in Started : "GS" \in bits'[t] <=> "GS" \in bits[t]
      BY <2>5, <2>6, QueueTypes DEF DeletedBy, Typed, Inv, WorldInv
    <2>8. CASE left = {"GS"}
      <3>1. PICK p \in Packet : p = KickAccount(a)
        BY PacketForms
      <3>2. wsToGs' = [wsToGs EXCEPT ![w] = Append(@, p)]
        BY <2>6, <2>8, <3>1
      <3>3. /\ \A i \in World : \A P :
                  Has(wsToGs'[i], P) <=> Has(wsToGs[i], P) \/ (i = w /\ p \in P)
            /\ \A i \in World : \A P :
                  Single(wsToGs[i], P) /\ (i = w /\ p \in P => ~Has(wsToGs[i], P))
                     => Single(wsToGs'[i], P)
        BY <3>2, WsSent
      <3>4. \A t : p \notin Answers(t) /\ p \notin Oks(t)
        BY <3>1, KindsOfKick
      <3>5. \A t \in Started :
                LET v == WorldOf(t) IN
                /\ Has(wsToGs'[v], Answers(t)) => Has(wsToGs[v], Answers(t))
                /\ Has(wsToGs'[v], Oks(t)) => Has(wsToGs[v], Oks(t))
                /\ Single(wsToGs[v], Answers(t)) => Single(wsToGs'[v], Answers(t))
                /\ "GS" \in bits'[t] <=> "GS" \in bits[t]
                /\ sock[t] \in Departed => sock'[t] \in Departed
        BY <1>3, <2>6, <2>7, <3>3, <3>4, QueueTypes
      <3> QED
        BY <1>1, <3>5, SeatKept
    <2>9. CASE left # {"GS"}
      <3>1. UNCHANGED wsToGs
        BY <2>6, <2>9
      <3> QED
        BY <1>1, <1>3, <2>6, <2>7, <3>1, SeatWorld
    <2> QED
      BY <2>8, <2>9
  <1> QED
    BY <1>4, <1>5

LEMMA SeatJoined ==
    ASSUME Typed, Seat, NEW w \in World, RecvConfirmReply(w), UNCHANGED <<lsVars, gsVars>>
    PROVE  Seat'
  <1>1. UNCHANGED <<login, gsToWs, wsToGs, saveQ, user, held>>
    BY DEF RecvConfirmReply, gsVars
  <1>2. PICK c \in Conn : c = Current(w) /\ c[1] = w
    BY CurrentConn DEF Typed, Inv
  <1>3. PICK s : s = Head(toWs[c]).lsid
    OBVIOUS
  <1>4. s \in Started /\ WorldOf(s) = w
    <2>1. toWs[c] # <<>> /\ Head(toWs[c]).type = "reply"
      BY <1>2 DEF RecvConfirmReply, Receives
    <2>2. Head(toWs[c]) \in Mail(At(login, w))
      BY <1>2, <2>1, ConnTake DEF Typed, Inv, LinksInv
    <2>3. s \in At(login, w)
      BY <1>3, <2>1, <2>2, MailReads
    <2> QED
      BY <2>3, SessionFacts DEF Typed, Inv
  <1>5. CASE UNCHANGED bits /\ (sock' = sock \/ \E t \in Started : sock' = Close(t, sock))
    <2>1. \A t \in Started : sock[t] \in Departed => sock'[t] \in Departed
      BY <1>5, QueueTypes DEF Close, Departed, Connected, Typed, Inv, WorldInv, SocksInv
    <2> QED
      BY <1>1, <1>5, <2>1, SeatWorld
  <1>6. CASE /\ Duplicates(w, AccountOf(s)) = {}
             /\ bits' = [bits EXCEPT ![s] = {"WS"}]
             /\ sock' = IF sock[s] = "open" THEN [sock EXCEPT ![s] = "joined"] ELSE sock
    <2>1. bits[s] = {}
      BY <1>4, <1>6 DEF Duplicates, Records
    <2>2. \A t \in Started : "GS" \in bits'[t] <=> "GS" \in bits[t]
      BY <1>4, <1>6, <2>1, QueueTypes DEF Typed, Inv, WorldInv
    <2>3. \A t \in Started : sock[t] \in Departed => sock'[t] \in Departed
      BY <1>4, <1>6, QueueTypes DEF Departed, Typed, Inv, WorldInv, SocksInv
    <2> QED
      BY <1>1, <2>2, <2>3, SeatWorld
  <1>7. \/ UNCHANGED bits /\ (sock' = sock \/ \E t \in Started : sock' = Close(t, sock))
        \/ /\ Duplicates(w, AccountOf(s)) = {}
           /\ bits' = [bits EXCEPT ![s] = {"WS"}]
           /\ sock' = IF sock[s] = "open" THEN [sock EXCEPT ![s] = "joined"] ELSE sock
    BY <1>2, <1>3 DEF RecvConfirmReply, Records
  <1> QED
    BY <1>5, <1>6, <1>7

LEMMA SeatStep ==
    ASSUME MaxLoss = 0, Steadily, NoKicks, Seat, [Next]_vars
    PROVE  Seat'
  <1>1. Typed /\ Quiet /\ Inv
    BY DEF Steadily, Typed
  <1>2. CASE UNCHANGED <<login, gsToWs, wsToGs, wsVars, gsVars>>
    BY <1>2, SeatWorld DEF wsVars, gsVars
  <1>3. CASE LoginStep
    <2>1. UNCHANGED <<wsVars, gsVars>>
      BY <1>3 DEF LoginStep
    <2>2. CASE \E a \in Account, w \in World : SelectServer(a, w)
      BY <1>1, <2>1, <2>2, SeatStarts
    <2>3. CASE ~ \E a \in Account, w \in World : SelectServer(a, w)
      <3>1. UNCHANGED <<gsToWs, wsToGs>>
        BY <1>3 DEF LoginStep, LoginAccepted, LoginRefused, SelectServer, WaitTimeout,
                    ConfirmCheck, ConfirmInsert, RecvSubAccount, RecvAccountList, Enlist,
                    ServerClosed, DeleteAccount, linkVars
      <3>2. UNCHANGED login
        BY <2>3, LoginUnchanged
      <3> QED
        BY <1>2, <2>1, <3>1, <3>2
    <2> QED
      BY <2>2, <2>3
  <1>4. CASE WorldStep
    <2>1. UNCHANGED <<lsVars, gsVars>>
      BY <1>4 DEF WorldStep
    <2>2. \A w \in World : ~LinkLost(w) /\ ~RecvKick(w)
      BY <1>1, NoLoss, NotKicked, CurrentConn DEF Inv
    <2> QED
      BY <1>1, <1>4, <2>1, <2>2, SeatSocket, SeatClosed, SeatJoined, SeatConfirm, SeatSub,
         SeatChange DEF WorldStep
  <1>5. CASE ChannelStep
    <2>1. UNCHANGED <<lsVars, wsVars>>
      BY <1>5 DEF ChannelStep
    <2>2. CASE \E s \in Session : DeleteClosed(s) \/ ChangeCharacter(s)
      <3>1. PICK s \in Session, mode \in Modes :
               DeleteUser(s, mode) /\ user[s] \in {"confirming", "registered"}
        BY <1>1, <2>2 DEF DeleteClosed, ChangeCharacter, Modes, Typed, Leaving
      <3> QED
        BY <1>1, <2>1, <3>1, SeatDelete
    <2>3. CASE \E s \in Session : UserLeaves(s)
      <3>1. UNCHANGED <<login, gsToWs, wsToGs, saveQ, user, held, bits, sock>>
        BY <2>1, <2>3 DEF UserLeaves, linkVars, wsVars
      <3> QED
        BY <3>1, SeatWorld
    <2>4. CASE \E w \in World : LoadCharacter(w)
      <3>1. /\ UNCHANGED <<login, gsToWs, wsToGs, saveQ, user, bits, sock>>
            /\ \A s \in held' : s \in held \/ user[s] = "registered"
        BY <2>1, <2>4 DEF LoadCharacter, linkVars, wsVars
      <3> QED
        BY <3>1, SeatWorld
    <2> QED
      BY <1>1, <1>5, <2>1, <2>2, <2>3, <2>4, SeatReply, SeatKick, SeatSave DEF ChannelStep
  <1>6. CASE \E s \in Session : EnterChannel(s)
    BY <1>1, <1>6, SeatEnter
  <1>7. \A w \in World : ~Reconnect(w)
    BY <1>1, NoLoss
  <1>8. CASE UNCHANGED vars
    BY <1>2, <1>8 DEF vars, linkVars
  <1> QED
    BY <1>3, <1>4, <1>5, <1>6, <1>7, <1>8 DEF Next

LEMMA InitSeat == Init => Seat /\ NoKicks
  <1> SUFFICES ASSUME Init PROVE Seat /\ NoKicks
    OBVIOUS
  <1>1. /\ Started = {} /\ held = {} /\ retries = 0
        /\ \A c \in Conn : toWs[c] = <<>>
        /\ \A w \in World : gsToWs[w] = <<>>
    BY DEF Init, LinksInit, LoginInit, ChannelInit, Started
  <1>2. Releasing
    BY <1>1, EmptyHasNone DEF Releasing
  <1>3. NoKicks
    BY <1>1, EmptyHasNone DEF NoKicks
  <1> QED
    BY <1>1, <1>2, <1>3 DEF Seat, Playing, Asking, Backed, Holding

\* A channel server has one session of an account in memory, for any number of worlds,
\* accounts and sessions: while one may have its character there, the record of the
\* account at the world has the GS bit, a world has one record of the account, and the
\* packet that gives the bit back is sent when the character is written.
THEOREM SeatSafety ==
    ASSUME MaxLoss = 0, MaxRetry = 0
    PROVE  Spec => [](\A s, t \in held : SamePlace(s, t) => s = t)
  <1> DEFINE J == Steadily /\ NoKicks /\ Seat
             OnePerPlace == \A s, t \in held : SamePlace(s, t) => s = t
  <1>1. Init => J
    BY InitOnce, InitSeat
  <1>2. J /\ [Next]_vars => J'
    BY NextTyped, QuietStep, NoKickStep, SeatStep DEF Steadily
  <1>3. J => OnePerPlace
    <2> SUFFICES ASSUME J, NEW s \in held, NEW t \in held, SamePlace(s, t)
                 PROVE  s = t
      OBVIOUS
    <2>1. s \in Started /\ t \in Started
      BY DEF Steadily, Typed, Leaving
    <2>2. "GS" \in bits[s] /\ "GS" \in bits[t]
      BY <2>1 DEF Seat, Holding, Backed, Bound
    <2> QED
      BY <2>1, <2>2, OneSeat DEF Steadily, Typed
  <1> QED
    BY <1>1, <1>2, <1>3, PTL DEF Spec

\* In one world, at most one session of an account has a character in memory that is
\* not saved.  With two worlds the login server can join an account twice.
THEOREM HolderSafety ==
    ASSUME OneWorld, MaxLoss = 0, MaxRetry = 0 PROVE Spec => []OneHolder
  <1> DEFINE OnePerPlace == \A s, t \in held : SamePlace(s, t) => s = t
  <1>1. Typed /\ OnePerPlace => OneHolder
    BY QueueTypes DEF OneHolder, OneWorld, SamePlace, Typed, Leaving
  <1>2. Spec => []OnePerPlace
    BY SeatSafety
  <1> QED
    BY <1>1, <1>2, TypeInvariance, PTL

-----------------------------------------------------------------------------
(***************************************************************************)
(* The tenure of a session at its world: from the confirmation to the      *)
(* packet that ends it, the JOIN list has an entry of it with the world's  *)
(* server.  With one world the packets of an account all go one way.       *)
(***************************************************************************)
Granted(s) == Has(toWs[Current(WorldOf(s))], Oks(s))
Returned(w, a) == Has(toLs[Current(w)], Subs(a))
Owned(s) == \E i \in DOMAIN join : join[i].lsid = s /\ join[i].srv # NoConn

Granting ==
    \A s \in Started :
        /\ Single(toWs[Current(WorldOf(s))], Oks(s))
        /\ Granted(s) => bits[s] = {}

Owning ==
    \A s \in Started :
        Granted(s) \/ bits[s] # {} => Owned(s) /\ ~Returned(WorldOf(s), AccountOf(s))

Returning ==
    \A w \in World, a \in Account :
        /\ Single(toLs[Current(w)], Subs(a))
        /\ Returned(w, a) => \E s \in Started : AccountOf(s) = a /\ Owned(s)

Tenure == Granting /\ Owning /\ Returning

LEMMA OneOwned ==
    ASSUME OneJoinPerAccount, NEW s, NEW t, Owned(s), Owned(t), AccountOf(s) = AccountOf(t)
    PROVE  s = t
  <1>1. PICK i \in DOMAIN join : join[i].lsid = s
    BY DEF Owned
  <1>2. PICK j \in DOMAIN join : join[j].lsid = t
    BY DEF Owned
  <1>3. i = j
    BY <1>1, <1>2 DEF OneJoinPerAccount, SameAccount
  <1> QED
    BY <1>1, <1>2, <1>3

LEMMA LinkFacts ==
    ASSUME MaxLoss = 0, Steadily, [Next]_vars
    PROVE  /\ \A w \in World : /\ Current(w)' = Current(w) /\ Current(w) \in Conn
                               /\ Current(w)[1] = w
           /\ \A c \in Conn : c[1] \in World /\ c = Current(c[1])
           /\ \A w \in World : \A p : SendToLs(w, toLs, p)
                                        = [toLs EXCEPT ![Current(w)] = Append(@, p)]
           /\ \A c \in Conn : \A p : SendToWs(c, toWs, p) = [toWs EXCEPT ![c] = Append(@, p)]
  <1>1. LinksInv /\ LinksInv'
    BY NextInv DEF Steadily, Typed, Inv
  <1>2. epoch \in [World -> 0 .. 0] /\ epoch' \in [World -> 0 .. 0]
    BY <1>1 DEF LinksInv
  <1>3. \A w \in World : epoch[w] = 0 /\ epoch'[w] = 0
    BY <1>2
  <1>4. \A w \in World : Current(w)' = Current(w) /\ Current(w) \in Conn /\ Current(w)[1] = w
    BY <1>1, <1>3, CurrentConn DEF Current
  <1>5. \A w \in World : linkUp[w]
    BY <1>1, Steady
  <1>6. \A c \in Conn : Live(c) /\ c = Current(c[1]) /\ c[1] \in World
    BY <1>1, Steady
  <1>7. \A c \in Conn : c # NoConn
    BY ConnFacts
  <1>8. \A w \in World : \A p : SendToLs(w, toLs, p)
                                   = [toLs EXCEPT ![Current(w)] = Append(@, p)]
    BY <1>5 DEF SendToLs
  <1>9. \A c \in Conn : \A p : SendToWs(c, toWs, p) = [toWs EXCEPT ![c] = Append(@, p)]
    BY <1>6, <1>7 DEF SendToWs
  <1> QED
    BY <1>4, <1>6, <1>8, <1>9

\* Steps that end no tenure.
LEMMA TenureKept ==
    ASSUME Tenure, UNCHANGED login,
           \A w \in World : Current(w)' = Current(w),
           \A s \in Started : AccountOf(s) \in Account /\ WorldOf(s) \in World,
           \A w \in World : \A a \in Account :
               /\ Has(toLs'[Current(w)], Subs(a)) => Has(toLs[Current(w)], Subs(a))
               /\ Single(toLs[Current(w)], Subs(a)) => Single(toLs'[Current(w)], Subs(a)),
           \A w \in World : \A s \in Started :
               /\ Has(toWs'[Current(w)], Oks(s)) => Has(toWs[Current(w)], Oks(s))
               /\ Single(toWs[Current(w)], Oks(s)) => Single(toWs'[Current(w)], Oks(s)),
           \A s \in Started : bits'[s] # {} => bits[s] # {},
           \A s \in Started : Owned(s) => Owned(s)'
    PROVE  Tenure'
  <1>1. Started' = Started /\ \A s : WorldOf(s)' = WorldOf(s) /\ AccountOf(s)' = AccountOf(s)
    BY DEF Started, WorldOf, AccountOf
  <1>2. \A s \in Started : Granted(s)' => Granted(s)
    BY <1>1 DEF Granted
  <1>3. Granting'
    <2> SUFFICES ASSUME NEW s \in Started
                 PROVE  /\ Single(toWs'[Current(WorldOf(s))'], Oks(s))
                        /\ Granted(s)' => bits'[s] = {}
      BY <1>1 DEF Granting
    <2>1. Current(WorldOf(s))' = Current(WorldOf(s))
      BY <1>1
    <2>2. Single(toWs'[Current(WorldOf(s))], Oks(s))
      BY DEF Tenure, Granting
    <2> QED
      BY <1>2, <2>1, <2>2 DEF Tenure, Granting
  <1>4. Owning'
    <2> SUFFICES ASSUME NEW s \in Started, Granted(s)' \/ bits'[s] # {}
                 PROVE  Owned(s)' /\ ~Returned(WorldOf(s), AccountOf(s))'
      BY <1>1 DEF Owning
    <2>1. Owned(s) /\ ~Returned(WorldOf(s), AccountOf(s))
      BY <1>2 DEF Tenure, Owning
    <2> QED
      BY <1>1, <2>1 DEF Returned
  <1>5. Returning'
    <2> SUFFICES ASSUME NEW w \in World, NEW a \in Account
                 PROVE  /\ Single(toLs'[Current(w)], Subs(a))
                        /\ Has(toLs'[Current(w)], Subs(a)) =>
                              \E s \in Started : AccountOf(s) = a /\ Owned(s)'
      BY <1>1 DEF Returning, Returned
    <2> QED
      BY DEF Tenure, Returning, Returned
  <1> QED
    BY <1>3, <1>4, <1>5 DEF Tenure

\* The tenure of s ends.
LEMMA TenureEnds ==
    ASSUME OneWorld, Typed, OneJoinPerAccount, Tenure, UNCHANGED <<login, join>>,
           \A w \in World : Current(w)' = Current(w),
           NEW s \in Started, Granted(s) \/ bits[s] # {},
           \A w \in World : \A a \in Account :
               /\ Has(toLs'[Current(w)], Subs(a))
                     => Has(toLs[Current(w)], Subs(a)) \/ a = AccountOf(s)
               /\ Single(toLs[Current(w)], Subs(a))
                  /\ (a = AccountOf(s) => ~Has(toLs[Current(w)], Subs(a)))
                     => Single(toLs'[Current(w)], Subs(a)),
           \A w \in World : \A t \in Started :
               /\ Has(toWs'[Current(w)], Oks(t)) => Has(toWs[Current(w)], Oks(t))
               /\ Single(toWs[Current(w)], Oks(t)) => Single(toWs'[Current(w)], Oks(t)),
           \A t \in Started : t # s => bits'[t] = bits[t],
           bits'[s] = {}, ~Has(toWs'[Current(WorldOf(s))], Oks(s))
    PROVE  Tenure'
  <1>1. Started' = Started /\ \A t : WorldOf(t)' = WorldOf(t) /\ AccountOf(t)' = AccountOf(t)
    BY DEF Started, WorldOf, AccountOf
  <1>2. \A t \in Started : AccountOf(t) \in Account /\ WorldOf(t) \in World
    BY QueueTypes
  <1>3. \A t \in Started : Granted(t)' => Granted(t)
    BY <1>1, <1>2 DEF Granted
  <1>4. ~Granted(s)'
    BY <1>1, <1>2 DEF Granted
  <1>5. \A t : Owned(t)' <=> Owned(t)
    BY DEF Owned
  <1>6. PICK a \in Account : a = AccountOf(s)
    BY <1>2
  <1>7. Owned(s) /\ \A w \in World : ~Has(toLs[Current(w)], Subs(a))
    BY <1>2, <1>6 DEF Tenure, Owning, Returned, OneWorld
  <1>8. Granting'
    <2> SUFFICES ASSUME NEW t \in Started
                 PROVE  /\ Single(toWs'[Current(WorldOf(t))'], Oks(t))
                        /\ Granted(t)' => bits'[t] = {}
      BY <1>1 DEF Granting
    <2>1. Current(WorldOf(t))' = Current(WorldOf(t))
      BY <1>1, <1>2
    <2>2. Single(toWs'[Current(WorldOf(t))], Oks(t))
      BY <1>2 DEF Tenure, Granting
    <2> QED
      BY <1>3, <2>1, <2>2 DEF Tenure, Granting
  <1>9. Owning'
    <2> SUFFICES ASSUME NEW t \in Started, Granted(t)' \/ bits'[t] # {}
                 PROVE  Owned(t)' /\ ~Has(toLs'[Current(WorldOf(t))], Subs(AccountOf(t)))
      BY <1>1, <1>2 DEF Owning, Returned
    <2>1. t # s
      BY <1>4
    <2>2. Owned(t) /\ ~Has(toLs[Current(WorldOf(t))], Subs(AccountOf(t)))
      BY <1>3, <2>1 DEF Tenure, Owning, Returned
    <2>3. AccountOf(t) # AccountOf(s)
      BY <1>7, <2>1, <2>2, OneOwned
    <2> QED
      BY <1>2, <1>5, <2>2, <2>3
  <1>10. Returning'
    <2> SUFFICES ASSUME NEW w \in World, NEW b \in Account
                 PROVE  /\ Single(toLs'[Current(w)], Subs(b))
                        /\ Has(toLs'[Current(w)], Subs(b)) =>
                              \E t \in Started : AccountOf(t) = b /\ Owned(t)
      BY <1>1, <1>5 DEF Returning, Returned
    <2>1. Single(toLs'[Current(w)], Subs(b))
      BY <1>6, <1>7 DEF Tenure, Returning
    <2>2. Has(toLs'[Current(w)], Subs(b)) =>
              \E t \in Started : AccountOf(t) = b /\ Owned(t)
      BY <1>6, <1>7 DEF Tenure, Returning, Returned
    <2> QED
      BY <2>1, <2>2
  <1> QED
    BY <1>8, <1>9, <1>10 DEF Tenure

\* What is sent and taken between a world and the login server.
LEMMA LsSent ==
    ASSUME MaxLoss = 0, Steadily, [Next]_vars, NEW w \in World, NEW p \in Packet,
           toLs' = SendToLs(w, toLs, p)
    PROVE  \A v \in World : \A P :
              /\ Has(toLs'[Current(v)], P) <=> Has(toLs[Current(v)], P) \/ (v = w /\ p \in P)
              /\ Single(toLs[Current(v)], P) /\ (v = w /\ p \in P => ~Has(toLs[Current(v)], P))
                    => Single(toLs'[Current(v)], P)
  <1>1. PICK c \in Conn : c = Current(w)
    BY LinkFacts
  <1>2. PICK q \in Seq(Packet) : q = toLs[c]
    BY DEF Steadily, Quiet
  <1>3. toLs'[c] = Append(q, p) /\ \A d \in Conn : d # c => toLs'[d] = toLs[d]
    BY <1>1, <1>2, LinkFacts DEF Steadily, Quiet
  <1>4. \A P : /\ Has(Append(q, p), P) <=> Has(q, P) \/ p \in P
               /\ Single(q, P) /\ (p \in P => ~Has(q, P)) => Single(Append(q, p), P)
    BY <1>2, HasAfterSend
  <1>5. \A v \in World : v = w \/ (Current(v) \in Conn /\ Current(v) # c)
    BY <1>1, LinkFacts
  <1> QED
    BY <1>1, <1>2, <1>3, <1>4, <1>5

LEMMA LsTaken ==
    ASSUME MaxLoss = 0, Steadily, [Next]_vars, NEW w \in World, toLs[Current(w)] # <<>>,
           toLs' = [toLs EXCEPT ![Current(w)] = Tail(@)]
    PROVE  /\ \A v \in World : \A P : /\ Has(toLs'[Current(v)], P) => Has(toLs[Current(v)], P)
                                      /\ Single(toLs[Current(v)], P)
                                            => Single(toLs'[Current(v)], P)
           /\ \A P : Head(toLs[Current(w)]) \in P => Has(toLs[Current(w)], P)
           /\ \A P : Single(toLs[Current(w)], P) /\ Head(toLs[Current(w)]) \in P
                        => ~Has(toLs'[Current(w)], P)
  <1>1. PICK c \in Conn : c = Current(w)
    BY LinkFacts
  <1>2. PICK q \in Seq(Packet) : q = toLs[c] /\ q # <<>>
    BY <1>1 DEF Steadily, Quiet
  <1>3. toLs'[c] = Tail(q) /\ \A d \in Conn : d # c => toLs'[d] = toLs[d]
    BY <1>1, <1>2 DEF Steadily, Quiet
  <1>4. \A P : /\ Has(Tail(q), P) => Has(q, P)
               /\ Single(q, P) => Single(Tail(q), P)
    BY <1>2, HasAfterTake
  <1>5. \A P : /\ Head(q) \in P => Has(q, P)
               /\ Single(q, P) /\ Head(q) \in P => ~Has(Tail(q), P)
    BY <1>2, HasAfterTake
  <1>6. \A v \in World : v = w \/ (Current(v) \in Conn /\ Current(v) # c)
    BY <1>1, LinkFacts
  <1> QED
    BY <1>1, <1>2, <1>3, <1>4, <1>5, <1>6

LEMMA ReplySent ==
    ASSUME MaxLoss = 0, Steadily, [Next]_vars, NEW w \in World, NEW p \in Packet,
           toWs' = SendToWs(Current(w), toWs, p)
    PROVE  \A v \in World : \A P :
              /\ Has(toWs'[Current(v)], P) <=> Has(toWs[Current(v)], P) \/ (v = w /\ p \in P)
              /\ Single(toWs[Current(v)], P) /\ (v = w /\ p \in P => ~Has(toWs[Current(v)], P))
                    => Single(toWs'[Current(v)], P)
  <1>1. PICK c \in Conn : c = Current(w)
    BY LinkFacts
  <1>2. PICK q \in Seq(Packet) : q = toWs[c]
    BY DEF Steadily, Typed, Packets
  <1>3. toWs'[c] = Append(q, p) /\ \A d \in Conn : d # c => toWs'[d] = toWs[d]
    BY <1>1, <1>2, LinkFacts DEF Steadily, Typed, Packets
  <1>4. \A P : /\ Has(Append(q, p), P) <=> Has(q, P) \/ p \in P
               /\ Single(q, P) /\ (p \in P => ~Has(q, P)) => Single(Append(q, p), P)
    BY <1>2, HasAfterSend
  <1>5. \A v \in World : v = w \/ (Current(v) \in Conn /\ Current(v) # c)
    BY <1>1, LinkFacts
  <1> QED
    BY <1>1, <1>2, <1>3, <1>4, <1>5

LEMMA ReplyTaken ==
    ASSUME MaxLoss = 0, Steadily, [Next]_vars, NEW w \in World, toWs[Current(w)] # <<>>,
           toWs' = [toWs EXCEPT ![Current(w)] = Tail(@)]
    PROVE  /\ \A v \in World : \A P : /\ Has(toWs'[Current(v)], P) => Has(toWs[Current(v)], P)
                                      /\ Single(toWs[Current(v)], P)
                                            => Single(toWs'[Current(v)], P)
           /\ \A P : Head(toWs[Current(w)]) \in P => Has(toWs[Current(w)], P)
           /\ \A P : Single(toWs[Current(w)], P) /\ Head(toWs[Current(w)]) \in P
                        => ~Has(toWs'[Current(w)], P)
  <1>1. PICK c \in Conn : c = Current(w)
    BY LinkFacts
  <1>2. PICK q \in Seq(Packet) : q = toWs[c] /\ q # <<>>
    BY <1>1 DEF Steadily, Typed, Packets
  <1>3. toWs'[c] = Tail(q) /\ \A d \in Conn : d # c => toWs'[d] = toWs[d]
    BY <1>1, <1>2 DEF Steadily, Typed, Packets
  <1>4. \A P : /\ Has(Tail(q), P) => Has(q, P)
               /\ Single(q, P) => Single(Tail(q), P)
    BY <1>2, HasAfterTake
  <1>5. \A P : /\ Head(q) \in P => Has(q, P)
               /\ Single(q, P) /\ Head(q) \in P => ~Has(Tail(q), P)
    BY <1>2, HasAfterTake
  <1>6. \A v \in World : v = w \/ (Current(v) \in Conn /\ Current(v) # c)
    BY <1>1, LinkFacts
  <1> QED
    BY <1>1, <1>2, <1>3, <1>4, <1>5, <1>6

-----------------------------------------------------------------------------
(***************************************************************************)
(* The login server's steps.                                               *)
(***************************************************************************)
LEMMA TenureStarts ==
    ASSUME MaxLoss = 0, Steadily, Tenure, [Next]_vars,
           NEW a \in Account, NEW w \in World, SelectServer(a, w), UNCHANGED wsVars
    PROVE  Tenure'
  <1>1. PICK n : n = Len(login) + 1
    OBVIOUS
  <1>2. /\ Started' = Started \cup {n} /\ n \notin Started /\ n \in Session
        /\ \A s \in Started : AccountOf(s)' = AccountOf(s) /\ WorldOf(s)' = WorldOf(s)
    BY <1>1, SessionStarts DEF Steadily, Typed
  <1>3. UNCHANGED <<toLs, toWs, join, bits>>
    BY DEF SelectServer, wsVars
  <1>4. \A v \in World : Current(v)' = Current(v) /\ Current(v) \in Conn /\ Current(v)[1] = v
    BY LinkFacts
  <1>5. bits[n] = {}
    BY <1>2 DEF Steadily, Typed, Inv, WorldInv
  <1>6. \A v \in World : ~Has(toWs[Current(v)], Oks(n))
    <2> SUFFICES ASSUME NEW v \in World PROVE ~Has(toWs[Current(v)], Oks(n))
      OBVIOUS
    <2>1. n \notin At(login, v)
      BY <1>2 DEF At, Started
    <2>2. toWs[Current(v)] \in Seq(Mail(At(login, v)))
      <3>1. PICK c \in Conn : c = Current(v) /\ c[1] = v
        BY <1>4
      <3>2. Carries(toWs, ConnHome(login))
        BY DEF Steadily, Typed, Inv, LinksInv
      <3>3. c \in DOMAIN ConnHome(login) /\ ConnHome(login)[c] = At(login, v)
        BY <3>1, Homes
      <3> QED
        BY <3>1, <3>2, <3>3 DEF Carries
    <2>3. \A k \in DOMAIN toWs[Current(v)] : toWs[Current(v)][k] \in Mail(At(login, v))
      BY <2>2, ElementOfSeq, LenProperties
    <2>4. ConfirmReply("ok", n) \notin Mail(At(login, v))
      BY <2>1 DEF Mail, ConfirmReply
    <2> QED
      BY <2>3, <2>4 DEF Has, Oks
  <1>7. WorldOf(n)' \in World
    <2>1. /\ login' = Append(login, [account |-> a, world |-> w])
          /\ login \in Seq([account : Account, world : World])
      BY DEF SelectServer, Steadily, Typed, Inv, LinksInv
    <2>2. login'[n] = [account |-> a, world |-> w]
      BY <1>1, <2>1
    <2> QED
      BY <2>2 DEF WorldOf
  <1>8. \A s \in Started : WorldOf(s) \in World /\ AccountOf(s) \in Account
    BY QueueTypes DEF Steadily
  <1>9. \A s : Owned(s)' <=> Owned(s)
    BY <1>3 DEF Owned
  <1>10. \A s \in Started : Current(WorldOf(s))' = Current(WorldOf(s))
    BY <1>2, <1>4, <1>8 DEF Current
  <1>11. \A s \in Started : Granted(s)' <=> Granted(s)
    BY <1>2, <1>3, <1>10 DEF Granted
  <1>12. ~Granted(n)' /\ Single(toWs'[Current(WorldOf(n))'], Oks(n))
    <2>1. PICK v \in World : v = WorldOf(n)'
      BY <1>7
    <2>2. Current(WorldOf(n))' = Current(v)
      BY <1>4, <2>1 DEF Current
    <2> QED
      BY <1>3, <1>6, <2>1, <2>2 DEF Granted, Has, Single
  <1>13. Granting'
    <2>1. \A s \in Started : /\ Single(toWs'[Current(WorldOf(s))'], Oks(s))
                             /\ Granted(s)' => bits'[s] = {}
      BY <1>3, <1>10, <1>11 DEF Tenure, Granting
    <2> QED
      BY <1>2, <1>12, <2>1 DEF Granting
  <1>14. Owning'
    <2>1. \A s \in Started : Granted(s)' \/ bits'[s] # {} =>
                                Owned(s)' /\ ~Has(toLs'[Current(WorldOf(s))'], Subs(AccountOf(s)'))
      BY <1>2, <1>3, <1>9, <1>10, <1>11 DEF Tenure, Owning, Returned
    <2> QED
      BY <1>2, <1>3, <1>5, <1>12, <2>1 DEF Owning, Returned
  <1>15. Returning'
    <2> SUFFICES ASSUME NEW v \in World, NEW b \in Account
                 PROVE  /\ Single(toLs'[Current(v)], Subs(b))
                        /\ Has(toLs'[Current(v)], Subs(b)) =>
                              \E s \in Started : AccountOf(s) = b /\ Owned(s)
      BY <1>2, <1>4, <1>9 DEF Returning, Returned
    <2> QED
      BY <1>3 DEF Tenure, Returning, Returned
  <1> QED
    BY <1>13, <1>14, <1>15 DEF Tenure

LEMMA TenureCheck ==
    ASSUME MaxLoss = 0, Steadily, Tenure, [Next]_vars, NEW c \in Conn, ConfirmCheck(c),
           UNCHANGED wsVars
    PROVE  Tenure'
  <1>1. PICK w \in World : c = Current(w)
    BY LinkFacts
  <1>2. /\ toLs[Current(w)] # <<>> /\ toLs' = [toLs EXCEPT ![Current(w)] = Tail(@)]
        /\ UNCHANGED <<login, join, bits>>
    BY <1>1 DEF ConfirmCheck, Receives, wsVars
  <1>3. PICK s : s = Head(toLs[c]).lsid
    OBVIOUS
  <1>4. s \in Session
    <2>1. toLs[c] # <<>> /\ Head(toLs[c]).type = "confirm"
      BY DEF ConfirmCheck, Receives
    <2>2. Head(toLs[c]) \in Packet
      BY <2>1, TypedTake DEF Steadily, Quiet
    <2> QED
      BY <1>3, <2>1, <2>2, PacketReads
  <1>5. \A v \in World : \A P : /\ Has(toLs'[Current(v)], P) => Has(toLs[Current(v)], P)
                                /\ Single(toLs[Current(v)], P) => Single(toLs'[Current(v)], P)
    BY <1>2, LsTaken
  <1>6. \A v \in World : \A t \in Started :
            /\ Has(toWs'[Current(v)], Oks(t)) => Has(toWs[Current(v)], Oks(t))
            /\ Single(toWs[Current(v)], Oks(t)) => Single(toWs'[Current(v)], Oks(t))
    <2>1. \/ UNCHANGED toWs
          \/ \E r \in {"timeout", "already"} : toWs' = SendToWs(c, toWs, ConfirmReply(r, s))
      BY <1>3 DEF ConfirmCheck
    <2>2. CASE \E r \in {"timeout", "already"} : toWs' = SendToWs(c, toWs, ConfirmReply(r, s))
      <3>1. PICK r \in {"timeout", "already"} : toWs' = SendToWs(c, toWs, ConfirmReply(r, s))
        BY <2>2
      <3>2. PICK p \in Packet : p = ConfirmReply(r, s)
        BY <1>4, PacketForms
      <3>3. \A t : p \notin Oks(t)
        BY <3>2, KindsOfAnswer DEF Results
      <3>4. toWs' = SendToWs(Current(w), toWs, p)
        BY <1>1, <3>1, <3>2
      <3>5. \A v \in World : \A P :
               /\ Has(toWs'[Current(v)], P)
                     <=> Has(toWs[Current(v)], P) \/ (v = w /\ p \in P)
               /\ Single(toWs[Current(v)], P) /\ (v = w /\ p \in P => ~Has(toWs[Current(v)], P))
                     => Single(toWs'[Current(v)], P)
        BY <3>4, ReplySent
      <3> QED
        BY <3>3, <3>5
    <2> QED
      BY <2>1, <2>2
  <1>7. \A t : Owned(t)' <=> Owned(t)
    BY <1>2 DEF Owned
  <1>8. /\ \A v \in World : Current(v)' = Current(v)
        /\ \A t \in Started : AccountOf(t) \in Account /\ WorldOf(t) \in World
    BY LinkFacts, QueueTypes DEF Steadily
  <1> QED
    BY <1>2, <1>5, <1>6, <1>7, <1>8, TenureKept

LEMMA TenureInsert ==
    ASSUME OneWorld, MaxLoss = 0, Steadily, Once, Vetted, Tenure, [Next]_vars,
           NEW c \in Conn, ConfirmInsert(c), UNCHANGED wsVars
    PROVE  Tenure'
  <1>1. PICK w \in World : c = Current(w) /\ c[1] = w
    BY LinkFacts
  <1>2. PICK s : s = checked[c]
    OBVIOUS
  <1>3. s \in Started /\ s \in Session /\ WorldOf(s) = w
    <2>1. s # 0 /\ s \in At(login, w)
      BY <1>1, <1>2 DEF ConfirmInsert, Steadily, Typed, Inv, LoginInv
    <2> QED
      BY <2>1, SessionFacts DEF Steadily, Typed, Inv
  <1>4. PICK e : e = Entry(s, c)
    OBVIOUS
  <1>5. /\ join' = <<e>> \o join /\ s # 0
        /\ toWs' = SendToWs(Current(w), toWs, ConfirmReply("ok", s))
        /\ UNCHANGED <<login, toLs, bits>>
    BY <1>1, <1>2, <1>4 DEF ConfirmInsert, wsVars
  <1>6. /\ \A v \in World : Current(v)' = Current(v)
        /\ \A t \in Started : AccountOf(t) \in Account /\ WorldOf(t) \in World
    BY LinkFacts, QueueTypes DEF Steadily
  <1>7. Started' = Started /\ \A t : WorldOf(t)' = WorldOf(t) /\ AccountOf(t)' = AccountOf(t)
    BY <1>5 DEF Started, WorldOf, AccountOf
  <1>8. PICK p \in Packet : p = ConfirmReply("ok", s)
    BY <1>3, PacketForms
  <1>9. \A t : p \in Oks(t) <=> t = s
    BY <1>8, KindsOfAnswer DEF Results
  <1>10. \A v \in World : \A P :
             /\ Has(toWs'[Current(v)], P) <=> Has(toWs[Current(v)], P) \/ (v = w /\ p \in P)
             /\ Single(toWs[Current(v)], P) /\ (v = w /\ p \in P => ~Has(toWs[Current(v)], P))
                   => Single(toWs'[Current(v)], P)
    <2>1. toWs' = SendToWs(Current(w), toWs, p)
      BY <1>5, <1>8
    <2> QED
      BY <2>1, ReplySent
  <1>11. /\ \A i \in DOMAIN join : i + 1 \in DOMAIN join' /\ join'[i + 1] = join[i]
         /\ 1 \in DOMAIN join' /\ join'[1] = e
    <2>1. Len(join) \in Nat
      BY LenProperties DEF Steadily, Typed, LoginTypes
    <2> QED
      BY <1>5, <2>1, InsertFacts DEF Steadily, Typed
  <1>12. \A t : Owned(t) => Owned(t)'
    BY <1>11 DEF Owned
  <1>13. Owned(s)'
    <2>1. c # NoConn
      BY ConnFacts
    <2> QED
      BY <1>4, <1>11, <2>1 DEF Owned, Entry
  \* The account has no entry, and so neither a record nor a packet under way.
  <1>14. \A t \in Started : Owned(t) => AccountOf(t) # AccountOf(s)
    BY <1>2, <1>5 DEF Owned, Vetted, SameAccount
  <1>15. bits[s] = {} /\ ~Granted(s)
    BY <1>3, <1>14 DEF Tenure, Owning
  <1>16. \A v \in World : ~Has(toLs[Current(v)], Subs(AccountOf(s)))
    BY <1>3, <1>6, <1>14 DEF Tenure, Returning, Returned
  <1>17. \A t \in Started : t # s => (Granted(t)' <=> Granted(t))
    BY <1>6, <1>7, <1>9, <1>10 DEF Granted
  <1>18. Granting'
    <2> SUFFICES ASSUME NEW t \in Started
                 PROVE  /\ Single(toWs'[Current(WorldOf(t))'], Oks(t))
                        /\ Granted(t)' => bits'[t] = {}
      BY <1>7 DEF Granting
    <2>1. Current(WorldOf(t))' = Current(WorldOf(t)) /\ WorldOf(t) \in World
      BY <1>6, <1>7
    <2>2. Single(toWs'[Current(WorldOf(t))], Oks(t))
      BY <1>3, <1>9, <1>10, <1>15, <2>1 DEF Tenure, Granting, Granted
    <2> QED
      BY <1>5, <1>15, <1>17, <2>1, <2>2 DEF Tenure, Granting
  <1>19. Owning'
    <2> SUFFICES ASSUME NEW t \in Started, Granted(t)' \/ bits'[t] # {}
                 PROVE  Owned(t)' /\ ~Has(toLs'[Current(WorldOf(t))], Subs(AccountOf(t)))
      BY <1>6, <1>7 DEF Owning, Returned
    <2>1. CASE t = s
      BY <1>3, <1>5, <1>13, <1>16, <2>1
    <2>2. CASE t # s
      BY <1>5, <1>12, <1>17, <2>2 DEF Tenure, Owning, Returned
    <2> QED
      BY <2>1, <2>2
  <1>20. Returning'
    <2> SUFFICES ASSUME NEW v \in World, NEW b \in Account
                 PROVE  /\ Single(toLs'[Current(v)], Subs(b))
                        /\ Has(toLs'[Current(v)], Subs(b)) =>
                              \E t \in Started : AccountOf(t) = b /\ Owned(t)'
      BY <1>6, <1>7 DEF Returning, Returned
    <2> QED
      BY <1>5, <1>12 DEF Tenure, Returning, Returned
  <1> QED
    BY <1>18, <1>19, <1>20 DEF Tenure

\* The session a packet ends has the account's one entry, which still has its server.
LEMMA TenureSub ==
    ASSUME OneWorld, MaxLoss = 0, Steadily, OneJoinPerAccount, Tenure, [Next]_vars,
           NEW c \in Conn, RecvSubAccount(c), UNCHANGED wsVars
    PROVE  Tenure'
  <1>1. PICK w \in World : c = Current(w) /\ c[1] = w
    BY LinkFacts
  <1>2. /\ toLs[Current(w)] # <<>> /\ toLs' = [toLs EXCEPT ![Current(w)] = Tail(@)]
        /\ Head(toLs[Current(w)]).type = "sub"
        /\ UNCHANGED <<login, toWs, bits>>
    BY <1>1 DEF RecvSubAccount, Receives, wsVars
  <1>3. PICK a \in Account : a = Head(toLs[c]).account /\ Head(toLs[c]) = SubAccount(a)
    <2>1. Head(toLs[c]) \in Packet
      BY <1>1, <1>2, TypedTake DEF Steadily, Quiet
    <2> QED
      BY <1>1, <1>2, <2>1, PacketIs, PacketReads
  <1>4. \A b : Head(toLs[Current(w)]) \in Subs(b) <=> a = b
    BY <1>1, <1>3, KindsOfSub
  <1>5. /\ \A v \in World : \A P : /\ Has(toLs'[Current(v)], P) => Has(toLs[Current(v)], P)
                                   /\ Single(toLs[Current(v)], P)
                                         => Single(toLs'[Current(v)], P)
        /\ \A P : Head(toLs[Current(w)]) \in P => Has(toLs[Current(w)], P)
        /\ \A P : Single(toLs[Current(w)], P) /\ Head(toLs[Current(w)]) \in P
                     => ~Has(toLs'[Current(w)], P)
    BY <1>2, LsTaken
  <1>6. Returned(w, a) /\ ~Has(toLs'[Current(w)], Subs(a))
    BY <1>4, <1>5 DEF Returned, Tenure, Returning
  <1>7. /\ \A v \in World : v = w /\ Current(v)' = Current(v)
        /\ \A t \in Started : AccountOf(t) \in Account /\ WorldOf(t) = w
    BY LinkFacts, QueueTypes DEF Steadily, OneWorld
  <1>8. Started' = Started /\ \A t : WorldOf(t)' = WorldOf(t) /\ AccountOf(t)' = AccountOf(t)
    BY <1>2 DEF Started, WorldOf, AccountOf
  <1>9. \A t \in Started : AccountOf(t) # a /\ Owned(t) => Owned(t)'
    <2>1. CASE UNCHANGED join
      BY <2>1 DEF Owned
    <2>2. CASE ~UNCHANGED join
      <3>1. PICK e : e = Search(a, join)
        OBVIOUS
      <3>2. Found(a, join) /\ join' = Change(e, Disowned(e))
        BY <1>3, <2>2, <3>1 DEF RecvSubAccount
      <3>3. e \in Entries /\ AccountOf(e.lsid) = a
        BY <3>1, <3>2, SearchEntry DEF Steadily, Typed
      <3>4. Disowned(e) \in Entries /\ Disowned(e).lsid = e.lsid
        BY <3>3 DEF Disowned, Entries
      <3>5. PICK f \in Entries : f = Disowned(e)
        BY <3>4
      <3>6. f.lsid = e.lsid /\ join' = Change(e, f)
        BY <3>2, <3>4, <3>5
      <3>7. /\ DOMAIN join' = DOMAIN join
            /\ \A i \in DOMAIN join : join'[i] = IF join[i] = e THEN f ELSE join[i]
        BY <3>6, ChangeOnce DEF Steadily, Typed
      <3> QED
        BY <3>3, <3>7 DEF Owned
    <2> QED
      BY <2>1, <2>2
  <1>10. \A t \in Started : Granted(t)' <=> Granted(t)
    BY <1>2, <1>7, <1>8 DEF Granted
  <1>11. Granting'
    <2> SUFFICES ASSUME NEW t \in Started
                 PROVE  /\ Single(toWs'[Current(WorldOf(t))'], Oks(t))
                        /\ Granted(t)' => bits'[t] = {}
      BY <1>8 DEF Granting
    <2>1. Current(WorldOf(t))' = Current(WorldOf(t))
      BY <1>7, <1>8
    <2> QED
      BY <1>2, <1>10, <2>1 DEF Tenure, Granting
  <1>12. Owning'
    <2> SUFFICES ASSUME NEW t \in Started, Granted(t)' \/ bits'[t] # {}
                 PROVE  Owned(t)' /\ ~Has(toLs'[Current(w)], Subs(AccountOf(t)))
      BY <1>7, <1>8 DEF Owning, Returned
    <2>1. Owned(t) /\ ~Has(toLs[Current(w)], Subs(AccountOf(t)))
      BY <1>2, <1>7, <1>10 DEF Tenure, Owning, Returned
    <2>2. AccountOf(t) # a
      BY <1>6, <2>1 DEF Returned
    <2> QED
      BY <1>5, <1>9, <2>1, <2>2
  <1>13. Returning'
    <2> SUFFICES ASSUME NEW b \in Account
                 PROVE  /\ Single(toLs'[Current(w)], Subs(b))
                        /\ Has(toLs'[Current(w)], Subs(b)) =>
                              \E t \in Started : AccountOf(t) = b /\ Owned(t)'
      BY <1>7, <1>8 DEF Returning, Returned
    <2>1. Single(toLs'[Current(w)], Subs(b))
      BY <1>5 DEF Tenure, Returning
    <2>2. CASE b = a
      BY <1>6, <2>1, <2>2
    <2>3. CASE b # a
      <3>1. Has(toLs'[Current(w)], Subs(b)) =>
                \E t \in Started : AccountOf(t) = b /\ Owned(t)
        BY <1>5 DEF Tenure, Returning, Returned
      <3> QED
        BY <1>9, <2>1, <2>3, <3>1
    <2> QED
      BY <2>2, <2>3
  <1> QED
    BY <1>11, <1>12, <1>13 DEF Tenure

LEMMA TenureDelete ==
    ASSUME MaxLoss = 0, Steadily, Once, Tenure, [Next]_vars, DeleteAccount, UNCHANGED wsVars
    PROVE  Tenure'
  <1>1. PICK places : places = {i \in DOMAIN join : join[i].lsid # Head(logoutQ)}
    OBVIOUS
  <1>2. /\ logoutQ # <<>> /\ join' = Picked(join, places)
        /\ UNCHANGED <<login, toLs, toWs, bits>>
    BY <1>1 DEF DeleteAccount, linkVars, wsVars
  <1>3. \A i \in DOMAIN join : i \in places => \E k \in DOMAIN join' : join'[k] = join[i]
    BY <1>2, PickedOnce DEF Steadily, Typed
  <1>4. Head(logoutQ) \in LogoutLsids
    <2>1. logoutQ \in Seq(Started)
      BY DEF Steadily, Typed, LoginTypes
    <2>2. Head(logoutQ) = logoutQ[1] /\ 1 \in DOMAIN logoutQ
      BY <1>2, <2>1, HeadTailProperties, LenProperties
    <2> QED
      BY <2>2 DEF LogoutLsids
  <1>5. \A t : Owned(t) => Owned(t)'
    BY <1>1, <1>3, <1>4 DEF Owned, Once, Out
  <1>6. /\ \A v \in World : Current(v)' = Current(v)
        /\ \A t \in Started : AccountOf(t) \in Account /\ WorldOf(t) \in World
    BY LinkFacts, QueueTypes DEF Steadily
  <1> QED
    BY <1>2, <1>5, <1>6, TenureKept

-----------------------------------------------------------------------------
(***************************************************************************)
(* The world server's steps.                                               *)
(***************************************************************************)
LEMMA TenureSame ==
    ASSUME MaxLoss = 0, Steadily, Tenure, [Next]_vars,
           UNCHANGED <<login, toLs, toWs, join>>,
           \A s \in Started : bits'[s] # {} => bits[s] # {}
    PROVE  Tenure'
  <1>1. \A t : Owned(t) => Owned(t)'
    BY DEF Owned
  <1>2. /\ \A v \in World : Current(v)' = Current(v)
        /\ \A t \in Started : AccountOf(t) \in Account /\ WorldOf(t) \in World
    BY LinkFacts, QueueTypes DEF Steadily
  <1> QED
    BY <1>1, <1>2, TenureKept

\* s is taken back: the packet for its account is sent.
LEMMA TenureBack ==
    ASSUME OneWorld, MaxLoss = 0, Steadily, OneJoinPerAccount, Tenure, [Next]_vars,
           NEW w \in World, NEW s \in Started, Granted(s) \/ bits[s] # {},
           toLs' = SendToLs(w, toLs, SubAccount(AccountOf(s))), UNCHANGED <<login, join>>,
           \A v \in World : \A t \in Started :
               /\ Has(toWs'[Current(v)], Oks(t)) => Has(toWs[Current(v)], Oks(t))
               /\ Single(toWs[Current(v)], Oks(t)) => Single(toWs'[Current(v)], Oks(t)),
           \A t \in Started : t # s => bits'[t] = bits[t],
           bits'[s] = {}, ~Has(toWs'[Current(WorldOf(s))], Oks(s))
    PROVE  Tenure'
  <1>1. PICK a \in Account : a = AccountOf(s)
    BY QueueTypes DEF Steadily
  <1>2. PICK p \in Packet : p = SubAccount(a)
    BY PacketForms
  <1>3. \A b : p \in Subs(b) <=> a = b
    BY <1>2, KindsOfSub
  <1>4. toLs' = SendToLs(w, toLs, p)
    BY <1>1, <1>2
  <1>5. \A v \in World : \A P :
            /\ Has(toLs'[Current(v)], P) <=> Has(toLs[Current(v)], P) \/ (v = w /\ p \in P)
            /\ Single(toLs[Current(v)], P) /\ (v = w /\ p \in P => ~Has(toLs[Current(v)], P))
                  => Single(toLs'[Current(v)], P)
    BY <1>4, LsSent
  <1>6. \A v \in World : \A b \in Account :
            /\ Has(toLs'[Current(v)], Subs(b))
                  => Has(toLs[Current(v)], Subs(b)) \/ b = AccountOf(s)
            /\ Single(toLs[Current(v)], Subs(b))
               /\ (b = AccountOf(s) => ~Has(toLs[Current(v)], Subs(b)))
                  => Single(toLs'[Current(v)], Subs(b))
    BY <1>1, <1>3, <1>5
  <1>7. /\ \A v \in World : Current(v)' = Current(v)
        /\ Typed
    BY LinkFacts DEF Steadily
  <1> QED
    BY <1>6, <1>7, TenureEnds

LEMMA TenureDel ==
    ASSUME OneWorld, MaxLoss = 0, Steadily, OneJoinPerAccount, Tenure, [Next]_vars,
           NEW s \in Started, bits[s] # {}, NEW bit, NEW socks, NEW queues,
           DelAccount(WorldOf(s), AccountOf(s), bit, socks, queues),
           UNCHANGED <<login, join, toWs>>
    PROVE  Tenure'
  <1>1. PICK w \in World, a \in Account : w = WorldOf(s) /\ a = AccountOf(s) /\ s \in Session
    BY QueueTypes DEF Steadily
  <1>2. s \in Records(w, a)
    BY <1>1 DEF Records
  <1>3. \A t \in Records(w, a) : t = s
    BY <1>1, OneSeat DEF Records, SamePlace, SameAccount, Steadily, Typed
  <1>4. PICK left : left = bits[s] \ {bit}
    OBVIOUS
  <1>5. /\ bits' = [bits EXCEPT ![s] = IF DeletedBy(left) THEN {} ELSE left]
        /\ toLs' = IF DeletedBy(left) THEN SendToLs(w, toLs, SubAccount(a)) ELSE toLs
    BY <1>1, <1>2, <1>3, <1>4 DEF DelAccount
  <1>6. /\ \A t \in Started : t # s => bits'[t] = bits[t]
        /\ bits'[s] = IF DeletedBy(left) THEN {} ELSE left
    BY <1>1, <1>5 DEF Steadily, Typed, Inv, WorldInv
  <1>7. CASE DeletedBy(left)
    <2>1. toLs' = SendToLs(w, toLs, SubAccount(AccountOf(s))) /\ bits'[s] = {}
      BY <1>1, <1>5, <1>6, <1>7
    <2>2. ~Has(toWs'[Current(WorldOf(s))], Oks(s))
      BY DEF Tenure, Granting, Granted
    <2> QED
      BY <1>6, <2>1, <2>2, TenureBack
  <1>8. CASE ~DeletedBy(left)
    <2>1. UNCHANGED toLs /\ \A t \in Started : bits'[t] # {} => bits[t] # {}
      BY <1>5, <1>6, <1>8
    <2> QED
      BY <2>1, TenureSame
  <1> QED
    BY <1>7, <1>8

LEMMA TenureJoins ==
    ASSUME OneWorld, MaxLoss = 0, Steadily, Tenure, [Next]_vars, NEW s \in Session,
           ClientJoins(s), UNCHANGED lsVars
    PROVE  Tenure'
  <1>1. s \in Started /\ toLs' = SendToLs(WorldOf(s), toLs, ConfirmReq(s))
        /\ UNCHANGED <<login, toWs, bits, join>>
    BY DEF ClientJoins, lsVars
  <1>2. PICK w \in World : w = WorldOf(s)
    BY <1>1, QueueTypes DEF Steadily
  <1>3. PICK p \in Packet : p = ConfirmReq(s)
    BY PacketForms
  <1>4. \A b : p \notin Subs(b)
    BY <1>3, KindsOfAsk
  <1>5. toLs' = SendToLs(w, toLs, p)
    BY <1>1, <1>2, <1>3
  <1>6. \A v \in World : \A P :
            /\ Has(toLs'[Current(v)], P) <=> Has(toLs[Current(v)], P) \/ (v = w /\ p \in P)
            /\ Single(toLs[Current(v)], P) /\ (v = w /\ p \in P => ~Has(toLs[Current(v)], P))
                  => Single(toLs'[Current(v)], P)
    BY <1>5, LsSent
  <1>7. \A v \in World : \A b \in Account :
            /\ Has(toLs'[Current(v)], Subs(b)) => Has(toLs[Current(v)], Subs(b))
            /\ Single(toLs[Current(v)], Subs(b)) => Single(toLs'[Current(v)], Subs(b))
    BY <1>4, <1>6
  <1>8. \A t : Owned(t) => Owned(t)'
    BY <1>1 DEF Owned
  <1>9. /\ \A v \in World : Current(v)' = Current(v)
        /\ \A t \in Started : AccountOf(t) \in Account /\ WorldOf(t) \in World
    BY LinkFacts, QueueTypes DEF Steadily
  <1> QED
    BY <1>1, <1>7, <1>8, <1>9, TenureKept

LEMMA TenureReply ==
    ASSUME OneWorld, MaxLoss = 0, Steadily, OneJoinPerAccount, Tenure, [Next]_vars,
           NEW w \in World, RecvConfirmReply(w), UNCHANGED lsVars
    PROVE  Tenure'
  <1>1. /\ toWs[Current(w)] # <<>> /\ toWs' = [toWs EXCEPT ![Current(w)] = Tail(@)]
        /\ Head(toWs[Current(w)]).type = "reply" /\ UNCHANGED <<login, join>>
    BY DEF RecvConfirmReply, Receives, lsVars
  <1>2. PICK c \in Conn : c = Current(w) /\ c[1] = w
    BY LinkFacts
  <1>3. PICK s \in Started, r \in Results :
           /\ s = Head(toWs[c]).lsid /\ r = Head(toWs[c]).result
           /\ s \in Session /\ WorldOf(s) = w /\ Head(toWs[c]) = ConfirmReply(r, s)
    <2>1. Head(toWs[c]) \in Packet
      BY <1>1, <1>2, TypedTake DEF Steadily, Typed, Packets
    <2>2. Head(toWs[c]) \in Mail(At(login, w))
      BY <1>1, <1>2, ConnTake DEF Steadily, Typed, Inv, LinksInv
    <2>3. Head(toWs[c]).lsid \in At(login, w)
      BY <1>1, <1>2, <2>2, MailReads
    <2>4. Head(toWs[c]).lsid \in Started /\ WorldOf(Head(toWs[c]).lsid) = w
      BY <2>3, SessionFacts DEF Steadily, Typed, Inv
    <2> QED
      BY <1>1, <1>2, <2>1, <2>4, PacketIs, QueueTypes DEF Steadily
  <1>4. /\ \A v \in World : \A P : /\ Has(toWs'[Current(v)], P) => Has(toWs[Current(v)], P)
                                   /\ Single(toWs[Current(v)], P)
                                         => Single(toWs'[Current(v)], P)
        /\ \A P : Head(toWs[Current(w)]) \in P => Has(toWs[Current(w)], P)
        /\ \A P : Single(toWs[Current(w)], P) /\ Head(toWs[Current(w)]) \in P
                     => ~Has(toWs'[Current(w)], P)
    BY <1>1, ReplyTaken
  <1>5. \A t : Owned(t) => Owned(t)'
    BY <1>1 DEF Owned
  <1>6. /\ \A v \in World : Current(v)' = Current(v)
        /\ \A t \in Started : AccountOf(t) \in Account /\ WorldOf(t) \in World
    BY LinkFacts, QueueTypes DEF Steadily
  <1>7. CASE UNCHANGED <<bits, toLs>>
    BY <1>1, <1>4, <1>5, <1>6, <1>7, TenureKept
  <1>8. CASE r = "ok"
    <2>1. Head(toWs[Current(w)]) \in Oks(s)
      BY <1>2, <1>3, <1>8 DEF Oks
    <2>2. Granted(s) /\ ~Has(toWs'[Current(w)], Oks(s))
      BY <1>3, <1>4, <2>1 DEF Granted, Tenure, Granting
    <2>3. Owned(s) /\ ~Returned(w, AccountOf(s)) /\ bits[s] = {}
      BY <1>3, <2>2 DEF Tenure, Owning, Granting
    \* A record of the account would be that of the session with the entry.
    <2>4. \A t \in Started : bits[t] # {} => AccountOf(t) # AccountOf(s)
      BY <2>3, OneOwned DEF Tenure, Owning
    <2>5. Duplicates(w, AccountOf(s)) = {}
      BY <2>4 DEF Duplicates, Records
    <2>6. CASE sock[s] = "closed"
      <3>1. toLs' = SendToLs(w, toLs, SubAccount(AccountOf(s))) /\ UNCHANGED bits
        BY <1>2, <1>3, <1>8, <2>6 DEF RecvConfirmReply
      <3>2. \A v \in World : \A t \in Started :
                /\ Has(toWs'[Current(v)], Oks(t)) => Has(toWs[Current(v)], Oks(t))
                /\ Single(toWs[Current(v)], Oks(t)) => Single(toWs'[Current(v)], Oks(t))
        BY <1>4
      <3>3. /\ \A t \in Started : t # s => bits'[t] = bits[t]
            /\ bits'[s] = {} /\ ~Has(toWs'[Current(WorldOf(s))], Oks(s))
        BY <1>3, <2>2, <2>3, <3>1
      <3> QED
        BY <1>1, <2>2, <3>1, <3>2, <3>3, TenureBack
    <2>7. CASE sock[s] # "closed"
      <3>1. bits' = [bits EXCEPT ![s] = {"WS"}] /\ UNCHANGED toLs
        BY <1>2, <1>3, <1>8, <2>5, <2>7 DEF RecvConfirmReply
      <3>2. \A t \in Started : t # s => bits'[t] = bits[t]
        BY <3>1, QueueTypes DEF Steadily, Typed, Inv, WorldInv
      <3>3. Started' = Started
            /\ \A t : WorldOf(t)' = WorldOf(t) /\ AccountOf(t)' = AccountOf(t)
        BY <1>1 DEF Started, WorldOf, AccountOf
      <3>4. \A t \in Started : Current(WorldOf(t))' = Current(WorldOf(t))
        BY <1>6, <3>3
      <3>5. /\ \A t \in Started : Granted(t)' => Granted(t)
            /\ ~Granted(s)'
        BY <1>3, <1>4, <1>6, <2>2, <3>3, <3>4 DEF Granted
      <3>6. Granting'
        <4> SUFFICES ASSUME NEW t \in Started
                     PROVE  /\ Single(toWs'[Current(WorldOf(t))'], Oks(t))
                            /\ Granted(t)' => bits'[t] = {}
          BY <3>3 DEF Granting
        <4>1. Single(toWs'[Current(WorldOf(t))'], Oks(t))
          BY <1>4, <1>6, <3>4 DEF Tenure, Granting
        <4> QED
          BY <3>2, <3>5, <4>1 DEF Tenure, Granting
      <3>7. Owning'
        <4> SUFFICES ASSUME NEW t \in Started, Granted(t)' \/ bits'[t] # {}
                     PROVE  Owned(t)' /\ ~Has(toLs'[Current(WorldOf(t))], Subs(AccountOf(t)))
          BY <1>6, <3>3, <3>4 DEF Owning, Returned
        <4>1. CASE t = s
          BY <1>3, <1>5, <2>3, <3>1, <4>1 DEF Returned
        <4>2. CASE t # s
          BY <1>5, <3>1, <3>2, <3>5, <4>2 DEF Tenure, Owning, Returned
        <4> QED
          BY <4>1, <4>2
      <3>8. Returning'
        <4> SUFFICES ASSUME NEW v \in World, NEW b \in Account
                     PROVE  /\ Single(toLs'[Current(v)], Subs(b))
                            /\ Has(toLs'[Current(v)], Subs(b)) =>
                                  \E t \in Started : AccountOf(t) = b /\ Owned(t)'
          BY <1>6, <3>3 DEF Returning, Returned
        <4> QED
          BY <1>5, <3>1 DEF Tenure, Returning, Returned
      <3> QED
        BY <3>6, <3>7, <3>8 DEF Tenure
    <2> QED
      BY <2>6, <2>7
  <1>9. r = "ok" \/ UNCHANGED <<bits, toLs>>
    BY <1>2, <1>3 DEF RecvConfirmReply
  <1> QED
    BY <1>7, <1>8, <1>9

LEMMA TenureClosed ==
    ASSUME OneWorld, MaxLoss = 0, Steadily, OneJoinPerAccount, Tenure, [Next]_vars,
           NEW s \in Session, SocketClosed(s), UNCHANGED lsVars
    PROVE  Tenure'
  <1>1. UNCHANGED <<login, toWs, join>>
    BY DEF SocketClosed, lsVars
  <1>2. PICK closed : closed = [sock EXCEPT ![s] = "closed"]
    OBVIOUS
  <1>3. CASE "WS" \in bits[s]
    <2>1. s \in Started
      BY <1>3 DEF Steadily, Typed, Inv, WorldInv
    <2>2. DelAccount(WorldOf(s), AccountOf(s), "WS", closed, wsToGs)
      BY <1>2, <1>3 DEF SocketClosed
    <2>3. bits[s] # {}
      BY <1>3
    <2> QED
      BY <1>1, <2>1, <2>2, <2>3, TenureDel
  <1>4. CASE "WS" \notin bits[s]
    <2>1. UNCHANGED <<bits, toLs>>
      BY <1>4 DEF SocketClosed
    <2> QED
      BY <1>1, <2>1, TenureSame
  <1> QED
    BY <1>3, <1>4

LEMMA TenureGsSub ==
    ASSUME OneWorld, MaxLoss = 0, Steadily, OneJoinPerAccount, Seat, Tenure, [Next]_vars,
           NEW w \in World, RecvGsSubAccount(w), UNCHANGED lsVars
    PROVE  Tenure'
  <1>1. PICK p \in Packet : p = Head(gsToWs[w])
    <2>1. PICK f : f = gsToWs
      OBVIOUS
    <2>2. f[w] # <<>>
      BY <2>1 DEF RecvGsSubAccount, Receives
    <2> QED
      BY <2>1, <2>2, AskOf DEF Steadily
  <1>2. PICK a \in Account : p = SubAccount(a) /\ a = p.account
    BY <1>1, PacketIs, PacketReads DEF RecvGsSubAccount, Receives
  <1>3. /\ gsToWs[w] # <<>>
        /\ gsToWs' = [gsToWs EXCEPT ![w] = Tail(@)]
        /\ DelAccount(w, a, "GS", sock, wsToGs)
        /\ UNCHANGED <<login, join, toWs>>
    BY <1>1, <1>2 DEF RecvGsSubAccount, Receives, lsVars
  <1>4. Has(gsToWs[w], Subs(a))
    <2>1. Head(gsToWs[w]) \in Subs(a)
      BY <1>1, <1>2 DEF Subs
    <2> QED
      BY <1>3, <2>1, GsTaken DEF Steadily
  <1>5. PICK s \in Started : SeatOf(s, w, a)
    BY <1>4 DEF Seat, Releasing
  <1>6. DelAccount(WorldOf(s), AccountOf(s), "GS", sock, wsToGs) /\ bits[s] # {}
    BY <1>3, <1>5 DEF SeatOf
  <1> QED
    BY <1>3, <1>6, TenureDel

\* The channel server's other packets give a bit to a record or take one from it.
LEMMA TenureBits ==
    ASSUME MaxLoss = 0, Steadily, Tenure, [Next]_vars, NEW w \in World,
           RecvGsConfirm(w) \/ RecvChangeChar(w), UNCHANGED lsVars
    PROVE  Tenure'
  <1>1. UNCHANGED <<login, toLs, toWs, join>>
    BY DEF RecvGsConfirm, RecvChangeChar, lsVars
  <1>2. bits \in [Session -> SUBSET {"WS", "GS"}] /\ \A t \in Started : t \in Session
    BY QueueTypes DEF Steadily, Typed, Inv, WorldInv
  <1>3. CASE RecvGsConfirm(w)
    <2>1. PICK s : s = Head(gsToWs[w]).lsid
      OBVIOUS
    <2>2. \/ UNCHANGED bits
          \/ "WS" \in bits[s] /\ bits' = [bits EXCEPT ![s] = @ \cup {"GS"}]
      BY <1>3, <2>1 DEF RecvGsConfirm
    <2>3. \A t \in Started : bits'[t] # {} => bits[t] # {}
      BY <1>2, <2>2
    <2> QED
      BY <1>1, <2>3, TenureSame
  <1>4. CASE RecvChangeChar(w)
    <2>1. \/ UNCHANGED bits
          \/ \E s \in Started : bits' = [bits EXCEPT ![s] = @ \ {"GS"}]
      BY <1>4 DEF RecvChangeChar, Records, wsVars
    <2>2. \A t \in Started : bits'[t] # {} => bits[t] # {}
      BY <1>2, <2>1
    <2> QED
      BY <1>1, <2>2, TenureSame
  <1> QED
    BY <1>3, <1>4

LEMMA TenureStep ==
    ASSUME OneWorld, MaxLoss = 0, MaxRetry = 0, Steadily, NoKicks, Seat, Once, Vetted,
           OneJoinPerAccount, Tenure, [Next]_vars
    PROVE  Tenure'
  <1>1. Typed /\ Quiet /\ Inv
    BY DEF Steadily, Typed
  <1>2. CASE UNCHANGED <<login, toLs, toWs, join, bits>>
    BY <1>2, TenureSame
  <1>3. CASE LoginStep
    <2>1. UNCHANGED wsVars
      BY <1>3 DEF LoginStep
    <2>2. \A c \in Conn : ~ServerClosed(c) /\ ~Enlist(c) /\ ~RecvAccountList(c)
      BY <1>1, NoLoss
    <2>3. \A a \in Account : ~LoginRefused(a)
      BY DEF NoKicks, LoginRefused
    <2>4. CASE (\E a \in Account : LoginAccepted(a)) \/ (\E s \in wait : WaitTimeout(s))
      BY <1>2, <2>1, <2>4 DEF LoginAccepted, WaitTimeout, linkVars, wsVars
    <2>5. CASE \E c \in Conn : ConfirmCheck(c)
      BY <2>1, <2>5, TenureCheck
    <2>6. CASE \E c \in Conn : ConfirmInsert(c)
      BY <2>1, <2>6, TenureInsert
    <2>7. CASE \E c \in Conn : RecvSubAccount(c)
      BY <2>1, <2>7, TenureSub
    <2>8. CASE DeleteAccount
      BY <2>1, <2>8, TenureDelete
    <2>9. CASE \E a \in Account, w \in World : SelectServer(a, w)
      BY <2>1, <2>9, TenureStarts
    <2> QED
      BY <1>3, <2>2, <2>3, <2>4, <2>5, <2>6, <2>7, <2>8, <2>9 DEF LoginStep
  <1>4. CASE WorldStep
    <2>1. UNCHANGED lsVars
      BY <1>4 DEF WorldStep
    <2>2. \A w \in World : ~LinkLost(w) /\ ~RecvKick(w)
      BY <1>1, NoLoss, NotKicked, CurrentConn DEF Inv
    <2>3. CASE \E s \in Session : SelectChar(s) \/ ClientLeaves(s)
      BY <1>2, <2>1, <2>3 DEF SelectChar, ClientLeaves, linkVars, lsVars
    <2>4. CASE \E s \in Session : ClientJoins(s)
      BY <2>1, <2>4, TenureJoins
    <2>5. CASE \E s \in Session : SocketClosed(s)
      BY <2>1, <2>5, TenureClosed
    <2>6. CASE \E w \in World : RecvConfirmReply(w)
      BY <2>1, <2>6, TenureReply
    <2>7. CASE \E w \in World : RecvGsSubAccount(w)
      BY <2>1, <2>7, TenureGsSub
    <2>8. CASE \E w \in World : RecvGsConfirm(w) \/ RecvChangeChar(w)
      BY <2>1, <2>8, TenureBits
    <2> QED
      BY <1>4, <2>2, <2>3, <2>4, <2>5, <2>6, <2>7, <2>8 DEF WorldStep
  <1>5. CASE ChannelStep
    <2>1. UNCHANGED <<lsVars, wsVars>>
      BY <1>5 DEF ChannelStep
    <2>2. UNCHANGED <<login, toLs, toWs>>
      BY <1>5 DEF ChannelStep, UserLeaves, DeleteClosed, ChangeCharacter, DeleteUser,
                  RecvJoinReply, RecvGsKick, LoadCharacter, SaveUser, linkVars
    <2> QED
      BY <1>2, <2>1, <2>2 DEF lsVars, wsVars
  <1>6. CASE \E s \in Session : EnterChannel(s)
    BY <1>2, <1>6 DEF EnterChannel, UserJoins, lsVars
  <1>7. \A w \in World : ~Reconnect(w)
    BY <1>1, NoLoss
  <1>8. CASE UNCHANGED vars
    BY <1>2, <1>8 DEF vars, linkVars, lsVars, wsVars
  <1> QED
    BY <1>3, <1>4, <1>5, <1>6, <1>7, <1>8 DEF Next

LEMMA InitTenure == Init => Tenure
  <1> SUFFICES ASSUME Init PROVE Tenure
    OBVIOUS
  <1>1. Started = {} /\ \A c \in Conn : toLs[c] = <<>>
    BY DEF Init, LinksInit, Started
  <1>2. \A w \in World : Current(w) \in Conn
    BY InitInv, CurrentConn DEF Inv
  <1>3. \A w \in World : toLs[Current(w)] = <<>>
    BY <1>1, <1>2
  <1>4. Returning
    BY <1>3, EmptyHasNone DEF Returning, Returned
  <1> QED
    BY <1>1, <1>4 DEF Tenure, Granting, Owning

-----------------------------------------------------------------------------
Leasing ==
    Steadily /\ NoKicks /\ Seat /\ Once /\ Vetted /\ OneJoinPerAccount /\ Tenure

LEMMA LeasingInvariance ==
    ASSUME OneWorld, MaxLoss = 0, MaxRetry = 0
    PROVE  /\ Init => Leasing
           /\ Leasing /\ [Next]_vars => Leasing'
  <1>1. Init => Leasing
    <2>1. Init => DOMAIN join = {}
      BY DEF Init, LoginInit
    <2> QED
      BY <2>1, InitOnce, InitSeat, InitTenure DEF Leasing, Vetted, OneJoinPerAccount
  <1>2. Leasing /\ [Next]_vars => Leasing'
    <2> SUFFICES ASSUME Leasing, [Next]_vars PROVE Leasing'
      OBVIOUS
    <2>1. /\ Steadily /\ NoKicks /\ Seat /\ Once /\ Vetted /\ OneJoinPerAccount /\ Tenure
      BY DEF Leasing
    <2>2. Steadily' /\ Once'
      BY <2>1, NextTyped, QuietStep, OnceStep DEF Steadily
    <2>3. OneJoinPerAccount' /\ Vetted'
      BY <2>1, <2>2, JoinStep
    <2>4. NoKicks' /\ Seat'
      BY <2>1, NoKickStep, SeatStep
    <2>5. Tenure'
      BY <2>1, TenureStep
    <2> QED
      BY <2>2, <2>3, <2>4, <2>5 DEF Leasing
  <1> QED
    BY <1>1, <1>2

\* The login server has an entry of every session that a world has a record of, in one
\* world and while nobody is kicked.  Otherwise a packet that ends a session can find the
\* entry of another one of its account: that of a session that another world takes back,
\* or of one that was kicked after its record was gone.
THEOREM CoverSafety ==
    ASSUME OneWorld, MaxLoss = 0, MaxRetry = 0 PROVE Spec => []JoinCoversRecords
  <1>1. Leasing => JoinCoversRecords
    BY DEF Leasing, Tenure, Owning, Owned, JoinCoversRecords, JoinedLsids
  <1> QED
    BY <1>1, LeasingInvariance, PTL DEF Spec

-----------------------------------------------------------------------------
(***************************************************************************)
(* The lease of an account: every step of the servers is one of its steps  *)
(* or leaves it alone.                                                     *)
(***************************************************************************)
Leased == [a \in Account |-> {s \in JoinedLsids : AccountOf(s) = a}]

LEMMA LeasedSame ==
    ASSUME Typed, JoinedLsids' = JoinedLsids, UNCHANGED held,
           \A s \in Started : AccountOf(s)' = AccountOf(s)
    PROVE  UNCHANGED Lease!vars
  <1>1. \A s \in JoinedLsids : AccountOf(s)' = AccountOf(s)
    BY LsidsStarted DEF Typed
  <1>2. Leased' = Leased
    BY <1>1 DEF Leased
  <1> QED
    BY <1>2 DEF Leased, Lease!vars

\* Whoever has an entry, has the account's lease.
LEMMA LeasedIs ==
    ASSUME OneJoinPerAccount, NEW s \in JoinedLsids, AccountOf(s) \in Account
    PROVE  Leased[AccountOf(s)] = {s}
  <1>1. PICK a \in Account : a = AccountOf(s)
    OBVIOUS
  <1>2. \A t \in JoinedLsids : AccountOf(t) = AccountOf(s) => t = s
    BY DEF OneJoinPerAccount, SameAccount, JoinedLsids
  <1>3. {t \in JoinedLsids : AccountOf(t) = a} = {s}
    BY <1>1, <1>2
  <1> QED
    BY <1>1, <1>3 DEF Leased

\* Whoever has the character in memory, or may load it, has the account's lease, and
\* the entry is not about to be deleted.
LEMMA BoundLeases ==
    ASSUME Leasing, NEW s \in Started, Bound(s)
    PROVE  /\ AccountOf(s) \in Account /\ Leased[AccountOf(s)] = {s}
           /\ s \in JoinedLsids /\ s \notin LogoutLsids
  <1>1. bits[s] # {}
    BY DEF Leasing, Seat, Backed
  <1>2. Owned(s)
    BY <1>1 DEF Leasing, Tenure, Owning
  <1>3. s \in JoinedLsids /\ s \notin LogoutLsids
    BY <1>2 DEF Owned, JoinedLsids, Leasing, Once, Distinct, Out
  <1>4. AccountOf(s) \in Account
    BY QueueTypes DEF Leasing, Steadily
  <1> QED
    BY <1>3, <1>4, LeasedIs DEF Leasing

LEMMA LeaseAdmits ==
    ASSUME Leasing, NEW c \in Conn, ConfirmInsert(c), UNCHANGED held
    PROVE  \E a \in Account, s \in Session : Lease!Admit(a, s)
  <1>1. PICK s : s = checked[c]
    OBVIOUS
  <1>2. s \in Started /\ s \in Session /\ s # 0
    <2>1. s # 0 /\ s \in At(login, c[1])
      BY <1>1 DEF ConfirmInsert, Leasing, Steadily, Typed, Inv, LoginInv
    <2> QED
      BY <2>1, ConnFacts, SessionFacts DEF Leasing, Steadily, Typed, Inv
  <1>3. PICK a \in Account : a = AccountOf(s)
    BY <1>2, QueueTypes DEF Leasing, Steadily
  <1>4. PICK e : e = Entry(s, c)
    OBVIOUS
  <1>5. join' = <<e>> \o join /\ UNCHANGED login /\ e.lsid = s
    BY <1>1, <1>4 DEF ConfirmInsert, Entry
  <1>6. JoinedLsids' = JoinedLsids \cup {s}
    <2>1. /\ 1 \in DOMAIN join' /\ join'[1] = e
          /\ \A i \in DOMAIN join : i + 1 \in DOMAIN join' /\ join'[i + 1] = join[i]
          /\ \A i \in DOMAIN join' : i = 1 \/ (i - 1 \in DOMAIN join /\ join'[i] = join[i - 1])
      <3>1. Len(join) \in Nat
        BY LenProperties DEF Leasing, Steadily, Typed, LoginTypes
      <3> QED
        BY <1>5, <3>1, InsertFacts DEF Leasing, Steadily, Typed
    <2>2. \A t \in JoinedLsids' : t \in JoinedLsids \/ t = s
      BY <1>5, <2>1 DEF JoinedLsids
    <2>3. \A t \in JoinedLsids : t \in JoinedLsids'
      BY <2>1 DEF JoinedLsids
    <2>4. s \in JoinedLsids'
      BY <1>5, <2>1 DEF JoinedLsids
    <2> QED
      BY <2>2, <2>3, <2>4
  <1>7. \A t : AccountOf(t)' = AccountOf(t)
    BY <1>5 DEF AccountOf
  <1>8. \A t \in JoinedLsids : AccountOf(t) # a
    BY <1>1, <1>2, <1>3 DEF Leasing, Vetted, SameAccount, JoinedLsids
  <1>9. Leased[a] = {}
    BY <1>8 DEF Leased
  <1>10. Leased' = [Leased EXCEPT ![a] = {s}]
    <2>1. \A b \in Account : {t \in JoinedLsids' : AccountOf(t)' = b}
                                = IF b = a THEN {s} ELSE {t \in JoinedLsids : AccountOf(t) = b}
      BY <1>3, <1>6, <1>7, <1>8
    <2> QED
      BY <2>1 DEF Leased
  <1>11. Lease!Admit(a, s)
    BY <1>9, <1>10 DEF Leased, Lease!Admit
  <1> QED
    BY <1>2, <1>11

LEMMA LeaseEnds ==
    ASSUME Leasing, DeleteAccount, UNCHANGED held
    PROVE  (\E a \in Account : Lease!Release(a)) \/ UNCHANGED Lease!vars
  <1>1. PICK s : s = Head(logoutQ)
    OBVIOUS
  <1>2. PICK places : places = {i \in DOMAIN join : join[i].lsid # s}
    OBVIOUS
  <1>3. logoutQ # <<>> /\ join' = Picked(join, places) /\ UNCHANGED login
    BY <1>1, <1>2 DEF DeleteAccount, linkVars
  <1>4. s \in LogoutLsids /\ s \in Started
    <2>1. logoutQ \in Seq(Started)
      BY DEF Leasing, Steadily, Typed, LoginTypes
    <2>2. s = logoutQ[1] /\ 1 \in DOMAIN logoutQ
      BY <1>1, <1>3, <2>1, HeadTailProperties, LenProperties
    <2>3. s \in LogoutLsids
      BY <2>2 DEF LogoutLsids
    <2> QED
      BY <2>3, LsidsStarted DEF Leasing, Steadily, Typed
  <1>5. PICK a \in Account : a = AccountOf(s)
    BY <1>4, QueueTypes DEF Leasing, Steadily
  <1>6. JoinedLsids' = JoinedLsids \ {s}
    <2>1. /\ \A k \in DOMAIN join' :
                \E i \in DOMAIN join : i \in places /\ join'[k] = join[i]
          /\ \A i \in DOMAIN join : i \in places => \E k \in DOMAIN join' : join'[k] = join[i]
      BY <1>3, PickedOnce DEF Leasing, Steadily, Typed
    <2> QED
      BY <1>2, <2>1 DEF JoinedLsids
  <1>7. \A t : AccountOf(t)' = AccountOf(t)
    BY <1>3 DEF AccountOf
  <1>8. CASE s \notin JoinedLsids
    <2>1. JoinedLsids' = JoinedLsids
      BY <1>6, <1>8
    <2> QED
      BY <1>7, <2>1, LeasedSame DEF Leasing, Steadily
  <1>9. CASE s \in JoinedLsids
    <2>1. Leased[a] = {s}
      BY <1>5, <1>9, LeasedIs DEF Leasing
    <2>2. s \notin held
      <3>1. s \in held => Bound(s)
        BY DEF Leasing, Seat, Holding, Bound
      <3> QED
        BY <1>4, <3>1, BoundLeases
    <2>3. \A t \in JoinedLsids : AccountOf(t) = a => t = s
      BY <2>1 DEF Leased
    <2>4. Leased' = [Leased EXCEPT ![a] = {}]
      <3>1. \A b \in Account : {t \in JoinedLsids' : AccountOf(t)' = b}
                                  = IF b = a THEN {} ELSE {t \in JoinedLsids : AccountOf(t) = b}
        BY <1>5, <1>6, <1>7, <2>3
      <3> QED
        BY <3>1 DEF Leased
    <2>5. Leased[a] # {} /\ Leased[a] \cap held = {}
      BY <2>1, <2>2
    <2>6. Lease!Release(a)
      BY <2>4, <2>5 DEF Leased, Lease!Release
    <2> QED
      BY <2>6
  <1> QED
    BY <1>8, <1>9

LEMMA LeaseLoads ==
    ASSUME Leasing, NEW w \in World, LoadCharacter(w), UNCHANGED join
    PROVE  \/ \E a \in Account, s \in Session : Lease!Load(a, s)
           \/ UNCHANGED Lease!vars
  <1>1. PICK s \in Started : s = Head(loadQ[w]) /\ s \in Session
    <2>1. loadQ[w] \in Seq(Started) /\ loadQ[w] # <<>>
      BY DEF LoadCharacter, Leasing, Steadily, Typed, Leaving
    <2> QED
      BY <2>1, HeadTailProperties, QueueTypes DEF Leasing, Steadily
  <1>2. UNCHANGED login /\ held' = IF user[s] = "registered" THEN held \cup {s} ELSE held
    BY <1>1 DEF LoadCharacter, linkVars
  <1>3. JoinedLsids' = JoinedLsids /\ \A t : AccountOf(t)' = AccountOf(t)
    BY <1>2 DEF JoinedLsids, AccountOf
  <1>4. CASE UNCHANGED held
    BY <1>3, <1>4, LeasedSame DEF Leasing, Steadily
  <1>5. CASE ~UNCHANGED held
    <2>1. user[s] = "registered" /\ held' = held \cup {s} /\ s \notin held
      BY <1>2, <1>5
    <2>2. PICK a \in Account : Leased[a] = {s}
      BY <2>1, BoundLeases DEF Bound
    <2>3. Leased' = Leased
      BY <1>3 DEF Leased
    <2>4. Lease!Load(a, s)
      BY <2>1, <2>2, <2>3 DEF Leased, Lease!Load
    <2> QED
      BY <1>1, <2>4
  <1> QED
    BY <1>4, <1>5

LEMMA LeaseSaves ==
    ASSUME Leasing, NEW w \in World, SaveUser(w), UNCHANGED join
    PROVE  (\E s \in Session : Lease!Save(s)) \/ UNCHANGED Lease!vars
  <1>1. PICK s : s = Head(saveQ[w]).lsid
    OBVIOUS
  <1>2. UNCHANGED login /\ held' = held \ {s}
    BY <1>1 DEF SaveUser
  <1>3. JoinedLsids' = JoinedLsids /\ \A t : AccountOf(t)' = AccountOf(t)
    BY <1>2 DEF JoinedLsids, AccountOf
  <1>4. CASE s \notin held
    <2>1. UNCHANGED held
      BY <1>2, <1>4
    <2> QED
      BY <1>3, <2>1, LeasedSame DEF Leasing, Steadily
  <1>5. CASE s \in held
    <2>1. s \in Session
      BY <1>5, QueueTypes DEF Leasing, Steadily, Typed, Leaving
    <2>2. Leased' = Leased
      BY <1>3 DEF Leased
    <2>3. Lease!Save(s)
      BY <1>2, <1>5, <2>2 DEF Leased, Lease!Save
    <2> QED
      BY <2>1, <2>3
  <1> QED
    BY <1>4, <1>5

LEMMA LeaseStep ==
    ASSUME MaxLoss = 0, MaxRetry = 0, Leasing, [Next]_vars
    PROVE  [Lease!Next]_(Lease!vars)
  <1>1. Typed /\ Quiet /\ Inv
    BY DEF Leasing, Steadily, Typed
  <1>2. CASE UNCHANGED <<login, join, held>>
    <2>1. JoinedLsids' = JoinedLsids /\ \A t : AccountOf(t)' = AccountOf(t)
      BY <1>2 DEF JoinedLsids, AccountOf
    <2> QED
      BY <1>1, <1>2, <2>1, LeasedSame
  <1>3. CASE LoginStep
    <2>1. UNCHANGED held
      BY <1>3 DEF LoginStep, gsVars
    <2>2. \A c \in Conn : ~ServerClosed(c) /\ ~Enlist(c) /\ ~RecvAccountList(c)
      BY <1>1, NoLoss
    <2>3. \A a \in Account : ~LoginRefused(a)
      BY DEF Leasing, NoKicks, LoginRefused
    <2>4. CASE \/ \E a \in Account : LoginAccepted(a)
               \/ \E s \in wait : WaitTimeout(s)
               \/ \E c \in Conn : ConfirmCheck(c)
      BY <1>2, <2>1, <2>4 DEF LoginAccepted, WaitTimeout, ConfirmCheck, linkVars
    <2>5. CASE \E a \in Account, w \in World : SelectServer(a, w)
      <3>1. UNCHANGED join /\ \A s \in Started : AccountOf(s)' = AccountOf(s)
        BY <1>1, <2>5, SessionStarts DEF SelectServer
      <3>2. JoinedLsids' = JoinedLsids
        BY <3>1 DEF JoinedLsids
      <3> QED
        BY <1>1, <2>1, <3>1, <3>2, LeasedSame
    <2>6. CASE \E c \in Conn : ConfirmInsert(c)
      BY <2>1, <2>6, LeaseAdmits DEF Lease!Next
    <2>7. CASE \E c \in Conn : RecvSubAccount(c)
      <3>1. PICK c \in Conn : RecvSubAccount(c)
        BY <2>7
      <3>2. PICK a : a = Head(toLs[c]).account
        OBVIOUS
      <3>3. PICK e : e = Search(a, join)
        OBVIOUS
      <3>4. /\ UNCHANGED login
            /\ UNCHANGED join \/ (Found(a, join) /\ join' = Change(e, Disowned(e)))
        BY <3>1, <3>2, <3>3 DEF RecvSubAccount
      <3>5. CASE Found(a, join) /\ join' = Change(e, Disowned(e))
        <4>1. e \in Entries
          BY <1>1, <3>3, <3>5, SearchEntry DEF Typed
        <4>2. Disowned(e) \in Entries /\ Disowned(e).lsid = e.lsid
          BY <4>1 DEF Disowned, Entries
        <4>3. JoinedLsids' = JoinedLsids
          BY <1>1, <3>5, <4>2, ChangeOnce DEF Typed
        <4>4. \A t : AccountOf(t)' = AccountOf(t)
          BY <3>4 DEF AccountOf
        <4> QED
          BY <1>1, <2>1, <4>3, <4>4, LeasedSame
      <3> QED
        BY <1>2, <2>1, <3>4, <3>5
    <2>8. CASE DeleteAccount
      BY <2>1, <2>8, LeaseEnds DEF Lease!Next
    <2> QED
      BY <1>3, <2>2, <2>3, <2>4, <2>5, <2>6, <2>7, <2>8 DEF LoginStep
  <1>4. CASE WorldStep
    <2>1. UNCHANGED <<join, held>>
      BY <1>4 DEF WorldStep, lsVars, gsVars
    <2>2. UNCHANGED login
      BY <1>4 DEF WorldStep, ClientJoins, SelectChar, ClientLeaves, SocketClosed,
                  RecvConfirmReply, RecvKick, RecvGsConfirm, RecvGsSubAccount,
                  RecvChangeChar, LinkLost, linkVars
    <2> QED
      BY <1>2, <2>1, <2>2
  <1>5. CASE ChannelStep
    <2>1. UNCHANGED join
      BY <1>5 DEF ChannelStep, lsVars
    <2>2. CASE \E w \in World : LoadCharacter(w)
      BY <2>1, <2>2, LeaseLoads DEF Lease!Next
    <2>3. CASE \E w \in World : SaveUser(w)
      BY <2>1, <2>3, LeaseSaves DEF Lease!Next
    <2>4. CASE \/ \E s \in Session : UserLeaves(s) \/ DeleteClosed(s) \/ ChangeCharacter(s)
               \/ \E w \in World : RecvJoinReply(w) \/ RecvGsKick(w)
      <3>1. UNCHANGED <<login, held>>
        BY <2>4 DEF UserLeaves, DeleteClosed, ChangeCharacter, DeleteUser, RecvJoinReply,
                    RecvGsKick, linkVars
      <3> QED
        BY <1>2, <2>1, <3>1
    <2> QED
      BY <1>5, <2>2, <2>3, <2>4 DEF ChannelStep
  <1>6. CASE \E s \in Session : EnterChannel(s)
    BY <1>2, <1>6 DEF EnterChannel, UserJoins, lsVars
  <1>7. \A w \in World : ~Reconnect(w)
    BY <1>1, NoLoss
  <1>8. CASE UNCHANGED vars
    BY <1>2, <1>8 DEF vars, linkVars, lsVars, gsVars
  <1> QED
    BY <1>3, <1>4, <1>5, <1>6, <1>7, <1>8 DEF Next

\* The three servers implement the lease of an account, in one world that keeps its
\* connection and while nobody is kicked, for any number of accounts and sessions,
\* however often clients leave, cross the servers' packets or go back to the character
\* list: an account is leased to one session, only that session's character is loaded,
\* and the lease does not end before the character is written.
THEOREM LeaseRefinement ==
    ASSUME OneWorld, MaxLoss = 0, MaxRetry = 0 PROVE Spec => ImplementsLease
  <1>1. Init => Lease!Init
    <2> SUFFICES ASSUME Init PROVE Lease!Init
      OBVIOUS
    <2>1. JoinedLsids = {} /\ held = {}
      BY DEF Init, LoginInit, ChannelInit, JoinedLsids
    <2> QED
      BY <2>1 DEF Lease!Init
  <1>2. Leasing /\ [Next]_vars => [Lease!Next]_(Lease!vars)
    BY LeaseStep
  <1> QED
    BY <1>1, <1>2, LeasingInvariance, PTL DEF Spec, ImplementsLease, Lease!Spec
=============================================================================
