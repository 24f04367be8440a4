------------------------- MODULE AccountJoin_proofs -------------------------
(***************************************************************************)
(* Theorems about the JOIN list of the login server: types of the whole    *)
(* state for all constants; that no account is handed over for deletion    *)
(* twice while no connection between the servers is lost; and that the     *)
(* list has one entry per account if there is one world as well.           *)
(***************************************************************************)
EXTENDS AccountSession_proofs, NaturalSets

-----------------------------------------------------------------------------
(***************************************************************************)
(* Searching the JOIN list, and what is left when entries are taken out.   *)
(***************************************************************************)

\* The entry that Search_ACCOUNT(name) meets is one of the account.
LEMMA SearchFacts ==
    ASSUME NEW S, NEW entries \in Seq(S), NEW a, Found(a, entries)
    PROVE  \E i \in DOMAIN entries :
              Search(a, entries) = entries[i] /\ AccountOf(entries[i].lsid) = a
  <1>1. OfAccount(a, entries) \in SUBSET Nat /\ OfAccount(a, entries) # {}
    BY DEF OfAccount, Found
  <1>2. \E i \in OfAccount(a, entries) : \A j \in OfAccount(a, entries) : i <= j
    BY <1>1, LeastNumber
  <1>3. PICK i \in OfAccount(a, entries) : Search(a, entries) = entries[i]
    BY <1>2 DEF Search
  <1> QED
    BY <1>3 DEF OfAccount

\* The recursive function of Picked, over the first n entries.
PickedFun(entries, places, n, q) ==
    q = [i \in 0 .. n |->
            IF i = 0 THEN <<>>
            ELSE IF i \in places THEN Append(q[i - 1], entries[i])
            ELSE q[i - 1]]

LEMMA PickedFunExists ==
    ASSUME NEW entries, NEW places, NEW n \in Nat
    PROVE  \E q : PickedFun(entries, places, n, q)
  <1> DEFINE S == {m \in Nat : \E q : PickedFun(entries, places, m, q)}
  <1>1. 0 \in S
    <2>1. PICK q : q = [i \in 0 .. 0 |-> <<>>]
      OBVIOUS
    <2>2. PickedFun(entries, places, 0, q)
      BY <2>1 DEF PickedFun
    <2> QED
      BY <2>2
  <1>2. ASSUME NEW m \in Nat, m \in S PROVE m + 1 \in S
    <2>1. PICK q : PickedFun(entries, places, m, q)
      BY <1>2
    <2> DEFINE last == IF m + 1 \in places THEN Append(q[m], entries[m + 1]) ELSE q[m]
    <2>2. PICK r : r = [i \in 0 .. m + 1 |-> IF i \in 0 .. m THEN q[i] ELSE last]
      OBVIOUS
    <2>3. ASSUME NEW i \in 0 .. m + 1
          PROVE  r[i] = IF i = 0 THEN <<>>
                        ELSE IF i \in places THEN Append(r[i - 1], entries[i])
                        ELSE r[i - 1]
      <3>1. CASE i = 0
        BY <2>1, <2>2, <3>1 DEF PickedFun
      <3>2. CASE i \in 1 .. m
        <4>1. i \in 0 .. m /\ i - 1 \in 0 .. m + 1 /\ i - 1 \in 0 .. m /\ i # 0
          BY <3>2
        <4>2. r[i] = q[i] /\ r[i - 1] = q[i - 1]
          BY <2>2, <4>1
        <4>3. q[i] = IF i \in places THEN Append(q[i - 1], entries[i]) ELSE q[i - 1]
          BY <2>1, <4>1 DEF PickedFun
        <4> QED
          BY <4>1, <4>2, <4>3
      <3>3. CASE i = m + 1
        BY <2>2, <3>3
      <3> QED
        BY <3>1, <3>2, <3>3
    <2>4. PickedFun(entries, places, m + 1, r)
      BY <2>2, <2>3 DEF PickedFun
    <2> QED
      BY <2>4
  <1> HIDE DEF S
  <1>3. n \in S
    BY <1>1, <1>2, NatSetInduction
  <1> QED
    BY <1>3 DEF S

LEMMA PickedDef ==
    ASSUME NEW entries, NEW places, Len(entries) \in Nat
    PROVE  \E q : /\ PickedFun(entries, places, Len(entries), q)
                  /\ Picked(entries, places) = q[Len(entries)]
  <1>1. \E q : PickedFun(entries, places, Len(entries), q)
    BY PickedFunExists
  <1>2. PickedFun(entries, places, Len(entries),
                  CHOOSE q : PickedFun(entries, places, Len(entries), q))
    BY <1>1
  <1>3. Picked(entries, places)
            = (CHOOSE q : PickedFun(entries, places, Len(entries), q))[Len(entries)]
    BY DEF Picked, PickedFun
  <1> QED
    BY <1>2, <1>3

\* The sequence r has the entries at the given places up to n: every one of them,
\* each from a place of its own.
Selects(r, entries, places, n) ==
    /\ \E f \in [DOMAIN r -> 1 .. n] :
          /\ \A k \in DOMAIN r : f[k] \in places /\ r[k] = entries[f[k]]
          /\ \A j, k \in DOMAIN r : f[j] = f[k] => j = k
    /\ \A i \in 1 .. n : i \in places => \E k \in DOMAIN r : r[k] = entries[i]

LEMMA PickedFacts ==
    ASSUME NEW S, NEW entries \in Seq(S), NEW places
    PROVE  /\ Picked(entries, places) \in Seq(S)
           /\ Selects(Picked(entries, places), entries, places, Len(entries))
  <1>1. Len(entries) \in Nat /\ \A i \in 1 .. Len(entries) : entries[i] \in S
    BY LenProperties, ElementOfSeq
  <1>2. PICK q : /\ PickedFun(entries, places, Len(entries), q)
                 /\ Picked(entries, places) = q[Len(entries)]
    BY <1>1, PickedDef
  <1> DEFINE Good(n) == q[n] \in Seq(S) /\ Selects(q[n], entries, places, n)
             N == {n \in Nat : n <= Len(entries) => Good(n)}
  <1>3. 0 \in N
    <2>1. q[0] = <<>> /\ <<>> \in Seq(S)
      BY <1>1, <1>2, EmptySeq DEF PickedFun
    <2>2. Selects(<<>>, entries, places, 0)
      <3>1. PICK f : f = [k \in DOMAIN <<>> |-> 1]
        OBVIOUS
      <3>2. DOMAIN <<>> = {} /\ 1 .. 0 = {}
        OBVIOUS
      <3>3. f \in [DOMAIN <<>> -> 1 .. 0]
        BY <3>1, <3>2
      <3> QED
        BY <3>2, <3>3 DEF Selects
    <2> QED
      BY <2>1, <2>2
  <1>4. ASSUME NEW n \in Nat, n \in N PROVE n + 1 \in N
    <2> SUFFICES ASSUME n + 1 <= Len(entries) PROVE Good(n + 1)
      OBVIOUS
    <2>1. Good(n) /\ n + 1 \in 0 .. Len(entries) /\ n + 1 # 0 /\ (n + 1) - 1 = n
      BY <1>1, <1>4
    <2>2. q[n + 1] = IF n + 1 \in places THEN Append(q[n], entries[n + 1]) ELSE q[n]
      BY <1>2, <2>1 DEF PickedFun
    <2>3. PICK f \in [DOMAIN q[n] -> 1 .. n] :
              /\ \A k \in DOMAIN q[n] : f[k] \in places /\ q[n][k] = entries[f[k]]
              /\ \A j, k \in DOMAIN q[n] : f[j] = f[k] => j = k
      BY <2>1 DEF Selects
    <2>4. \A i \in 1 .. n : i \in places => \E k \in DOMAIN q[n] : q[n][k] = entries[i]
      BY <2>1 DEF Selects
    <2>5. CASE n + 1 \notin places
      <3>1. q[n + 1] = q[n]
        BY <2>2, <2>5
      <3>2. f \in [DOMAIN q[n] -> 1 .. n + 1]
        OBVIOUS
      <3>3. \A i \in 1 .. n + 1 : i \in places => i \in 1 .. n
        BY <2>5
      <3>4. Selects(q[n], entries, places, n + 1)
        BY <2>3, <2>4, <3>2, <3>3 DEF Selects
      <3> QED
        BY <2>1, <3>1, <3>4
    <2>6. CASE n + 1 \in places
      <3> DEFINE m == Len(q[n])
      <3>1. q[n + 1] = Append(q[n], entries[n + 1])
        BY <2>2, <2>6
      <3>2. entries[n + 1] \in S
        BY <1>1, <2>1
      <3>3. PICK r : r = q[n + 1]
        OBVIOUS
      <3>4. /\ r \in Seq(S) /\ DOMAIN r = 1 .. m + 1 /\ m \in Nat
            /\ DOMAIN q[n] = 1 .. m
            /\ \A k \in 1 .. m : r[k] = q[n][k]
            /\ r[m + 1] = entries[n + 1]
        BY <2>1, <3>1, <3>2, <3>3, AppendProperties, LenProperties
      <3>5. PICK g : g = [k \in 1 .. m + 1 |-> IF k \in 1 .. m THEN f[k] ELSE n + 1]
        OBVIOUS
      <3>6. /\ \A k \in 1 .. m : g[k] = f[k] /\ f[k] \in 1 .. n
            /\ g[m + 1] = n + 1
        <4>1. m \in Nat /\ m + 1 \in 1 .. m + 1 /\ ~(m + 1 \in 1 .. m)
          BY <3>4
        <4>2. g[m + 1] = n + 1
          BY <3>5, <4>1
        <4>3. \A k \in 1 .. m : k \in 1 .. m + 1
          BY <3>4
        <4>4. \A k \in 1 .. m : g[k] = f[k]
          BY <3>5, <4>3
        <4>5. \A k \in 1 .. m : f[k] \in 1 .. n
          BY <2>3, <3>4
        <4> QED
          BY <4>2, <4>4, <4>5
      <3>7. g \in [DOMAIN r -> 1 .. n + 1]
        <4>1. \A k \in 1 .. m + 1 : k \in 1 .. m \/ k = m + 1
          BY <3>4
        <4>2. \A k \in 1 .. m + 1 : g[k] \in 1 .. n + 1
          BY <3>6, <4>1
        <4>3. g = [k \in DOMAIN r |-> g[k]]
          BY <3>4, <3>5
        <4> QED
          BY <3>4, <4>2, <4>3
      <3>8. \A k \in DOMAIN r : g[k] \in places /\ r[k] = entries[g[k]]
        BY <2>3, <2>6, <3>4, <3>6
      <3>9. \A j, k \in DOMAIN r : g[j] = g[k] => j = k
        <4>1. \A j, k \in 1 .. m : g[j] = g[k] => j = k
          BY <2>3, <3>4, <3>6
        <4>2. \A k \in 1 .. m : g[k] # g[m + 1]
          BY <3>6
        <4>3. \A k \in DOMAIN r : k \in 1 .. m \/ k = m + 1
          BY <3>4
        <4> QED
          BY <4>1, <4>2, <4>3
      <3>10. \A i \in 1 .. n + 1 : i \in places => \E k \in DOMAIN r : r[k] = entries[i]
        <4>1. \A i \in 1 .. n : i \in places => \E k \in DOMAIN r : r[k] = entries[i]
          BY <2>4, <3>4
        <4>2. \E k \in DOMAIN r : r[k] = entries[n + 1]
          BY <3>4
        <4> QED
          BY <4>1, <4>2
      <3>11. Selects(r, entries, places, n + 1)
        BY <3>7, <3>8, <3>9, <3>10 DEF Selects
      <3> QED
        BY <3>3, <3>4, <3>11
    <2> QED
      BY <2>5, <2>6
  <1> HIDE DEF N
  <1>5. Len(entries) \in N
    BY <1>1, <1>3, <1>4, NatSetInduction
  <1> QED
    BY <1>1, <1>2, <1>5 DEF N

-----------------------------------------------------------------------------
(***************************************************************************)
(* Types.  Inv says what sessions the queues speak of and leaves the rest  *)
(* of TypeOK to three invariants: the login server's lists, the packets    *)
(* (only toLs carries lists of accounts), and the users who leave: those   *)
(* to be saved are there once each, deleted, at their own world.           *)
(***************************************************************************)
Entries == [lsid : Started, srv : Conn \cup {NoConn},
            list : Conn \cup {NoConn}, tried : BOOLEAN]

LoginTypes ==
    /\ logged \in [Account -> 0 .. MaxLogin]
    /\ wait \subseteq Started
    /\ join \in Seq(Entries)
    /\ logoutQ \in Seq(Started)
    /\ lsConn \in [Conn -> {"none", "up", "closed"}]

Packets ==
    /\ toWs \in [Conn -> Seq(Packet)]
    /\ gsToWs \in [World -> Seq(Packet)]
    /\ wsToGs \in [World -> Seq(Packet)]

Leaving ==
    /\ loadQ \in [World -> Seq(Started)]
    /\ held \subseteq Started
    /\ \A s \in closing : s \in Session /\ user[s] \in {"confirming", "registered"}
    /\ \A w \in World : \A i \in DOMAIN saveQ[w] :
          WorldOf(saveQ[w][i].lsid) = w /\ user[saveQ[w][i].lsid] = "deleted"
    /\ \A w \in World : \A i, j \in DOMAIN saveQ[w] :
          saveQ[w][i].lsid = saveQ[w][j].lsid => i = j

\* Sessions only start at the login server.
LEMMA LoginUnchanged ==
    ASSUME [Next]_vars, ~ \E a \in Account, w \in World : SelectServer(a, w)
    PROVE  UNCHANGED login
  <1>1. CASE LoginStep
    BY <1>1
    DEF LoginStep, LoginAccepted, LoginRefused, WaitTimeout, ConfirmCheck, ConfirmInsert,
        RecvSubAccount, RecvAccountList, Enlist, ServerClosed, DeleteAccount, linkVars
  <1>2. CASE WorldStep
    BY <1>2
    DEF WorldStep, ClientJoins, SelectChar, ClientLeaves, SocketClosed, RecvConfirmReply,
        RecvKick, RecvGsConfirm, RecvGsSubAccount, RecvChangeChar, LinkLost, linkVars
  <1>3. CASE ChannelStep
    BY <1>3
    DEF ChannelStep, UserLeaves, DeleteClosed, ChangeCharacter, DeleteUser, RecvJoinReply,
        RecvGsKick, LoadCharacter, SaveUser, linkVars
  <1>4. CASE \E s \in Session : EnterChannel(s)
    BY <1>4 DEF EnterChannel, UserJoins
  <1>5. CASE \E w \in World : Reconnect(w)
    BY <1>5 DEF Reconnect
  <1>6. CASE UNCHANGED vars
    BY <1>6 DEF vars, linkVars
  <1> QED
    BY <1>1, <1>2, <1>3, <1>4, <1>5, <1>6 DEF Next

\* What a session that starts changes about those that have.
LEMMA SessionStarts ==
    ASSUME Inv, NEW a \in Account, NEW w \in World, SelectServer(a, w)
    PROVE  /\ Started' = Started \cup {Len(login) + 1} /\ Len(login) + 1 \notin Started
           /\ Started' \subseteq Session /\ 0 \notin Started'
           /\ \A s \in Started : AccountOf(s)' = AccountOf(s) /\ WorldOf(s)' = WorldOf(s)
  <1>1. /\ login' = Append(login, [account |-> a, world |-> w])
        /\ login \in Seq([account : Account, world : World])
        /\ Len(login) < MaxLogin /\ MaxLogin \in Nat
    BY BoundsAssumption DEF SelectServer, Inv, LinksInv
  <1>2. /\ DOMAIN login = 1 .. Len(login) /\ DOMAIN login' = 1 .. Len(login) + 1
        /\ \A s \in DOMAIN login : login'[s] = login[s]
        /\ Len(login) \in Nat
    BY <1>1
  <1> QED
    BY <1>1, <1>2 DEF Started, Session, AccountOf, WorldOf

LEMMA StartedNumbers ==
    ASSUME LinksInv
    PROVE  Started \subseteq Session /\ 0 \notin Started /\ Session \subseteq Nat
  BY SessionFacts, BoundsAssumption DEF Session

\* The connections are no empty sequence.
LEMMA ConnFacts ==
    \A c \in Conn : c # NoConn /\ c[1] \in World
  BY DEF Conn, NoConn

-----------------------------------------------------------------------------
LEMMA JoinKept ==
    ASSUME LoginTypes, UNCHANGED <<login, logged, wait, join, logoutQ, lsConn>>
    PROVE  LoginTypes'
  BY DEF LoginTypes, Entries, Started

\* Entries are changed in place.
LEMMA ChangeFacts ==
    ASSUME LoginTypes, NEW entry, NEW changed \in Entries, changed.lsid = entry.lsid
    PROVE  /\ Change(entry, changed) \in Seq(Entries)
           /\ DOMAIN Change(entry, changed) = DOMAIN join
           /\ \A i \in DOMAIN join : /\ Change(entry, changed)[i].lsid = join[i].lsid
                                     /\ Change(entry, changed)[i]
                                          = IF join[i] = entry THEN changed ELSE join[i]
  <1>1. DOMAIN join = 1 .. Len(join) /\ Len(join) \in Nat
    BY LenProperties DEF LoginTypes
  <1>2. \A i \in DOMAIN join : join[i] \in Entries
    BY <1>1, ElementOfSeq DEF LoginTypes
  <1> QED
    BY <1>1, <1>2 DEF Change

LEMMA SearchEntry ==
    ASSUME LoginTypes, NEW a, Found(a, join)
    PROVE  /\ Search(a, join) \in Entries /\ AccountOf(Search(a, join).lsid) = a
           /\ \E i \in DOMAIN join : join[i] = Search(a, join)
  <1>1. PICK i \in DOMAIN join : Search(a, join) = join[i] /\ AccountOf(join[i].lsid) = a
    BY SearchFacts DEF LoginTypes
  <1>2. join[i] \in Entries
    BY ElementOfSeq, LenProperties DEF LoginTypes
  <1> QED
    BY <1>1, <1>2

LEMMA LoginTypesSelect ==
    ASSUME Inv, LoginTypes, NEW a \in Account, NEW w \in World, SelectServer(a, w)
    PROVE  LoginTypes'
  <1>1. /\ logged' = [logged EXCEPT ![a] = @ - 1] /\ logged[a] > 0
        /\ wait' = wait \cup {Len(login) + 1}
        /\ UNCHANGED <<join, logoutQ, lsConn>>
    BY DEF SelectServer
  <1>2. Started' = Started \cup {Len(login) + 1}
    BY SessionStarts
  <1>3. Entries \subseteq Entries'
    BY <1>2 DEF Entries
  <1>4. join \in Seq(Entries') /\ logoutQ \in Seq(Started')
    BY <1>2, <1>3, SeqMonotonic DEF LoginTypes
  <1>5. logged' \in [Account -> 0 .. MaxLogin]
    <2>1. logged[a] - 1 \in 0 .. MaxLogin
      BY <1>1, BoundsAssumption DEF LoginTypes
    <2> QED
      BY <1>1, <2>1 DEF LoginTypes
  <1>6. wait' \subseteq Started'
    BY <1>1, <1>2 DEF LoginTypes
  <1> QED
    BY <1>1, <1>4, <1>5, <1>6 DEF LoginTypes

LEMMA LoginTypesLogin ==
    ASSUME Inv, LoginTypes, NEW a \in Account, LoginAccepted(a) \/ LoginRefused(a)
    PROVE  LoginTypes'
  <1>1. CASE LoginAccepted(a)
    <2>1. /\ Len(login) + logged[a] < MaxLogin /\ logged' = [logged EXCEPT ![a] = @ + 1]
          /\ UNCHANGED <<login, wait, join, logoutQ, lsConn>>
      BY <1>1 DEF LoginAccepted, linkVars
    <2>2. logged[a] \in Nat /\ Len(login) \in Nat /\ MaxLogin \in Nat
      BY BoundsAssumption, LenProperties DEF LoginTypes, Inv, LinksInv
    <2>3. logged[a] + 1 \in 0 .. MaxLogin
      BY <2>1, <2>2
    <2>4. logged' \in [Account -> 0 .. MaxLogin]
      BY <2>1, <2>3 DEF LoginTypes
    <2> QED
      BY <2>1, <2>4 DEF LoginTypes, Entries, Started
  <1>2. CASE LoginRefused(a)
    <2>1. UNCHANGED <<login, logged, wait, logoutQ, lsConn>> /\ Found(a, join)
      BY <1>2 DEF LoginRefused
    <2> DEFINE e == Search(a, join)
    <2>2. join' = join \/ join' = Change(e, [e EXCEPT !.tried = TRUE])
      BY <1>2 DEF LoginRefused
    <2>3. e \in Entries
      BY <2>1, SearchEntry
    <2>4. [e EXCEPT !.tried = TRUE] \in Entries /\ [e EXCEPT !.tried = TRUE].lsid = e.lsid
      BY <2>3 DEF Entries
    <2>5. Change(e, [e EXCEPT !.tried = TRUE]) \in Seq(Entries)
      BY <2>4, ChangeFacts
    <2>6. join' \in Seq(Entries)
      BY <2>2, <2>5 DEF LoginTypes
    <2> QED
      BY <2>1, <2>6 DEF LoginTypes, Entries, Started
  <1> QED
    BY <1>1, <1>2

LEMMA LoginTypesConfirm ==
    ASSUME Inv, LoginTypes, NEW c \in Conn, ConfirmCheck(c) \/ ConfirmInsert(c)
    PROVE  LoginTypes'
  <1>1. CASE ConfirmCheck(c)
    <2>1. UNCHANGED <<login, logged, join, logoutQ, lsConn>> /\ wait' \subseteq wait
      BY <1>1 DEF ConfirmCheck
    <2> QED
      BY <2>1 DEF LoginTypes, Entries, Started
  <1>2. CASE ConfirmInsert(c)
    <2>1. /\ UNCHANGED <<login, logged, wait, logoutQ, lsConn>>
          /\ checked[c] # 0 /\ join' = <<Entry(checked[c], c)>> \o join
      BY <1>2 DEF ConfirmInsert
    <2>2. checked[c] \in Started
      BY <2>1 DEF Inv, LoginInv, At, Started
    <2>3. Entry(checked[c], c) \in Entries
      BY <2>2 DEF Entry, Entries
    <2>4. <<Entry(checked[c], c)>> \in Seq(Entries) /\ join \in Seq(Entries)
      BY <2>3 DEF LoginTypes
    <2>5. join' \in Seq(Entries)
      BY <2>1, <2>4, ConcatProperties
    <2> QED
      BY <2>1, <2>5 DEF LoginTypes, Entries, Started
  <1> QED
    BY <1>1, <1>2

LEMMA LoginTypesSub ==
    ASSUME Inv, LoginTypes, NEW c \in Conn, RecvSubAccount(c)
    PROVE  LoginTypes'
  <1> DEFINE a == Head(toLs[c]).account
             e == Search(a, join)
  <1>1. UNCHANGED <<login, logged, wait, lsConn>>
    BY DEF RecvSubAccount
  <1>2. \/ UNCHANGED <<join, logoutQ>>
        \/ /\ Found(a, join)
           /\ join' = Change(e, Disowned(e))
           /\ logoutQ' = Append(logoutQ, e.lsid)
    BY DEF RecvSubAccount
  <1>3. CASE UNCHANGED <<join, logoutQ>>
    BY <1>1, <1>3, JoinKept
  <1>4. CASE /\ Found(a, join)
             /\ join' = Change(e, Disowned(e))
             /\ logoutQ' = Append(logoutQ, e.lsid)
    <2>1. e \in Entries
      BY <1>4, SearchEntry
    <2>2. Disowned(e) \in Entries /\ Disowned(e).lsid = e.lsid /\ e.lsid \in Started
      BY <2>1 DEF Disowned, Entries
    <2>3. join' \in Seq(Entries)
      BY <1>4, <2>2, ChangeFacts
    <2>4. logoutQ' \in Seq(Started)
      BY <1>4, <2>2, AppendProperties DEF LoginTypes
    <2> QED
      BY <1>1, <2>3, <2>4 DEF LoginTypes, Entries, Started
  <1> QED
    BY <1>2, <1>3, <1>4

LEMMA LoginTypesEnlist ==
    ASSUME Inv, LoginTypes, NEW c \in Conn, Enlist(c)
    PROVE  LoginTypes'
  <1> DEFINE s == Head(enlisting[c])
  <1>1. UNCHANGED <<login, logged, wait, logoutQ, lsConn>> /\ enlisting[c] # <<>>
    BY DEF Enlist
  <1>2. join' = join \/ join' = <<Entry(s, c)>> \o join
    BY DEF Enlist
  <1>3. s \in Started
    BY <1>1, HeadTailProperties DEF Inv, LoginInv
  <1>4. Entry(s, c) \in Entries
    BY <1>3 DEF Entry, Entries
  <1>5. <<Entry(s, c)>> \in Seq(Entries) /\ join \in Seq(Entries)
    BY <1>4 DEF LoginTypes
  <1>6. join' \in Seq(Entries)
    BY <1>2, <1>5, ConcatProperties
  <1> QED
    BY <1>1, <1>6 DEF LoginTypes, Entries, Started

LEMMA LoginTypesClosed ==
    ASSUME Inv, LoginTypes, NEW c \in Conn, ServerClosed(c)
    PROVE  LoginTypes'
  <1>1. /\ UNCHANGED <<login, logged, wait>>
        /\ lsConn' = [lsConn EXCEPT ![c] = "closed"]
        /\ logoutQ' = logoutQ \o Unlisted(c)
        /\ join' = [i \in DOMAIN join |->
                       IF join[i].list = c THEN [join[i] EXCEPT !.list = NoConn] ELSE join[i]]
    BY DEF ServerClosed
  <1>2. /\ DOMAIN join = 1 .. Len(join) /\ Len(join) \in Nat
        /\ \A i \in DOMAIN join : join[i] \in Entries
    BY LenProperties, ElementOfSeq DEF LoginTypes
  <1>3. \A e \in Entries : [e EXCEPT !.list = NoConn] \in Entries
    BY DEF Entries
  <1>4. join' \in Seq(Entries)
    BY <1>1, <1>2, <1>3
  <1> DEFINE mine == Picked(join, {i \in DOMAIN join : join[i].list = c})
  <1>5. mine \in Seq(Entries)
    BY PickedFacts DEF LoginTypes
  <1>6. PICK m : m = mine
    OBVIOUS
  <1>7. /\ DOMAIN m = 1 .. Len(m) /\ Len(m) \in Nat
        /\ \A i \in 1 .. Len(m) : m[i] \in Entries
    BY <1>5, <1>6, LenProperties, ElementOfSeq
  <1>8. \A i \in 1 .. Len(m) : m[Len(m) + 1 - i].lsid \in Started
    <2> SUFFICES ASSUME NEW i \in 1 .. Len(m) PROVE m[Len(m) + 1 - i].lsid \in Started
      OBVIOUS
    <2>1. Len(m) + 1 - i \in 1 .. Len(m)
      BY <1>7
    <2>2. m[Len(m) + 1 - i] \in Entries
      BY <1>7, <2>1
    <2> QED
      BY <2>2 DEF Entries
  <1>9. Unlisted(c) = [i \in 1 .. Len(m) |-> m[Len(m) + 1 - i].lsid]
    BY <1>6, <1>7 DEF Unlisted
  <1>10. Unlisted(c) \in Seq(Started)
    BY <1>7, <1>8, <1>9
  <1>11. logoutQ' \in Seq(Started)
    BY <1>1, <1>10, ConcatProperties DEF LoginTypes
  <1>12. lsConn' \in [Conn -> {"none", "up", "closed"}]
    BY <1>1 DEF LoginTypes
  <1> QED
    BY <1>1, <1>4, <1>11, <1>12 DEF LoginTypes, Entries, Started

LEMMA LoginTypesDelete ==
    ASSUME Inv, LoginTypes, DeleteAccount
    PROVE  LoginTypes'
  <1>1. /\ UNCHANGED <<login, logged, wait, lsConn>>
        /\ logoutQ # <<>> /\ logoutQ' = Tail(logoutQ)
        /\ join' = Picked(join, {i \in DOMAIN join : join[i].lsid # Head(logoutQ)})
    BY DEF DeleteAccount, linkVars
  <1>2. join' \in Seq(Entries)
    BY <1>1, PickedFacts DEF LoginTypes
  <1>3. logoutQ' \in Seq(Started)
    BY <1>1, HeadTailProperties DEF LoginTypes
  <1> QED
    BY <1>1, <1>2, <1>3 DEF LoginTypes, Entries, Started

LEMMA LoginTypesStep ==
    ASSUME Inv, LoginTypes, [Next]_vars
    PROVE  LoginTypes'
  <1>1. CASE LoginStep
    <2>1. CASE \E c \in Conn : RecvAccountList(c)
      BY <2>1, JoinKept DEF RecvAccountList
    <2>2. CASE \E s \in wait : WaitTimeout(s)
      <3>1. UNCHANGED <<login, logged, join, logoutQ, lsConn>> /\ wait' \subseteq wait
        BY <2>2 DEF WaitTimeout, linkVars
      <3> QED
        BY <3>1 DEF LoginTypes, Entries, Started
    <2> QED
      BY <1>1, <2>1, <2>2, LoginTypesSelect, LoginTypesLogin, LoginTypesConfirm,
         LoginTypesSub, LoginTypesEnlist, LoginTypesClosed, LoginTypesDelete
      DEF LoginStep
  <1>2. CASE \E w \in World : Reconnect(w)
    <2>1. PICK w \in World : Reconnect(w)
      BY <1>2
    <2>2. /\ UNCHANGED <<login, logged, wait, join, logoutQ>>
          /\ lsConn' = [lsConn EXCEPT ![<<w, epoch[w] + 1>>] = "up"]
      BY <2>1 DEF Reconnect
    <2> QED
      BY <2>2 DEF LoginTypes, Entries, Started
  <1>3. CASE UNCHANGED lsVars
    <2>1. ~ \E a \in Account, w \in World : SelectServer(a, w)
      <3>1. ASSUME NEW a \in Account, NEW w \in World, SelectServer(a, w) PROVE FALSE
        <4>1. wait' = wait \cup {Len(login) + 1} /\ Len(login) + 1 \notin Started
          BY <3>1, SessionStarts DEF SelectServer
        <4> QED
          BY <1>3, <4>1 DEF lsVars, LoginTypes
      <3> QED
        BY <3>1
    <2> QED
      BY <1>3, <2>1, LoginUnchanged, JoinKept DEF lsVars
  <1> QED
    BY <1>1, <1>2, <1>3 DEF Next, WorldStep, ChannelStep, EnterChannel, vars

-----------------------------------------------------------------------------
LEMMA TypedSend ==
    ASSUME NEW I, NEW P, NEW f \in [I -> Seq(P)], NEW i, NEW p \in P
    PROVE  [f EXCEPT ![i] = Append(@, p)] \in [I -> Seq(P)]
  <1>1. i \in I => Append(f[i], p) \in Seq(P)
    BY AppendProperties
  <1> QED
    BY <1>1

LEMMA TypedTake ==
    ASSUME NEW I, NEW P, NEW f \in [I -> Seq(P)], NEW i \in I, f[i] # <<>>
    PROVE  Head(f[i]) \in P /\ [f EXCEPT ![i] = Tail(@)] \in [I -> Seq(P)]
  <1>1. Head(f[i]) \in P /\ Tail(f[i]) \in Seq(P)
    BY HeadTailProperties
  <1> QED
    BY <1>1

LEMMA PacketForms ==
    /\ \A s \in Session : ConfirmReq(s) \in Packet
    /\ \A s \in Session : \A r \in {"ok", "already", "timeout", "failed"} :
          ConfirmReply(r, s) \in Packet
    /\ \A a \in Account : /\ SubAccount(a) \in Packet
                          /\ KickAccount(a) \in Packet
                          /\ ChangeChar(a) \in Packet
  BY DEF Packet, ConfirmReq, ConfirmReply, SubAccount, KickAccount, ChangeChar

LEMMA PacketReads ==
    ASSUME NEW p \in Packet
    PROVE  /\ p.type \in {"confirm", "reply"} => p.lsid \in Session
           /\ p.type \in {"sub", "kick", "change"} => p.account \in Account
           /\ p.type # "list"
  BY DEF Packet

LEMMA PacketToWs ==
    ASSUME Packets, NEW c, NEW p \in Packet
    PROVE  SendToWs(c, toWs, p) \in [Conn -> Seq(Packet)]
  <1>1. [toWs EXCEPT ![c] = Append(@, p)] \in [Conn -> Seq(Packet)]
    BY TypedSend DEF Packets
  <1> QED
    BY <1>1 DEF SendToWs, Packets

LEMMA PacketsLogin ==
    ASSUME Inv, LoginTypes, Packets, LoginStep
    PROVE  Packets'
  <1> SUFFICES toWs' \in [Conn -> Seq(Packet)] /\ UNCHANGED <<gsToWs, wsToGs>>
    BY DEF Packets
  <1>1. UNCHANGED <<gsToWs, wsToGs>>
    BY DEF LoginStep, LoginAccepted, LoginRefused, SelectServer, WaitTimeout, ConfirmCheck,
           ConfirmInsert, RecvSubAccount, RecvAccountList, Enlist, ServerClosed,
           DeleteAccount, linkVars
  <1>2. CASE UNCHANGED toWs
    BY <1>1, <1>2 DEF Packets
  <1>3. ASSUME NEW c, NEW a \in Account, toWs' = SendToWs(c, toWs, KickAccount(a))
        PROVE  toWs' \in [Conn -> Seq(Packet)]
    BY <1>3, PacketForms, PacketToWs
  <1>4. ASSUME NEW c, NEW s \in Started, NEW r \in {"ok", "already", "timeout", "failed"},
               toWs' = SendToWs(c, toWs, ConfirmReply(r, s))
        PROVE  toWs' \in [Conn -> Seq(Packet)]
    <2>1. ConfirmReply(r, s) \in Packet
      BY PacketForms, StartedNumbers DEF Inv
    <2> QED
      BY <1>4, <2>1, PacketToWs
  <1>5. CASE \E a \in Account : LoginRefused(a)
    <2>1. PICK a \in Account : LoginRefused(a)
      BY <1>5
    <2>2. UNCHANGED toWs \/ \E c : toWs' = SendToWs(c, toWs, KickAccount(a))
      BY <2>1 DEF LoginRefused
    <2> QED
      BY <1>1, <1>2, <1>3, <2>2
  <1>6. CASE \E c \in Conn : ConfirmCheck(c)
    <2>1. PICK c \in Conn : ConfirmCheck(c)
      BY <1>6
    <2> DEFINE s == Head(toLs[c]).lsid
    <2>2. toLs[c] # <<>> /\ Head(toLs[c]).type = "confirm"
      BY <2>1 DEF ConfirmCheck, Receives
    <2>3. s \in At(login, c[1])
      BY <2>2, ConnTake, MailReads DEF Inv, LinksInv
    <2>4. s \in Started
      BY <2>3 DEF At, Started
    <2>5. UNCHANGED toWs \/ \E r \in {"timeout", "already"} :
                                toWs' = SendToWs(c, toWs, ConfirmReply(r, s))
      BY <2>1 DEF ConfirmCheck
    <2> HIDE DEF s
    <2> QED
      BY <1>1, <1>2, <1>4, <2>4, <2>5
  <1>7. CASE \E c \in Conn : ConfirmInsert(c)
    <2>1. PICK c \in Conn : ConfirmInsert(c)
      BY <1>7
    <2>2. checked[c] # 0 /\ toWs' = SendToWs(c, toWs, ConfirmReply("ok", checked[c]))
      BY <2>1 DEF ConfirmInsert
    <2>3. checked[c] \in Started
      BY <2>2 DEF Inv, LoginInv, At, Started
    <2> QED
      BY <1>1, <1>4, <2>2, <2>3
  <1>8. CASE \E c \in Conn : Enlist(c)
    <2>1. PICK c \in Conn : Enlist(c)
      BY <1>8
    <2> DEFINE a == AccountOf(Head(enlisting[c]))
    <2>2. UNCHANGED toWs \/ \E d : toWs' = SendToWs(d, toWs, KickAccount(a))
      BY <2>1 DEF Enlist
    <2>3. enlisting[c] # <<>>
      BY <2>1 DEF Enlist
    <2>4. Head(enlisting[c]) \in Started
      BY <2>3, HeadTailProperties DEF Inv, LoginInv
    <2>5. a \in Account
      BY <2>4, SessionFacts DEF Inv
    <2> QED
      BY <1>1, <1>2, <1>3, <2>2, <2>5
  <1>9. CASE \/ \E a \in Account : LoginAccepted(a)
             \/ \E a \in Account, w \in World : SelectServer(a, w)
             \/ \E s \in wait : WaitTimeout(s)
             \/ \E c \in Conn : RecvSubAccount(c) \/ RecvAccountList(c) \/ ServerClosed(c)
             \/ DeleteAccount
    <2>1. UNCHANGED toWs
      BY <1>9 DEF LoginAccepted, SelectServer, WaitTimeout, RecvSubAccount, RecvAccountList,
                  ServerClosed, DeleteAccount, linkVars
    <2> QED
      BY <1>1, <1>2, <2>1
  <1> QED
    BY <1>5, <1>6, <1>7, <1>8, <1>9 DEF LoginStep

LEMMA PacketsDelAccount ==
    ASSUME NEW w, NEW a \in Account, NEW bit, NEW socks,
           NEW queues \in [World -> Seq(Packet)], DelAccount(w, a, bit, socks, queues)
    PROVE  wsToGs' \in [World -> Seq(Packet)]
  <1>1. wsToGs' = queues \/ wsToGs' = [queues EXCEPT ![w] = Append(@, KickAccount(a))]
    BY DEF DelAccount
  <1>2. [queues EXCEPT ![w] = Append(@, KickAccount(a))] \in [World -> Seq(Packet)]
    BY TypedSend, PacketForms
  <1> QED
    BY <1>1, <1>2

LEMMA PacketsWorld ==
    ASSUME Inv, Packets, WorldStep
    PROVE  Packets'
  <1>1. CASE \E s \in Session : ClientJoins(s) \/ SelectChar(s) \/ ClientLeaves(s)
    <2>1. UNCHANGED <<toWs, gsToWs, wsToGs>>
      BY <1>1 DEF ClientJoins, SelectChar, ClientLeaves, linkVars
    <2> QED
      BY <2>1 DEF Packets
  <1>2. CASE \E s \in Session : SocketClosed(s)
    <2>1. PICK s \in Session : SocketClosed(s)
      BY <1>2
    <2>2. UNCHANGED <<toWs, gsToWs>>
      BY <2>1 DEF SocketClosed
    <2>3. CASE UNCHANGED wsToGs
      BY <2>2, <2>3 DEF Packets
    <2>4. CASE /\ "WS" \in bits[s]
               /\ DelAccount(WorldOf(s), AccountOf(s), "WS", [sock EXCEPT ![s] = "closed"],
                             wsToGs)
      <3>1. AccountOf(s) \in Account
        BY <2>4, SessionFacts DEF Inv, WorldInv
      <3>2. wsToGs' \in [World -> Seq(Packet)]
        BY <2>4, <3>1, PacketsDelAccount DEF Packets
      <3> QED
        BY <2>2, <3>2 DEF Packets
    <2> QED
      BY <2>1, <2>3, <2>4 DEF SocketClosed
  <1>3. CASE \E w \in World : RecvConfirmReply(w)
    <2>1. PICK w \in World : RecvConfirmReply(w)
      BY <1>3
    <2>2. /\ UNCHANGED <<gsToWs, wsToGs>> /\ toWs[Current(w)] # <<>>
          /\ toWs' = [toWs EXCEPT ![Current(w)] = Tail(@)]
      BY <2>1 DEF RecvConfirmReply, Receives
    <2>3. toWs' \in [Conn -> Seq(Packet)]
      BY <2>2, TypedTake, CurrentConn DEF Packets, Inv
    <2> QED
      BY <2>2, <2>3 DEF Packets
  <1>4. CASE \E w \in World : RecvKick(w)
    <2>1. PICK w \in World : RecvKick(w)
      BY <1>4
    <2> DEFINE a == Head(toWs[Current(w)]).account
               kicked == [wsToGs EXCEPT ![w] = Append(@, KickAccount(a))]
    <2>2. /\ UNCHANGED gsToWs /\ toWs[Current(w)] # <<>>
          /\ Head(toWs[Current(w)]).type = "kick"
          /\ toWs' = [toWs EXCEPT ![Current(w)] = Tail(@)]
          /\ UNCHANGED wsToGs \/ DelAccount(w, a, "GS", sock, kicked)
      BY <2>1 DEF RecvKick, Receives
    <2>3. /\ Head(toWs[Current(w)]) \in Packet
          /\ toWs' \in [Conn -> Seq(Packet)]
      BY <2>2, TypedTake, CurrentConn DEF Packets, Inv
    <2>4. a \in Account
      BY <2>2, <2>3, PacketReads
    <2>5. kicked \in [World -> Seq(Packet)]
      BY <2>4, TypedSend, PacketForms DEF Packets
    <2>6. wsToGs' \in [World -> Seq(Packet)]
      <3> HIDE DEF kicked
      <3> QED
        BY <2>2, <2>4, <2>5, PacketsDelAccount DEF Packets
    <2> QED
      BY <2>2, <2>3, <2>6 DEF Packets
  <1>5. CASE \E w \in World : RecvGsConfirm(w)
    <2>1. PICK w \in World : RecvGsConfirm(w)
      BY <1>5
    <2> DEFINE s == Head(gsToWs[w]).lsid
    <2>2. /\ UNCHANGED toWs /\ gsToWs[w] # <<>> /\ Head(gsToWs[w]).type = "confirm"
          /\ gsToWs' = [gsToWs EXCEPT ![w] = Tail(@)]
          /\ \E r \in {"ok", "failed"} :
                wsToGs' = [wsToGs EXCEPT ![w] = Append(@, ConfirmReply(r, s))]
      BY <2>1 DEF RecvGsConfirm, Receives
    <2>3. Head(gsToWs[w]) \in Packet /\ gsToWs' \in [World -> Seq(Packet)]
      BY <2>2, TypedTake DEF Packets
    <2>4. s \in Session
      BY <2>2, <2>3, PacketReads
    <2>5. \A r \in {"ok", "failed"} : ConfirmReply(r, s) \in Packet
      BY <2>4, PacketForms
    <2>6. wsToGs' \in [World -> Seq(Packet)]
      BY <2>2, <2>5, TypedSend DEF Packets
    <2> QED
      BY <2>2, <2>3, <2>6 DEF Packets
  <1>6. CASE \E w \in World : RecvGsSubAccount(w)
    <2>1. PICK w \in World : RecvGsSubAccount(w)
      BY <1>6
    <2> DEFINE a == Head(gsToWs[w]).account
    <2>2. /\ UNCHANGED toWs /\ gsToWs[w] # <<>> /\ Head(gsToWs[w]).type = "sub"
          /\ gsToWs' = [gsToWs EXCEPT ![w] = Tail(@)]
          /\ DelAccount(w, a, "GS", sock, wsToGs)
      BY <2>1 DEF RecvGsSubAccount, Receives
    <2>3. Head(gsToWs[w]) \in Packet /\ gsToWs' \in [World -> Seq(Packet)]
      BY <2>2, TypedTake DEF Packets
    <2>4. a \in Account
      BY <2>2, <2>3, PacketReads
    <2>5. wsToGs' \in [World -> Seq(Packet)]
      BY <2>2, <2>4, PacketsDelAccount DEF Packets
    <2> QED
      BY <2>2, <2>3, <2>5 DEF Packets
  <1>7. CASE \E w \in World : RecvChangeChar(w)
    <2>1. PICK w \in World : RecvChangeChar(w)
      BY <1>7
    <2>2. /\ UNCHANGED <<toWs, wsToGs>> /\ gsToWs[w] # <<>>
          /\ gsToWs' = [gsToWs EXCEPT ![w] = Tail(@)]
      BY <2>1 DEF RecvChangeChar, Receives
    <2>3. gsToWs' \in [World -> Seq(Packet)]
      BY <2>2, TypedTake DEF Packets
    <2> QED
      BY <2>2, <2>3 DEF Packets
  <1>8. CASE \E w \in World : LinkLost(w)
    <2>1. PICK w \in World : LinkLost(w)
      BY <1>8
    <2>2. UNCHANGED <<gsToWs, wsToGs>> /\ toWs' = [toWs EXCEPT ![Current(w)] = <<>>]
      BY <2>1 DEF LinkLost
    <2>3. <<>> \in Seq(Packet)
      BY EmptySeq
    <2>4. toWs' \in [Conn -> Seq(Packet)]
      BY <2>2, <2>3 DEF Packets
    <2> QED
      BY <2>2, <2>4 DEF Packets
  <1> QED
    BY <1>1, <1>2, <1>3, <1>4, <1>5, <1>6, <1>7, <1>8 DEF WorldStep

\* What a channel server sends about a session or its account.
LEMMA PacketsToWorld ==
    ASSUME Inv, Packets, NEW w, NEW s \in Started,
           NEW p \in {ConfirmReq(s), SubAccount(AccountOf(s)), ChangeChar(AccountOf(s))},
           SendToWorld(w, p)
    PROVE  gsToWs' \in [World -> Seq(Packet)]
  <1>1. s \in Session /\ AccountOf(s) \in Account
    BY SessionFacts DEF Inv
  <1>2. p \in Packet
    BY <1>1, PacketForms
  <1> QED
    BY <1>2, TypedSend DEF SendToWorld, Packets

LEMMA PacketsChannel ==
    ASSUME Inv, Packets, ChannelStep
    PROVE  Packets'
  <1>1. CASE \/ \E s \in Session : UserLeaves(s) \/ DeleteClosed(s) \/ ChangeCharacter(s)
             \/ \E w \in World : LoadCharacter(w)
    <2>1. UNCHANGED <<toWs, gsToWs, wsToGs>>
      BY <1>1 DEF UserLeaves, DeleteClosed, ChangeCharacter, DeleteUser, LoadCharacter,
                  linkVars
    <2> QED
      BY <2>1 DEF Packets
  <1>2. CASE \E w \in World : RecvJoinReply(w)
    <2>1. PICK w \in World : RecvJoinReply(w)
      BY <1>2
    <2> DEFINE s == Head(wsToGs[w]).lsid
    <2>2. /\ UNCHANGED toWs /\ wsToGs[w] # <<>> /\ Head(wsToGs[w]).type = "reply"
          /\ wsToGs' = [wsToGs EXCEPT ![w] = Tail(@)]
          /\ UNCHANGED gsToWs \/ SendToWorld(w, SubAccount(AccountOf(s)))
      BY <2>1 DEF RecvJoinReply, Receives, Rejected
    <2>3. s \in At(login, w)
      BY <2>2, WorldTake, MailReads DEF Inv, LinksInv
    <2>4. s \in Started
      BY <2>3 DEF At, Started
    <2>5. gsToWs' \in [World -> Seq(Packet)]
      <3> HIDE DEF s
      <3> QED
        BY <2>2, <2>4, PacketsToWorld DEF Packets
    <2>6. wsToGs' \in [World -> Seq(Packet)]
      BY <2>2, TypedTake DEF Packets
    <2> QED
      BY <2>2, <2>5, <2>6 DEF Packets
  <1>3. CASE \E w \in World : RecvGsKick(w)
    <2>1. PICK w \in World : RecvGsKick(w)
      BY <1>3
    <2>2. /\ UNCHANGED <<toWs, gsToWs>> /\ wsToGs[w] # <<>>
          /\ wsToGs' = [wsToGs EXCEPT ![w] = Tail(@)]
      BY <2>1 DEF RecvGsKick, Receives
    <2>3. wsToGs' \in [World -> Seq(Packet)]
      BY <2>2, TypedTake DEF Packets
    <2> QED
      BY <2>2, <2>3 DEF Packets
  <1>4. CASE \E w \in World : SaveUser(w)
    <2>1. PICK w \in World : SaveUser(w)
      BY <1>4
    <2> DEFINE s == Head(saveQ[w]).lsid
    <2>2. /\ UNCHANGED <<toWs, wsToGs>> /\ saveQ[w] # <<>>
          /\ \/ UNCHANGED gsToWs
             \/ \E p \in {SubAccount(AccountOf(s)), ChangeChar(AccountOf(s))} :
                   SendToWorld(w, p)
      BY <2>1 DEF SaveUser
    <2>3. Head(saveQ[w]) \in Saves
      BY <2>2, HeadTailProperties DEF Inv, ChannelInv
    <2>4. s \in Started
      BY <2>3 DEF Saves
    <2>5. gsToWs' \in [World -> Seq(Packet)]
      <3> HIDE DEF s
      <3> QED
        BY <2>2, <2>4, PacketsToWorld DEF Packets
    <2> QED
      BY <2>2, <2>5 DEF Packets
  <1> QED
    BY <1>1, <1>2, <1>3, <1>4 DEF ChannelStep

LEMMA PacketsStep ==
    ASSUME Inv, LoginTypes, Packets, [Next]_vars
    PROVE  Packets'
  <1>1. CASE \E s \in Session : EnterChannel(s)
    <2>1. PICK s \in Session : EnterChannel(s)
      BY <1>1
    <2>2. /\ UNCHANGED <<toWs, wsToGs>> /\ sock[s] = "moved"
          /\ SendToWorld(WorldOf(s), ConfirmReq(s))
      BY <2>1 DEF EnterChannel, UserJoins, FollowsMove
    <2>3. s \in Started
      BY <2>2 DEF Inv, WorldInv, SocksInv
    <2>4. gsToWs' \in [World -> Seq(Packet)]
      BY <2>2, <2>3, PacketsToWorld
    <2> QED
      BY <2>2, <2>4 DEF Packets
  <1>2. CASE UNCHANGED <<toWs, gsToWs, wsToGs>>
    BY <1>2 DEF Packets
  <1> QED
    BY <1>1, <1>2, PacketsLogin, PacketsWorld, PacketsChannel
    DEF Next, Reconnect, vars, linkVars

-----------------------------------------------------------------------------
LEMMA SavesTyped ==
    ASSUME Inv, NEW w \in World
    PROVE  /\ saveQ[w] \in Seq(Saves) /\ DOMAIN saveQ[w] = 1 .. Len(saveQ[w])
           /\ Len(saveQ[w]) \in Nat
           /\ \A i \in DOMAIN saveQ[w] : saveQ[w][i] \in Saves /\ saveQ[w][i].lsid \in Started
  <1>1. saveQ[w] \in Seq(Saves)
    BY DEF Inv, ChannelInv
  <1>2. DOMAIN saveQ[w] = 1 .. Len(saveQ[w]) /\ Len(saveQ[w]) \in Nat
    BY <1>1, LenProperties
  <1>3. \A i \in DOMAIN saveQ[w] : saveQ[w][i] \in Saves
    BY <1>1, <1>2, ElementOfSeq
  <1> QED
    BY <1>1, <1>2, <1>3 DEF Saves

LEMMA LeavingKept ==
    ASSUME Inv, Leaving, [Next]_vars, UNCHANGED gsVars
    PROVE  Leaving'
  <1>1. UNCHANGED <<user, closing, loadQ, saveQ, held>>
    BY DEF gsVars
  <1>2. /\ Started \subseteq Started'
        /\ \A s \in Started : WorldOf(s)' = WorldOf(s)
    <2>1. CASE UNCHANGED login
      BY <2>1 DEF Started, WorldOf
    <2>2. CASE \E a \in Account, w \in World : SelectServer(a, w)
      BY <2>2, SessionStarts
    <2> QED
      BY <2>1, <2>2, LoginUnchanged
  <1>3. loadQ' \in [World -> Seq(Started')]
    <2>1. \A w \in World : loadQ[w] \in Seq(Started')
      BY <1>2, SeqMonotonic DEF Leaving
    <2> QED
      BY <1>1, <2>1 DEF Leaving
  <1>4. \A w \in World : \A i \in DOMAIN saveQ[w] : WorldOf(saveQ[w][i].lsid)' = w
    <2> SUFFICES ASSUME NEW w \in World, NEW i \in DOMAIN saveQ[w]
                 PROVE  WorldOf(saveQ[w][i].lsid)' = w
      OBVIOUS
    <2>1. saveQ[w][i].lsid \in Started /\ WorldOf(saveQ[w][i].lsid) = w
      BY SavesTyped DEF Leaving
    <2>2. PICK s \in Started : s = saveQ[w][i].lsid
      BY <2>1
    <2>3. WorldOf(s)' = w
      BY <1>2, <2>1, <2>2
    <2> QED
      BY <1>1, <2>2, <2>3
  <1>5. held' \subseteq Started'
    BY <1>1, <1>2 DEF Leaving
  <1> QED
    BY <1>1, <1>3, <1>4, <1>5 DEF Leaving

\* A user enters the list to be saved once: it is registered or waits for the
\* world's answer when it does, and neither when it is in the list.
LEMMA LeavingDelete ==
    ASSUME Inv, Leaving, NEW s \in Session, NEW mode \in {"left", "charlist"},
           user[s] \in {"confirming", "registered"}, DeleteUser(s, mode)
    PROVE  Leaving'
  <1>1. /\ user' = [user EXCEPT ![s] = "deleted"] /\ closing' = closing \ {s}
        /\ UNCHANGED <<loadQ, held, linkVars>>
    BY DEF DeleteUser
  <1>2. s \in Started /\ WorldOf(s) \in World
    BY SessionFacts DEF Inv, ChannelInv
  <1>3. PICK w \in World : w = WorldOf(s)
    BY <1>2
  <1>4. PICK item : item = [lsid |-> s, mode |-> mode, named |-> user[s] = "registered"]
    OBVIOUS
  <1>5. item \in Saves /\ item.lsid = s
    BY <1>2, <1>4 DEF Saves
  <1>6. saveQ' = [saveQ EXCEPT ![w] = Append(@, item)]
    BY <1>3, <1>4 DEF DeleteUser
  <1>7. PICK q : q = Append(saveQ[w], item)
    OBVIOUS
  <1>8. saveQ'[w] = q /\ \A v \in World : v # w => saveQ'[v] = saveQ[v]
    BY <1>6, <1>7 DEF Inv, ChannelInv
  <1>9. PICK n \in Nat : n = Len(saveQ[w])
    BY SavesTyped
  <1>10. /\ DOMAIN saveQ[w] = 1 .. n /\ DOMAIN q = 1 .. n + 1
         /\ \A i \in 1 .. n : q[i] = saveQ[w][i]
         /\ q[n + 1] = item
    BY <1>5, <1>7, <1>9, SavesTyped, AppendProperties, LenProperties
  <1>11. UNCHANGED login
    BY <1>1 DEF linkVars
  <1>12. \A t : WorldOf(t)' = WorldOf(t)
    BY <1>11 DEF WorldOf
  <1>13. \A v \in World : \A i \in DOMAIN saveQ[v] : saveQ[v][i].lsid # s
    BY DEF Leaving
  <1>14. \A t \in Started : user[t] = "deleted" => user'[t] = "deleted"
    BY <1>1, StartedNumbers DEF Inv, ChannelInv
  <1>15. user'[s] = "deleted"
    BY <1>1 DEF Inv, ChannelInv
  <1>16. ASSUME NEW v \in World, NEW i \in DOMAIN saveQ'[v]
         PROVE  WorldOf(saveQ'[v][i].lsid) = v /\ user'[saveQ'[v][i].lsid] = "deleted"
    <2>1. CASE v # w \/ i # n + 1
      <3>1. i \in DOMAIN saveQ[v] /\ saveQ'[v][i] = saveQ[v][i]
        BY <1>8, <1>10, <2>1
      <3>2. /\ WorldOf(saveQ[v][i].lsid) = v /\ user[saveQ[v][i].lsid] = "deleted"
            /\ saveQ[v][i].lsid \in Started
        BY <3>1, SavesTyped DEF Leaving
      <3> QED
        BY <1>14, <3>1, <3>2
    <2>2. CASE v = w /\ i = n + 1
      BY <1>3, <1>5, <1>8, <1>10, <1>15, <2>2
    <2> QED
      BY <2>1, <2>2
  <1>17. ASSUME NEW v \in World, NEW i \in DOMAIN saveQ'[v], NEW j \in DOMAIN saveQ'[v],
                saveQ'[v][i].lsid = saveQ'[v][j].lsid
         PROVE  i = j
    <2>1. CASE v # w
      BY <1>8, <1>17, <2>1 DEF Leaving
    <2>2. CASE v = w
      <3>1. \A k \in DOMAIN q : k \in 1 .. n \/ k = n + 1
        BY <1>10
      <3>2. \A k, l \in 1 .. n : q[k].lsid = q[l].lsid => k = l
        BY <1>10 DEF Leaving
      <3>3. \A k \in 1 .. n : q[k].lsid # q[n + 1].lsid
        BY <1>5, <1>10, <1>13
      <3>4. i \in DOMAIN q /\ j \in DOMAIN q /\ q[i].lsid = q[j].lsid
        BY <1>8, <1>17, <2>2
      <3> QED
        BY <3>1, <3>2, <3>3, <3>4
    <2> QED
      BY <2>1, <2>2
  <1>18. \A t \in closing' : t \in Session /\ user'[t] \in {"confirming", "registered"}
    BY <1>1 DEF Leaving, Inv, ChannelInv
  <1>19. loadQ' \in [World -> Seq(Started')] /\ held' \subseteq Started'
    BY <1>1, <1>11 DEF Leaving, Started
  <1> QED
    BY <1>12, <1>16, <1>17, <1>18, <1>19 DEF Leaving

\* Only users who wait for an answer, or have one, are registered or closed.
LEMMA LeavingReply ==
    ASSUME Inv, Leaving, NEW w \in World, RecvJoinReply(w) \/ RecvGsKick(w)
    PROVE  Leaving'
  <1> DEFINE s == Head(wsToGs[w]).lsid
  <1>1. UNCHANGED <<login, saveQ, held>>
    BY DEF RecvJoinReply, RecvGsKick
  <1>2. \A t : WorldOf(t)' = WorldOf(t)
    BY <1>1 DEF WorldOf
  <1>3. \A v, a : \A t \in Registered(v, a) : t \in Session /\ user[t] = "registered"
    BY StartedNumbers DEF Registered, Inv
  <1>4. ASSUME UNCHANGED <<user, loadQ>>,
               \A t \in closing' : t \in Session /\ user[t] \in {"confirming", "registered"}
        PROVE  Leaving'
    BY <1>1, <1>2, <1>4 DEF Leaving, Started
  <1>5. CASE RecvGsKick(w)
    <2>1. UNCHANGED <<user, loadQ>>
      BY <1>5 DEF RecvGsKick
    <2>2. \A t \in closing' : t \in closing
                                 \/ t \in Registered(w, Head(wsToGs[w]).account)
      BY <1>5 DEF RecvGsKick
    <2> QED
      BY <1>3, <1>4, <2>1, <2>2 DEF Leaving
  <1>6. CASE RecvJoinReply(w)
    <2>1. s \in Started /\ s \in Session
      <3>1. wsToGs[w] # <<>> /\ Head(wsToGs[w]).type = "reply"
        BY <1>6 DEF RecvJoinReply, Receives
      <3>2. s \in At(login, w)
        BY <3>1, WorldTake, MailReads DEF Inv, LinksInv
      <3> QED
        BY <3>2, StartedNumbers DEF At, Started, Inv
    <2>2. CASE UNCHANGED <<user, closing, loadQ>>
      BY <1>4, <2>2 DEF Leaving
    <2>3. CASE /\ UNCHANGED <<user, loadQ>>
               /\ user[s] \in {"confirming", "registered"}
               /\ \E t \in Namesakes(w, AccountOf(s)) : closing' = closing \cup {s, t}
      <3>1. \A t \in closing' : t \in closing \/ t = s \/ t \in Registered(w, AccountOf(s))
        BY <2>3 DEF Namesakes
      <3> QED
        BY <1>3, <1>4, <2>1, <2>3, <3>1 DEF Leaving
    <2>4. CASE /\ UNCHANGED closing
               /\ user[s] \in {"confirming", "registered"}
               /\ user' = [user EXCEPT ![s] = "registered"]
               /\ loadQ' = [loadQ EXCEPT ![w] = Append(@, s)]
      <3>1. loadQ' \in [World -> Seq(Started')]
        BY <1>1, <2>1, <2>4, TypedSend DEF Leaving, Started
      <3>2. \A t \in closing' : t \in Session /\ user'[t] \in {"confirming", "registered"}
        BY <2>1, <2>4 DEF Leaving, Inv, ChannelInv
      <3>3. \A t \in Started : user[t] = "deleted" => user'[t] = "deleted"
        BY <2>4, StartedNumbers DEF Inv, ChannelInv
      <3>4. ASSUME NEW v \in World, NEW i \in DOMAIN saveQ'[v]
            PROVE  WorldOf(saveQ'[v][i].lsid) = v /\ user'[saveQ'[v][i].lsid] = "deleted"
        <4>1. i \in DOMAIN saveQ[v] /\ saveQ'[v][i] = saveQ[v][i]
          BY <1>1
        <4>2. /\ WorldOf(saveQ[v][i].lsid) = v /\ user[saveQ[v][i].lsid] = "deleted"
              /\ saveQ[v][i].lsid \in Started
          BY <4>1, SavesTyped DEF Leaving
        <4> QED
          BY <3>3, <4>1, <4>2
      <3> QED
        BY <1>1, <1>2, <3>1, <3>2, <3>4 DEF Leaving, Started
    <2> HIDE DEF s
    <2> QED
      BY <1>6, <2>2, <2>3, <2>4 DEF RecvJoinReply, s
  <1> QED
    BY <1>5, <1>6

LEMMA LeavingSave ==
    ASSUME Inv, Leaving, NEW w \in World, SaveUser(w)
    PROVE  Leaving'
  <1>1. PICK s : s = Head(saveQ[w]).lsid
    OBVIOUS
  <1>2. /\ saveQ[w] # <<>> /\ saveQ' = [saveQ EXCEPT ![w] = Tail(@)]
        /\ held' = held \ {s}
        /\ \E next \in {"none", "gone"} : user' = [user EXCEPT ![s] = next]
        /\ UNCHANGED <<closing, loadQ, login>>
    BY <1>1 DEF SaveUser
  <1>3. PICK n \in Nat : n = Len(saveQ[w])
    BY SavesTyped
  <1>4. DOMAIN saveQ[w] = 1 .. n /\ n # 0 /\ 1 \in DOMAIN saveQ[w] /\ n - 1 \in Nat
    BY <1>2, <1>3, SavesTyped
  <1>5. PICK q : q = Tail(saveQ[w])
    OBVIOUS
  <1>6. /\ DOMAIN q = 1 .. n - 1
        /\ \A i \in 1 .. n - 1 : q[i] = saveQ[w][i + 1]
    BY <1>2, <1>3, <1>5, SavesTyped, HeadTailProperties, LenProperties
  <1>7. saveQ'[w] = q /\ \A v \in World : v # w => saveQ'[v] = saveQ[v]
    BY <1>2, <1>5 DEF Inv, ChannelInv
  <1>8. s = saveQ[w][1].lsid
    BY <1>1, <1>2, SavesTyped, HeadTailProperties
  <1>9. WorldOf(s) = w /\ user[s] = "deleted" /\ s \in Started
    BY <1>4, <1>8, SavesTyped DEF Leaving
  <1>10. \A t : WorldOf(t)' = WorldOf(t)
    BY <1>2 DEF WorldOf
  <1>11. \A t \in Started : t # s => user'[t] = user[t]
    BY <1>2, StartedNumbers DEF Inv, ChannelInv
  <1>12. \A v \in World : \A i \in DOMAIN saveQ'[v] :
            \E j \in DOMAIN saveQ[v] : saveQ'[v][i] = saveQ[v][j] /\ (v = w => j = i + 1)
    BY <1>4, <1>6, <1>7
  <1>13. ASSUME NEW v \in World, NEW i \in DOMAIN saveQ'[v]
         PROVE  WorldOf(saveQ'[v][i].lsid) = v /\ user'[saveQ'[v][i].lsid] = "deleted"
    <2>1. PICK j \in DOMAIN saveQ[v] : saveQ'[v][i] = saveQ[v][j] /\ (v = w => j = i + 1)
      BY <1>12
    <2>2. PICK t : t = saveQ[v][j].lsid
      OBVIOUS
    <2>3. t \in Started /\ WorldOf(t) = v /\ user[t] = "deleted"
      BY <2>2, SavesTyped DEF Leaving
    <2>4. t # s
      <3>1. CASE v = w
        <4>1. i \in Nat /\ i # 0 /\ j = i + 1
          BY <1>6, <1>7, <2>1, <3>1
        <4>2. j # 1
          BY <4>1
        <4> QED
          BY <1>4, <1>8, <2>2, <3>1, <4>2 DEF Leaving
      <3>2. CASE v # w
        BY <1>9, <2>3, <3>2
      <3> QED
        BY <3>1, <3>2
    <2> QED
      BY <1>11, <2>1, <2>2, <2>3, <2>4
  <1>14. ASSUME NEW v \in World, NEW i \in DOMAIN saveQ'[v], NEW j \in DOMAIN saveQ'[v],
                saveQ'[v][i].lsid = saveQ'[v][j].lsid
         PROVE  i = j
    <2>1. CASE v # w
      BY <1>7, <1>14, <2>1 DEF Leaving
    <2>2. CASE v = w
      <3>1. i \in 1 .. n - 1 /\ j \in 1 .. n - 1 /\ q[i].lsid = q[j].lsid
        BY <1>6, <1>7, <1>14, <2>2
      <3>2. saveQ[w][i + 1].lsid = saveQ[w][j + 1].lsid
        BY <1>6, <3>1
      <3>3. i + 1 \in DOMAIN saveQ[w] /\ j + 1 \in DOMAIN saveQ[w]
        BY <1>4, <3>1
      <3>4. i + 1 = j + 1
        BY <3>2, <3>3 DEF Leaving
      <3> QED
        BY <3>1, <3>4
    <2> QED
      BY <2>1, <2>2
  <1>15. \A t \in closing' : t \in Session /\ user'[t] \in {"confirming", "registered"}
    BY <1>2, <1>9 DEF Leaving, Inv, ChannelInv
  <1>16. loadQ' \in [World -> Seq(Started')] /\ held' \subseteq Started'
    BY <1>2 DEF Leaving, Started
  <1> QED
    BY <1>10, <1>13, <1>14, <1>15, <1>16 DEF Leaving

LEMMA LeavingStep ==
    ASSUME Inv, Leaving, [Next]_vars
    PROVE  Leaving'
  <1>1. CASE UNCHANGED gsVars
    BY <1>1, LeavingKept
  <1>2. CASE \E s \in Session : UserLeaves(s)
    <2>1. PICK s \in Session : UserLeaves(s)
      BY <1>2
    <2>2. /\ UNCHANGED <<user, loadQ, saveQ, held, login>>
          /\ user[s] \in {"confirming", "registered"} /\ closing' = closing \cup {s}
      BY <2>1 DEF UserLeaves, linkVars
    <2>3. \A t : WorldOf(t)' = WorldOf(t)
      BY <2>2 DEF WorldOf
    <2> QED
      BY <2>2, <2>3 DEF Leaving, Started
  <1>3. CASE \E s \in Session : DeleteClosed(s) \/ ChangeCharacter(s)
    <2>1. PICK s \in Session : DeleteClosed(s) \/ ChangeCharacter(s)
      BY <1>3
    <2>2. /\ user[s] \in {"confirming", "registered"}
          /\ \E mode \in {"left", "charlist"} : DeleteUser(s, mode)
      BY <2>1 DEF DeleteClosed, ChangeCharacter, Leaving
    <2> QED
      BY <2>2, LeavingDelete
  <1>4. CASE \E w \in World : LoadCharacter(w)
    <2>1. PICK w \in World : LoadCharacter(w)
      BY <1>4
    <2>2. /\ UNCHANGED <<user, closing, saveQ, login>> /\ loadQ[w] # <<>>
          /\ loadQ' = [loadQ EXCEPT ![w] = Tail(@)]
          /\ held' \subseteq held \cup {Head(loadQ[w])}
      BY <2>1 DEF LoadCharacter, linkVars
    <2>3. Head(loadQ[w]) \in Started /\ loadQ' \in [World -> Seq(Started)]
      BY <2>2, TypedTake DEF Leaving
    <2>4. \A t : WorldOf(t)' = WorldOf(t)
      BY <2>2 DEF WorldOf
    <2> QED
      BY <2>2, <2>3, <2>4 DEF Leaving, Started
  <1>5. CASE \E s \in Session : EnterChannel(s)
    <2>1. PICK s \in Session : EnterChannel(s)
      BY <1>5
    <2>2. /\ UNCHANGED <<closing, loadQ, saveQ, held, login>> /\ user[s] = "none"
          /\ user' = [user EXCEPT ![s] = "confirming"]
      BY <2>1 DEF EnterChannel, UserJoins
    <2>3. \A t : WorldOf(t)' = WorldOf(t)
      BY <2>2 DEF WorldOf
    <2>4. \A t \in Session : user[t] # "none" => user'[t] = user[t]
      BY <2>2 DEF Inv, ChannelInv
    <2>5. ASSUME NEW v \in World, NEW i \in DOMAIN saveQ'[v]
          PROVE  WorldOf(saveQ'[v][i].lsid) = v /\ user'[saveQ'[v][i].lsid] = "deleted"
      <3>1. i \in DOMAIN saveQ[v] /\ saveQ'[v][i] = saveQ[v][i]
        BY <2>2
      <3>2. /\ WorldOf(saveQ[v][i].lsid) = v /\ user[saveQ[v][i].lsid] = "deleted"
            /\ saveQ[v][i].lsid \in Session
        BY <3>1, SavesTyped, StartedNumbers DEF Leaving, Inv
      <3> QED
        BY <2>4, <3>1, <3>2
    <2>6. \A t \in closing' : t \in Session /\ user'[t] \in {"confirming", "registered"}
      BY <2>2, <2>4 DEF Leaving
    <2> QED
      BY <2>2, <2>3, <2>5, <2>6 DEF Leaving, Started
  <1> QED
    BY <1>1, <1>2, <1>3, <1>4, <1>5, LeavingReply, LeavingSave
    DEF Next, LoginStep, WorldStep, ChannelStep, Reconnect, vars

-----------------------------------------------------------------------------
Typed == Inv /\ LoginTypes /\ Packets /\ Leaving

LEMMA InitTyped == Init => Typed
  <1> SUFFICES ASSUME Init PROVE Typed
    OBVIOUS
  <1> USE DEF Init, LinksInit, LoginInit, ChannelInit
  <1>1. \A S : <<>> \in Seq(S)
    BY EmptySeq
  <1>2. Inv
    BY InitInv
  <1>3. LoginTypes
    <2>1. logged \in [Account -> 0 .. MaxLogin]
      BY BoundsAssumption
    <2>2. lsConn \in [Conn -> {"none", "up", "closed"}]
      OBVIOUS
    <2> QED
      BY <1>1, <2>1, <2>2 DEF LoginTypes
  <1>4. Packets
    BY <1>1 DEF Packets
  <1>5. Leaving
    <2>1. \A w \in World : DOMAIN saveQ[w] = {}
      OBVIOUS
    <2> QED
      BY <1>1, <2>1 DEF Leaving
  <1> QED
    BY <1>2, <1>3, <1>4, <1>5 DEF Typed

LEMMA NextTyped == Typed /\ [Next]_vars => Typed'
  BY NextInv, LoginTypesStep, PacketsStep, LeavingStep DEF Typed

THEOREM TypeInvariance == Spec => []Typed
  BY InitTyped, NextTyped, PTL DEF Spec

\* The state of the three servers has its types for any number of accounts, worlds,
\* sessions and lost connections.  In particular a user whose socket has closed is
\* listed until it is deleted, once, and no packet to a world carries a list.
THEOREM TypeCorrect == Spec => []TypeOK
  <1>1. Typed => TypeOK
    <2> SUFFICES ASSUME Typed PROVE TypeOK
      OBVIOUS
    <2> USE DEF Typed
    <2>1. /\ login \in Seq([account : Account, world : World]) /\ Len(login) <= MaxLogin
          /\ epoch \in [World -> 0 .. MaxLoss]
          /\ linkUp \in [World -> BOOLEAN]
      BY DEF Inv, LinksInv
    <2>2. /\ \A w \in World : \A q \in {gsToWs[w], wsToGs[w]} : q \in Seq(Packet)
          /\ \A c \in Conn : toWs[c] \in Seq(Packet)
      BY DEF Packets
    <2>3. /\ logged \in [Account -> 0 .. MaxLogin]
          /\ wait \subseteq Started
          /\ join \in Seq([lsid : Started, srv : Conn \cup {NoConn},
                           list : Conn \cup {NoConn}, tried : BOOLEAN])
          /\ logoutQ \in Seq(Started)
          /\ lsConn \in [Conn -> {"none", "up", "closed"}]
      BY DEF LoginTypes, Entries
    <2>4. checked \in [Conn -> {0} \cup Started] /\ enlisting \in [Conn -> Seq(Started)]
      BY DEF Inv, LoginInv, At, Started
    <2>5. /\ sock \in [Session -> {"none", "closing", "closed"} \cup Connected]
          /\ bits \in [Session -> SUBSET {"WS", "GS"}]
          /\ user \in [Session -> {"none", "confirming", "registered", "deleted", "gone"}]
      BY DEF Inv, WorldInv, SocksInv, ChannelInv
    <2>6. /\ closing \subseteq {s \in Session : user[s] \in {"confirming", "registered"}}
          /\ held \subseteq Started
      BY DEF Leaving
    <2> QED
      BY <2>1, <2>2, <2>3, <2>4, <2>5, <2>6 DEF TypeOK
  <1> QED
    BY <1>1, TypeInvariance, PTL

-----------------------------------------------------------------------------
(***************************************************************************)
(* While no connection between world and login server is lost              *)
(* (MaxLoss = 0): a session passes through the list of those that wait, a  *)
(* confirmation under way, the JOIN list and the list of those to be       *)
(* deleted in this order and never back, and an entry has lost its server  *)
(* when it is handed over for deletion.  A second log-out finds it without *)
(* one and leaves it alone.                                                *)
(***************************************************************************)
Quiet ==
    /\ toLs \in [Conn -> Seq(Packet)]
    /\ \A c \in Conn : enlisting[c] = <<>>

LEMMA Steady ==
    ASSUME MaxLoss = 0, LinksInv
    PROVE  /\ \A w \in World : linkUp[w] /\ epoch[w] = 0 /\ Current(w) = <<w, 0>>
           /\ \A c \in Conn : Live(c) /\ c = Current(c[1]) /\ c[1] \in World
  <1>1. \A w \in World : linkUp[w] /\ epoch[w] = 0
    BY DEF LinksInv
  <1>2. \A w \in World : Current(w) = <<w, 0>>
    BY <1>1 DEF Current
  <1>3. \A c \in Conn : c[1] \in World /\ c = <<c[1], 0>>
    BY DEF Conn
  <1> QED
    BY <1>1, <1>2, <1>3 DEF Live

\* The steps that connections are lost, closed or made again in.
LEMMA NoLoss ==
    ASSUME MaxLoss = 0, Inv, Quiet
    PROVE  /\ \A w \in World : ~LinkLost(w) /\ ~Reconnect(w)
           /\ \A c \in Conn : ~ServerClosed(c) /\ ~Enlist(c) /\ ~RecvAccountList(c)
  <1>1. \A w \in World : ~LinkLost(w) /\ ~Reconnect(w)
    BY Steady DEF Inv, LinkLost, Reconnect
  <1>2. \A c \in Conn : ~ServerClosed(c)
    BY Steady DEF Inv, ServerClosed
  <1>3. \A c \in Conn : ~Enlist(c)
    BY DEF Quiet, Enlist
  <1>4. ASSUME NEW c \in Conn, RecvAccountList(c) PROVE FALSE
    <2>1. toLs[c] # <<>> /\ Head(toLs[c]).type = "list"
      BY <1>4 DEF RecvAccountList, Receives
    <2>2. Head(toLs[c]) \in Packet
      BY <2>1, TypedTake DEF Quiet
    <2> QED
      BY <2>1, <2>2, PacketReads
  <1> QED
    BY <1>1, <1>2, <1>3, <1>4

LEMMA QuietSend ==
    ASSUME Quiet, NEW w, NEW p \in Packet
    PROVE  SendToLs(w, toLs, p) \in [Conn -> Seq(Packet)]
  <1>1. [toLs EXCEPT ![Current(w)] = Append(@, p)] \in [Conn -> Seq(Packet)]
    BY TypedSend DEF Quiet
  <1> QED
    BY <1>1 DEF SendToLs, Quiet

LEMMA QuietDelAccount ==
    ASSUME Quiet, NEW w, NEW a \in Account, NEW bit, NEW socks, NEW queues,
           DelAccount(w, a, bit, socks, queues)
    PROVE  toLs' \in [Conn -> Seq(Packet)]
  <1>1. toLs' = toLs \/ toLs' = SendToLs(w, toLs, SubAccount(a))
    BY DEF DelAccount
  <1>2. SendToLs(w, toLs, SubAccount(a)) \in [Conn -> Seq(Packet)]
    BY QuietSend, PacketForms
  <1> QED
    BY <1>1, <1>2 DEF Quiet

LEMMA QuietWorld ==
    ASSUME MaxLoss = 0, Typed, Quiet, WorldStep
    PROVE  toLs' \in [Conn -> Seq(Packet)]
  <1>1. CASE UNCHANGED toLs
    BY <1>1 DEF Quiet
  <1>2. CASE \E s \in Session : ClientJoins(s)
    <2>1. PICK s \in Session : ClientJoins(s)
      BY <1>2
    <2>2. toLs' = SendToLs(WorldOf(s), toLs, ConfirmReq(s))
      BY <2>1 DEF ClientJoins
    <2> QED
      BY <2>2, QuietSend, PacketForms
  <1>3. CASE \E s \in Session : SocketClosed(s)
    <2>1. PICK s \in Session : SocketClosed(s)
      BY <1>3
    <2>2. CASE /\ "WS" \in bits[s]
               /\ DelAccount(WorldOf(s), AccountOf(s), "WS", [sock EXCEPT ![s] = "closed"],
                             wsToGs)
      <3>1. AccountOf(s) \in Account
        BY <2>2, SessionFacts DEF Typed, Inv, WorldInv
      <3> QED
        BY <2>2, <3>1, QuietDelAccount
    <2> QED
      BY <1>1, <2>1, <2>2 DEF SocketClosed
  <1>4. CASE \E w \in World : RecvConfirmReply(w)
    <2>1. PICK w \in World : RecvConfirmReply(w)
      BY <1>4
    <2> DEFINE s == Head(toWs[Current(w)]).lsid
    <2>2. toWs[Current(w)] # <<>> /\ Head(toWs[Current(w)]).type = "reply"
      BY <2>1 DEF RecvConfirmReply, Receives
    <2>3. Head(toWs[Current(w)]) \in Mail(At(login, Current(w)[1]))
      BY <2>2, ConnTake, CurrentConn DEF Typed, Inv, LinksInv
    <2>4. s \in At(login, Current(w)[1])
      BY <2>2, <2>3, MailReads
    <2>5. AccountOf(s) \in Account
      BY <2>4, SessionFacts DEF Typed, Inv, At, Started
    <2>6. UNCHANGED toLs \/ toLs' = SendToLs(w, toLs, SubAccount(AccountOf(s)))
      BY <2>1 DEF RecvConfirmReply
    <2>7. SubAccount(AccountOf(s)) \in Packet
      BY <2>5, PacketForms
    <2> HIDE DEF s
    <2> QED
      BY <1>1, <2>6, <2>7, QuietSend
  <1>5. CASE \E w \in World : RecvKick(w)
    <2>1. PICK w \in World : RecvKick(w)
      BY <1>5
    <2> DEFINE a == Head(toWs[Current(w)]).account
    <2>2. /\ toWs[Current(w)] # <<>> /\ Head(toWs[Current(w)]).type = "kick"
          /\ \/ UNCHANGED toLs
             \/ \E queues : DelAccount(w, a, "GS", sock, queues)
      BY <2>1 DEF RecvKick, Receives
    <2>3. Head(toWs[Current(w)]) \in Packet
      BY <2>2, TypedTake, CurrentConn DEF Typed, Packets, Inv
    <2>4. a \in Account
      BY <2>2, <2>3, PacketReads
    <2> QED
      BY <1>1, <2>2, <2>4, QuietDelAccount
  <1>6. CASE \E w \in World : RecvGsSubAccount(w)
    <2>1. PICK w \in World : RecvGsSubAccount(w)
      BY <1>6
    <2> DEFINE a == Head(gsToWs[w]).account
    <2>2. /\ gsToWs[w] # <<>> /\ Head(gsToWs[w]).type = "sub"
          /\ DelAccount(w, a, "GS", sock, wsToGs)
      BY <2>1 DEF RecvGsSubAccount, Receives
    <2>3. Head(gsToWs[w]) \in Packet
      BY <2>2, TypedTake DEF Typed, Packets
    <2>4. a \in Account
      BY <2>2, <2>3, PacketReads
    <2> QED
      BY <2>2, <2>4, QuietDelAccount
  <1>7. CASE \/ \E s \in Session : SelectChar(s) \/ ClientLeaves(s)
             \/ \E w \in World : RecvGsConfirm(w) \/ RecvChangeChar(w)
    BY <1>1, <1>7 DEF SelectChar, ClientLeaves, RecvGsConfirm, RecvChangeChar, linkVars
  <1>8. \A w \in World : ~LinkLost(w)
    BY NoLoss DEF Typed
  <1> QED
    BY <1>2, <1>3, <1>4, <1>5, <1>6, <1>7, <1>8 DEF WorldStep

LEMMA QuietStep ==
    ASSUME MaxLoss = 0, Typed, Quiet, [Next]_vars
    PROVE  Quiet'
  <1>1. /\ \A w \in World : ~LinkLost(w) /\ ~Reconnect(w)
        /\ \A c \in Conn : ~ServerClosed(c) /\ ~Enlist(c) /\ ~RecvAccountList(c)
    BY NoLoss DEF Typed
  <1>2. CASE LoginStep
    <2>1. UNCHANGED enlisting
      BY <1>1, <1>2 DEF LoginStep, LoginAccepted, LoginRefused, SelectServer, WaitTimeout,
         ConfirmCheck, ConfirmInsert, RecvSubAccount, DeleteAccount
    <2>2. CASE \E c \in Conn : ConfirmCheck(c) \/ RecvSubAccount(c)
      <3>1. PICK c \in Conn : toLs[c] # <<>> /\ toLs' = [toLs EXCEPT ![c] = Tail(@)]
        BY <2>2 DEF ConfirmCheck, RecvSubAccount, Receives
      <3>2. toLs' \in [Conn -> Seq(Packet)]
        BY <3>1, TypedTake DEF Quiet
      <3> QED
        BY <2>1, <3>2 DEF Quiet
    <2>3. CASE ~ \E c \in Conn : ConfirmCheck(c) \/ RecvSubAccount(c)
      <3>1. UNCHANGED toLs
        BY <1>1, <1>2, <2>3 DEF LoginStep, LoginAccepted, LoginRefused, SelectServer,
           WaitTimeout, ConfirmInsert, DeleteAccount, linkVars
      <3> QED
        BY <2>1, <3>1 DEF Quiet
    <2> QED
      BY <2>2, <2>3
  <1>3. CASE WorldStep
    <2>1. UNCHANGED enlisting
      BY <1>3 DEF WorldStep, lsVars
    <2> QED
      BY <1>3, <2>1, QuietWorld DEF Quiet
  <1>4. CASE UNCHANGED <<toLs, enlisting>>
    BY <1>4 DEF Quiet
  <1>5. ChannelStep => UNCHANGED <<toLs, enlisting>>
    BY DEF ChannelStep, lsVars, UserLeaves, DeleteClosed, ChangeCharacter, DeleteUser,
           RecvJoinReply, RecvGsKick, LoadCharacter, SaveUser, linkVars
  <1>6. (\E s \in Session : EnterChannel(s)) => UNCHANGED <<toLs, enlisting>>
    BY DEF EnterChannel, UserJoins, lsVars
  <1>7. UNCHANGED vars => UNCHANGED <<toLs, enlisting>>
    BY DEF vars, lsVars, linkVars
  <1> QED
    BY <1>1, <1>2, <1>3, <1>4, <1>5, <1>6, <1>7 DEF Next

-----------------------------------------------------------------------------
LogoutLsids == {logoutQ[k] : k \in DOMAIN logoutQ}

\* An LSID has one entry.
Distinct == \A i, j \in DOMAIN join : join[i].lsid = join[j].lsid => i = j

\* A session that waits or is being confirmed has neither been joined nor logged out.
Apart ==
    /\ \A s \in JoinedLsids \cup LogoutLsids : s \notin wait
    /\ \A s \in JoinedLsids \cup LogoutLsids : \A c \in Conn : checked[c] # s
    /\ \A c \in Conn : checked[c] \notin wait

\* An entry that is handed over for deletion has no server any more.
Out == \A i \in DOMAIN join : join[i].lsid \in LogoutLsids => join[i].srv = NoConn

Once == Distinct /\ Apart /\ Out /\ LoggedOutOnce

Steadily == Typed /\ Quiet

\* Connections are those of different worlds, and confirm different sessions.
LEMMA CheckedApart ==
    ASSUME MaxLoss = 0, Inv, NEW c \in Conn, NEW d \in Conn,
           checked[c] # 0, checked[d] = checked[c]
    PROVE  d = c
  <1>1. checked[c] \in At(login, c[1]) /\ checked[c] \in At(login, d[1])
    BY DEF Inv, LoginInv
  <1>2. c[1] = d[1]
    BY <1>1, SessionFacts, ConnFacts DEF Inv
  <1> QED
    BY <1>2, Steady DEF Inv

LEMMA LsidsStarted ==
    ASSUME LoginTypes
    PROVE  JoinedLsids \subseteq Started /\ LogoutLsids \subseteq Started
  <1>1. \A i \in DOMAIN join : join[i] \in Entries
    BY ElementOfSeq, LenProperties DEF LoginTypes
  <1>2. LogoutLsids \subseteq Started
    BY ElementOfSeq, LenProperties DEF LoginTypes, LogoutLsids
  <1> QED
    BY <1>1, <1>2 DEF JoinedLsids, Entries

LEMMA OnceKept ==
    ASSUME Once, UNCHANGED <<join, logoutQ>>, wait' \subseteq wait, UNCHANGED checked
    PROVE  Once'
  BY DEF Once, Distinct, Apart, Out, LoggedOutOnce, JoinedLsids, LogoutLsids

LEMMA OnceSelect ==
    ASSUME Typed, Once, NEW a \in Account, NEW w \in World, SelectServer(a, w)
    PROVE  Once'
  <1>1. PICK s : s = Len(login) + 1
    OBVIOUS
  <1>2. wait' = wait \cup {s} /\ UNCHANGED <<join, checked, logoutQ>>
    BY <1>1 DEF SelectServer
  <1>3. s \notin Started /\ s # 0
    BY <1>1, SessionStarts DEF Typed
  <1>4. JoinedLsids \subseteq Started /\ LogoutLsids \subseteq Started
    BY LsidsStarted DEF Typed
  <1>6. \A c \in Conn : checked[c] # s
    BY <1>3 DEF Typed, Inv, LoginInv, At, Started
  <1>7. JoinedLsids' = JoinedLsids /\ LogoutLsids' = LogoutLsids
    BY <1>2 DEF JoinedLsids, LogoutLsids
  <1>8. Apart'
    BY <1>2, <1>3, <1>4, <1>6, <1>7 DEF Once, Apart
  <1> QED
    BY <1>2, <1>7, <1>8 DEF Once, Distinct, Out, LoggedOutOnce

LEMMA OnceCheck ==
    ASSUME Typed, Once, NEW c \in Conn, ConfirmCheck(c)
    PROVE  Once'
  <1>1. PICK s : s = Head(toLs[c]).lsid
    OBVIOUS
  <1>2. /\ UNCHANGED <<join, logoutQ>> /\ wait' = wait \ {s}
        /\ UNCHANGED checked \/ (s \in wait /\ checked' = [checked EXCEPT ![c] = s])
    BY <1>1 DEF ConfirmCheck
  <1>3. CASE UNCHANGED checked
    BY <1>2, <1>3, OnceKept
  <1>4. CASE s \in wait /\ checked' = [checked EXCEPT ![c] = s]
    <2>1. JoinedLsids' = JoinedLsids /\ LogoutLsids' = LogoutLsids
      BY <1>2 DEF JoinedLsids, LogoutLsids
    <2>2. \A d \in Conn : checked'[d] = s \/ checked'[d] = checked[d]
      BY <1>4 DEF Typed, Inv, LoginInv
    <2>3. Apart'
      BY <1>2, <1>4, <2>1, <2>2 DEF Once, Apart
    <2> QED
      BY <1>2, <2>1, <2>3 DEF Once, Distinct, Out, LoggedOutOnce
  <1> QED
    BY <1>2, <1>3, <1>4

\* What follows of a new entry at the head of the list.
LEMMA InsertFacts ==
    ASSUME LoginTypes, NEW e
    PROVE  LET r == <<e>> \o join
           IN  /\ DOMAIN r = 1 .. Len(join) + 1 /\ Len(join) \in Nat
               /\ DOMAIN join = 1 .. Len(join)
               /\ r[1] = e
               /\ \A i \in DOMAIN join : i + 1 \in DOMAIN r /\ r[i + 1] = join[i]
               /\ \A i \in DOMAIN r : i = 1 \/ (i - 1 \in DOMAIN join /\ r[i] = join[i - 1])
  <1>1. PICK S : S = Entries \cup {e}
    OBVIOUS
  <1>2. join \in Seq(S) /\ <<e>> \in Seq(S)
    BY <1>1, SeqMonotonic DEF LoginTypes
  <1>3. PICK n \in Nat : n = Len(join) /\ DOMAIN join = 1 .. n
    BY <1>2, LenProperties
  <1>4. PICK r : r = <<e>> \o join
    OBVIOUS
  <1>5. DOMAIN r = 1 .. n + 1 /\ r[1] = e /\ \A i \in 2 .. n + 1 : r[i] = join[i - 1]
    BY <1>2, <1>3, <1>4
  <1>6. \A i \in 1 .. n : i + 1 \in 2 .. n + 1 /\ (i + 1) - 1 = i
    BY <1>3
  <1>7. \A i \in 1 .. n : r[i + 1] = join[i]
    BY <1>5, <1>6
  <1> QED
    BY <1>3, <1>4, <1>5, <1>6, <1>7

LEMMA OnceInsert ==
    ASSUME MaxLoss = 0, Typed, Once, NEW c \in Conn, ConfirmInsert(c)
    PROVE  Once'
  <1>1. PICK s : s = checked[c]
    OBVIOUS
  <1>2. PICK e : e = Entry(s, c)
    OBVIOUS
  <1>3. /\ UNCHANGED <<wait, logoutQ>> /\ s # 0
        /\ checked' = [checked EXCEPT ![c] = 0]
        /\ join' = <<e>> \o join
    BY <1>1, <1>2 DEF ConfirmInsert
  <1>4. /\ \A i \in DOMAIN join' : i = 1 \/ (i - 1 \in DOMAIN join /\ join'[i] = join[i - 1])
        /\ join'[1] = e /\ e.lsid = s
        /\ DOMAIN join' \subseteq Nat
    BY <1>2, <1>3, InsertFacts DEF Entry, Typed
  <1>5. \A t \in JoinedLsids \cup LogoutLsids : t # s /\ t # 0
    BY <1>1, LsidsStarted, StartedNumbers DEF Once, Apart, Typed, Inv
  <1>6. s \notin wait /\ \A d \in Conn : checked'[d] # s
    <2>1. s \notin wait
      BY <1>1 DEF Once, Apart
    <2>2. ASSUME NEW d \in Conn PROVE checked'[d] # s
      <3>1. CASE d = c
        BY <1>3, <3>1 DEF Typed, Inv, LoginInv
      <3>2. CASE d # c
        <4>1. checked'[d] = checked[d]
          BY <1>3, <3>2 DEF Typed, Inv, LoginInv
        <4> QED
          BY <1>1, <1>3, <3>2, <4>1, CheckedApart DEF Typed
      <3> QED
        BY <3>1, <3>2
    <2> QED
      BY <2>1, <2>2
  <1>7. LogoutLsids' = LogoutLsids /\ \A t \in JoinedLsids' : t = s \/ t \in JoinedLsids
    BY <1>3, <1>4 DEF LogoutLsids, JoinedLsids
  <1>8. Distinct'
    <2> SUFFICES ASSUME NEW i \in DOMAIN join', NEW j \in DOMAIN join',
                        join'[i].lsid = join'[j].lsid
                 PROVE  i = j
      BY DEF Distinct
    <2>1. \A k \in DOMAIN join' : k # 1 => join'[k].lsid \in JoinedLsids
      BY <1>4 DEF JoinedLsids
    <2>2. CASE i = 1 \/ j = 1
      BY <1>4, <1>5, <2>1, <2>2
    <2>3. CASE i # 1 /\ j # 1
      <3>1. i - 1 = j - 1
        BY <1>4, <2>3 DEF Once, Distinct
      <3> QED
        BY <1>4, <3>1
    <2> QED
      BY <2>2, <2>3
  <1>9. Apart'
    <2>1. \A d \in Conn : checked'[d] = 0 \/ checked'[d] = checked[d]
      BY <1>3 DEF Typed, Inv, LoginInv
    <2>2. 0 \notin wait
      BY StartedNumbers DEF Typed, Inv, LoginTypes
    <2> QED
      BY <1>3, <1>5, <1>6, <1>7, <2>1, <2>2 DEF Once, Apart
  <1>10. Out'
    <2> SUFFICES ASSUME NEW i \in DOMAIN join', join'[i].lsid \in LogoutLsids
                 PROVE  join'[i].srv = NoConn
      BY <1>7 DEF Out
    <2>1. i # 1
      BY <1>4, <1>5
    <2> QED
      BY <1>4, <2>1 DEF Once, Out
  <1>11. LoggedOutOnce'
    BY <1>3 DEF Once, LoggedOutOnce
  <1> QED
    BY <1>8, <1>9, <1>10, <1>11 DEF Once

\* A change of an entry that keeps its session.
LEMMA ChangeOnce ==
    ASSUME LoginTypes, NEW e, NEW f \in Entries, f.lsid = e.lsid,
           join' = Change(e, f)
    PROVE  /\ DOMAIN join' = DOMAIN join
           /\ \A i \in DOMAIN join : /\ join'[i].lsid = join[i].lsid
                                     /\ join'[i] = IF join[i] = e THEN f ELSE join[i]
           /\ JoinedLsids' = JoinedLsids
           /\ Distinct => Distinct'
  <1>1. PICK r : r = Change(e, f)
    OBVIOUS
  <1>2. /\ DOMAIN r = DOMAIN join
        /\ \A i \in DOMAIN join : /\ r[i].lsid = join[i].lsid
                                  /\ r[i] = IF join[i] = e THEN f ELSE join[i]
    BY <1>1, ChangeFacts
  <1> QED
    BY <1>1, <1>2 DEF JoinedLsids, Distinct

LEMMA OnceRefused ==
    ASSUME Typed, Once, NEW a \in Account, LoginRefused(a)
    PROVE  Once'
  <1>1. UNCHANGED <<wait, checked, logoutQ>> /\ Found(a, join)
    BY DEF LoginRefused
  <1>2. PICK e : e = Search(a, join)
    OBVIOUS
  <1>3. PICK f : f = [e EXCEPT !.tried = TRUE]
    OBVIOUS
  <1>4. UNCHANGED join \/ join' = Change(e, f)
    BY <1>2, <1>3 DEF LoginRefused
  <1>5. e \in Entries
    BY <1>1, <1>2, SearchEntry DEF Typed
  <1>6. f \in Entries /\ f.lsid = e.lsid /\ f.srv = e.srv
    BY <1>3, <1>5 DEF Entries
  <1>7. CASE join' = Change(e, f)
    <2>1. /\ DOMAIN join' = DOMAIN join
          /\ \A i \in DOMAIN join : join'[i].lsid = join[i].lsid
                                     /\ join'[i].srv = join[i].srv
          /\ JoinedLsids' = JoinedLsids
          /\ Distinct'
      BY <1>6, <1>7, ChangeOnce DEF Typed, Once
    <2>2. LogoutLsids' = LogoutLsids
      BY <1>1 DEF LogoutLsids
    <2> QED
      BY <1>1, <2>1, <2>2 DEF Once, Apart, Out, LoggedOutOnce
  <1> QED
    BY <1>1, <1>4, <1>7, OnceKept

LEMMA OnceSub ==
    ASSUME Typed, Once, NEW c \in Conn, RecvSubAccount(c)
    PROVE  Once'
  <1>1. UNCHANGED <<wait, checked>>
    BY DEF RecvSubAccount
  <1>2. CASE UNCHANGED <<join, logoutQ>>
    BY <1>1, <1>2, OnceKept
  <1>3. CASE ~ UNCHANGED <<join, logoutQ>>
    <2>1. PICK a : a = Head(toLs[c]).account
      OBVIOUS
    <2>2. PICK e : e = Search(a, join)
      OBVIOUS
    <2>3. PICK f : f = Disowned(e)
      OBVIOUS
    <2>4. /\ Found(a, join) /\ e.srv # NoConn
          /\ join' = Change(e, f)
          /\ logoutQ' = Append(logoutQ, e.lsid)
      BY <1>3, <2>1, <2>2, <2>3 DEF RecvSubAccount
    <2>5. e \in Entries
      BY <2>2, <2>4, SearchEntry DEF Typed
    <2>6. PICK i \in DOMAIN join : join[i] = e
      BY <2>2, <2>4, SearchEntry DEF Typed
    <2>7. f \in Entries /\ f.lsid = e.lsid /\ f.srv = NoConn /\ e.lsid \in Started
      BY <2>3, <2>5 DEF Entries, Disowned
    <2>8. /\ DOMAIN join' = DOMAIN join
          /\ \A k \in DOMAIN join :
                /\ join'[k].lsid = join[k].lsid
                /\ join'[k] = IF join[k] = e THEN f ELSE join[k]
          /\ JoinedLsids' = JoinedLsids
          /\ Distinct'
      BY <2>4, <2>7, ChangeOnce DEF Typed, Once
    <2>9. e.lsid \in JoinedLsids /\ e.lsid \notin LogoutLsids
      BY <2>4, <2>6 DEF JoinedLsids, Once, Out
    <2>10. PICK n \in Nat : n = Len(logoutQ)
      BY LenProperties DEF Typed, LoginTypes
    <2>11. /\ DOMAIN logoutQ = 1 .. n /\ DOMAIN logoutQ' = 1 .. n + 1
           /\ \A k \in 1 .. n : logoutQ'[k] = logoutQ[k]
           /\ logoutQ'[n + 1] = e.lsid
      BY <2>4, <2>7, <2>10, AppendProperties, LenProperties DEF Typed, LoginTypes
    <2>12. \A s \in LogoutLsids' : s \in LogoutLsids \/ s = e.lsid
      BY <2>11 DEF LogoutLsids
    <2>13. Apart'
      BY <1>1, <2>8, <2>9, <2>12 DEF Once, Apart
    <2>14. Out'
      <3> SUFFICES ASSUME NEW k \in DOMAIN join', join'[k].lsid \in LogoutLsids'
                   PROVE  join'[k].srv = NoConn
        BY DEF Out
      <3>1. k \in DOMAIN join /\ join'[k].lsid = join[k].lsid
        BY <2>8
      <3>2. CASE join[k].lsid = e.lsid
        <4>1. k = i
          BY <2>6, <3>1, <3>2 DEF Once, Distinct
        <4> QED
          BY <2>6, <2>7, <2>8, <4>1
      <3>3. CASE join[k].lsid # e.lsid
        <4>1. join[k].lsid \in LogoutLsids /\ join[k] # e
          BY <2>12, <3>1, <3>3
        <4> QED
          BY <2>8, <3>1, <4>1 DEF Once, Out
      <3> QED
        BY <3>2, <3>3
    <2>15. LoggedOutOnce'
      <3>1. \A k \in 1 .. n : logoutQ'[k] \in LogoutLsids
        BY <2>11 DEF LogoutLsids
      <3>2. \A k \in 1 .. n : logoutQ'[k] # logoutQ'[n + 1]
        BY <2>9, <2>11, <3>1
      <3>3. \A k, l \in 1 .. n : logoutQ'[k] = logoutQ'[l] => k = l
        BY <2>11 DEF Once, LoggedOutOnce
      <3>4. \A k \in DOMAIN logoutQ' : k \in 1 .. n \/ k = n + 1
        BY <2>10, <2>11
      <3> QED
        BY <3>2, <3>3, <3>4 DEF LoggedOutOnce
    <2> QED
      BY <2>8, <2>13, <2>14, <2>15 DEF Once
  <1> QED
    BY <1>2, <1>3

\* Entries are taken out of the list.
LEMMA PickedOnce ==
    ASSUME LoginTypes, NEW places, join' = Picked(join, places)
    PROVE  /\ \A k \in DOMAIN join' : \E i \in DOMAIN join : i \in places /\ join'[k] = join[i]
           /\ \A i \in DOMAIN join : i \in places => \E k \in DOMAIN join' : join'[k] = join[i]
           /\ Distinct => Distinct'
  <1>1. PICK r : r = Picked(join, places)
    OBVIOUS
  <1>2. Selects(r, join, places, Len(join)) /\ DOMAIN join = 1 .. Len(join)
    BY <1>1, PickedFacts, LenProperties DEF LoginTypes
  <1>3. PICK f \in [DOMAIN r -> 1 .. Len(join)] :
            /\ \A k \in DOMAIN r : f[k] \in places /\ r[k] = join[f[k]]
            /\ \A j, k \in DOMAIN r : f[j] = f[k] => j = k
    BY <1>2 DEF Selects
  <1>4. \A k \in DOMAIN r : f[k] \in DOMAIN join
    BY <1>2, <1>3
  <1>5. Distinct => \A j, k \in DOMAIN r : r[j].lsid = r[k].lsid => j = k
    BY <1>3, <1>4 DEF Distinct
  <1>6. \A i \in DOMAIN join : i \in places => \E k \in DOMAIN r : r[k] = join[i]
    BY <1>2 DEF Selects
  <1> QED
    BY <1>1, <1>3, <1>4, <1>5, <1>6 DEF Distinct

LEMMA OnceDelete ==
    ASSUME Typed, Once, DeleteAccount
    PROVE  Once'
  <1>1. PICK places : places = {i \in DOMAIN join : join[i].lsid # Head(logoutQ)}
    OBVIOUS
  <1>2. /\ UNCHANGED <<wait, checked>>
        /\ logoutQ # <<>> /\ logoutQ' = Tail(logoutQ)
        /\ join' = Picked(join, places)
    BY <1>1 DEF DeleteAccount
  <1>3. /\ \A k \in DOMAIN join' : \E i \in DOMAIN join : join'[k] = join[i]
        /\ Distinct'
    BY <1>2, PickedOnce DEF Typed, Once
  <1>4. JoinedLsids' \subseteq JoinedLsids
    BY <1>3 DEF JoinedLsids
  <1>5. PICK n \in Nat : n = Len(logoutQ) /\ DOMAIN logoutQ = 1 .. n
    BY LenProperties DEF Typed, LoginTypes
  <1>6. DOMAIN logoutQ' = 1 .. n - 1 /\ \A k \in 1 .. n - 1 : logoutQ'[k] = logoutQ[k + 1]
    BY <1>2, <1>5, HeadTailProperties, LenProperties DEF Typed, LoginTypes
  <1>7. \A k \in 1 .. n - 1 : k + 1 \in 1 .. n
    BY <1>5
  <1>8. LogoutLsids' \subseteq LogoutLsids
    BY <1>5, <1>6, <1>7 DEF LogoutLsids
  <1>9. LoggedOutOnce'
    <2> SUFFICES ASSUME NEW i \in DOMAIN logoutQ', NEW j \in DOMAIN logoutQ',
                        logoutQ'[i] = logoutQ'[j]
                 PROVE  i = j
      BY DEF LoggedOutOnce
    <2>1. i + 1 \in DOMAIN logoutQ /\ j + 1 \in DOMAIN logoutQ
      BY <1>5, <1>6, <1>7
    <2>2. logoutQ[i + 1] = logoutQ[j + 1]
      BY <1>6
    <2>3. i + 1 = j + 1
      BY <2>1, <2>2 DEF Once, LoggedOutOnce
    <2> QED
      BY <1>6, <2>3
  <1>10. Apart'
    BY <1>2, <1>4, <1>8 DEF Once, Apart
  <1>11. Out'
    BY <1>3, <1>8 DEF Once, Out
  <1> QED
    BY <1>3, <1>9, <1>10, <1>11 DEF Once

LEMMA OnceStep ==
    ASSUME MaxLoss = 0, Steadily, Once, [Next]_vars
    PROVE  Once'
  <1>1. CASE LoginStep
    <2>1. \A c \in Conn : ~ServerClosed(c) /\ ~Enlist(c) /\ ~RecvAccountList(c)
      BY NoLoss DEF Steadily, Typed
    <2>2. CASE \E a \in Account : LoginAccepted(a)
      BY <2>2, OnceKept DEF LoginAccepted
    <2>3. CASE \E s \in wait : WaitTimeout(s)
      BY <2>3, OnceKept DEF WaitTimeout
    <2> QED
      BY <1>1, <2>1, <2>2, <2>3, OnceRefused, OnceSelect, OnceCheck, OnceInsert, OnceSub,
         OnceDelete DEF LoginStep, Steadily
  <1>2. CASE UNCHANGED lsVars
    BY <1>2, OnceKept DEF lsVars
  <1>3. \A w \in World : ~Reconnect(w)
    BY NoLoss DEF Steadily, Typed
  <1> QED
    BY <1>1, <1>2, <1>3 DEF Next, WorldStep, ChannelStep, EnterChannel, vars

LEMMA InitOnce == Init => Steadily /\ Once
  <1> SUFFICES ASSUME Init PROVE Steadily /\ Once
    OBVIOUS
  <1>1. Typed
    BY InitTyped
  <1>2. Quiet
    <2>1. <<>> \in Seq(Packet)
      BY EmptySeq
    <2> QED
      BY <2>1 DEF Quiet, Init, LinksInit, LoginInit
  <1>3. DOMAIN join = {} /\ DOMAIN logoutQ = {} /\ wait = {}
    BY DEF Init, LoginInit
  <1>4. JoinedLsids = {} /\ LogoutLsids = {}
    BY <1>3 DEF JoinedLsids, LogoutLsids
  <1>5. Once
    BY <1>3, <1>4 DEF Once, Distinct, Apart, Out, LoggedOutOnce
  <1> QED
    BY <1>1, <1>2, <1>5 DEF Steadily

THEOREM OnceInvariance == ASSUME MaxLoss = 0 PROVE Spec => [](Steadily /\ Once)
  <1>1. Steadily /\ Once /\ [Next]_vars => (Steadily /\ Once)'
    BY NextTyped, QuietStep, OnceStep DEF Steadily
  <1> QED
    BY <1>1, InitOnce, PTL DEF Spec

\* No account is handed over for deletion while it is there already, for any number of
\* worlds, accounts and sessions and however often sessions are kicked, as long as no
\* world loses its connection: Free() of a lost connection does hand over accounts
\* that are there (cls_server.cpp:437).
THEOREM LogoutSafety == ASSUME MaxLoss = 0 PROVE Spec => []LoggedOutOnce
  <1>1. Steadily /\ Once => LoggedOutOnce
    BY DEF Once
  <1> QED
    BY <1>1, OnceInvariance, PTL

-----------------------------------------------------------------------------
(***************************************************************************)
(* With one world, and so one connection, nothing comes between the two    *)
(* halves of a confirmation, and the JOIN list has one entry per account.  *)
(***************************************************************************)
OneWorld == \A v, w \in World : v = w

\* No entry has the account of a session that is about to be inserted.
Vetted ==
    \A c \in Conn, i \in DOMAIN join :
        checked[c] # 0 => ~SameAccount(join[i].lsid, checked[c])

LEMMA OneConn ==
    ASSUME OneWorld, MaxLoss = 0, NEW c \in Conn, NEW d \in Conn
    PROVE  c = d
  BY DEF OneWorld, Conn

\* The list keeps its sessions, or some of them, and so do accounts.
LEMMA JoinShrinks ==
    ASSUME Inv, LoginTypes, Distinct', OneJoinPerAccount, Vetted,
           \A k \in DOMAIN join' : \E i \in DOMAIN join : join'[k].lsid = join[i].lsid,
           \A s \in Started : AccountOf(s)' = AccountOf(s),
           \A c \in Conn : checked'[c] = 0 \/ checked'[c] = checked[c]
    PROVE  OneJoinPerAccount' /\ Vetted'
  <1>1. \A i \in DOMAIN join : join[i].lsid \in Started
    BY LsidsStarted DEF JoinedLsids
  <1>2. \A c \in Conn : checked[c] # 0 => checked[c] \in Started
    BY DEF Inv, LoginInv, At, Started
  <1>3. OneJoinPerAccount'
    <2> SUFFICES ASSUME NEW k \in DOMAIN join', NEW l \in DOMAIN join',
                        login'[join'[k].lsid].account = login'[join'[l].lsid].account
                 PROVE  k = l
      BY DEF OneJoinPerAccount, SameAccount, AccountOf
    <2>1. PICK i \in DOMAIN join : join'[k].lsid = join[i].lsid
      OBVIOUS
    <2>2. PICK j \in DOMAIN join : join'[l].lsid = join[j].lsid
      OBVIOUS
    <2>3. PICK s \in Started : s = join[i].lsid
      BY <1>1
    <2>4. PICK t \in Started : t = join[j].lsid
      BY <1>1
    <2>5. login'[s].account = login'[t].account
      BY <2>1, <2>2, <2>3, <2>4
    <2>6. AccountOf(s) = AccountOf(t)
      BY <2>5 DEF AccountOf
    <2>7. i = j
      BY <2>3, <2>4, <2>6 DEF OneJoinPerAccount, SameAccount
    <2> QED
      BY <2>1, <2>2, <2>7 DEF Distinct
  <1>4. Vetted'
    <2> SUFFICES ASSUME NEW c \in Conn, NEW k \in DOMAIN join', checked'[c] # 0,
                        login'[join'[k].lsid].account = login'[checked'[c]].account
                 PROVE  FALSE
      BY DEF Vetted, SameAccount, AccountOf
    <2>1. PICK i \in DOMAIN join : join'[k].lsid = join[i].lsid
      OBVIOUS
    <2>2. PICK s \in Started : s = join[i].lsid
      BY <1>1
    <2>3. PICK t \in Started : t = checked[c] /\ t = checked'[c]
      BY <1>2
    <2>4. login'[s].account = login'[t].account /\ checked[c] # 0
      BY <2>1, <2>2, <2>3
    <2>5. AccountOf(s) = AccountOf(t)
      BY <2>4 DEF AccountOf
    <2> QED
      BY <2>2, <2>3, <2>4, <2>5 DEF Vetted, SameAccount
  <1> QED
    BY <1>3, <1>4

LEMMA JoinStep ==
    ASSUME OneWorld, MaxLoss = 0, Steadily, Once, Once', Vetted, OneJoinPerAccount,
           [Next]_vars
    PROVE  OneJoinPerAccount' /\ Vetted'
  <1>1. Inv /\ LoginTypes /\ Distinct /\ Distinct'
    BY DEF Steadily, Typed, Once
  <1>2. \A s \in Started : AccountOf(s)' = AccountOf(s)
    <2>1. CASE UNCHANGED login
      BY <2>1 DEF AccountOf
    <2> QED
      BY <1>1, <2>1, SessionStarts, LoginUnchanged
  <1>3. CASE UNCHANGED <<join, checked>>
    BY <1>1, <1>2, <1>3, JoinShrinks
  <1>4. CASE LoginStep
    <2>1. \A c \in Conn : ~ServerClosed(c) /\ ~Enlist(c) /\ ~RecvAccountList(c)
      BY NoLoss DEF Steadily, Typed
    <2>2. CASE \/ \E a \in Account : LoginAccepted(a)
               \/ \E a \in Account, w \in World : SelectServer(a, w)
               \/ \E s \in wait : WaitTimeout(s)
      BY <1>3, <2>2 DEF LoginAccepted, SelectServer, WaitTimeout
    <2>3. CASE \E a \in Account : LoginRefused(a)
      <3>1. PICK a \in Account : LoginRefused(a)
        BY <2>3
      <3>2. UNCHANGED checked /\ Found(a, join)
        BY <3>1 DEF LoginRefused
      <3>3. PICK e : e = Search(a, join)
        OBVIOUS
      <3>4. PICK f : f = [e EXCEPT !.tried = TRUE]
        OBVIOUS
      <3>5. UNCHANGED join \/ join' = Change(e, f)
        BY <3>1, <3>3, <3>4 DEF LoginRefused
      <3>6. e \in Entries
        BY <1>1, <3>2, <3>3, SearchEntry
      <3>7. f \in Entries /\ f.lsid = e.lsid
        BY <3>4, <3>6 DEF Entries
      <3>8. CASE join' = Change(e, f)
        <4>1. DOMAIN join' = DOMAIN join /\ \A i \in DOMAIN join : join'[i].lsid = join[i].lsid
          BY <1>1, <3>7, <3>8, ChangeOnce
        <4> QED
          BY <1>1, <1>2, <3>2, <4>1, JoinShrinks
      <3> QED
        BY <1>3, <3>2, <3>5, <3>8
    <2>4. CASE \E c \in Conn : RecvSubAccount(c)
      <3>1. PICK c \in Conn : RecvSubAccount(c)
        BY <2>4
      <3>2. PICK e : e = Search(Head(toLs[c]).account, join)
        OBVIOUS
      <3>3. /\ UNCHANGED checked
            /\ UNCHANGED join \/ (/\ Found(Head(toLs[c]).account, join)
                                  /\ join' = Change(e, Disowned(e)))
        BY <3>1, <3>2 DEF RecvSubAccount
      <3>4. CASE /\ Found(Head(toLs[c]).account, join)
                 /\ join' = Change(e, Disowned(e))
        <4>1. e \in Entries
          BY <1>1, <3>2, <3>4, SearchEntry
        <4>2. Disowned(e) \in Entries /\ Disowned(e).lsid = e.lsid
          BY <4>1 DEF Disowned, Entries
        <4>3. DOMAIN join' = DOMAIN join /\ \A i \in DOMAIN join : join'[i].lsid = join[i].lsid
          BY <1>1, <3>4, <4>2, ChangeOnce
        <4> QED
          BY <1>1, <1>2, <3>3, <4>3, JoinShrinks
      <3> QED
        BY <1>3, <3>3, <3>4
    <2>5. CASE DeleteAccount
      <3>1. PICK places : places = {i \in DOMAIN join : join[i].lsid # Head(logoutQ)}
        OBVIOUS
      <3>2. UNCHANGED checked /\ join' = Picked(join, places)
        BY <2>5, <3>1 DEF DeleteAccount
      <3>3. \A k \in DOMAIN join' : \E i \in DOMAIN join : join'[k] = join[i]
        BY <1>1, <3>2, PickedOnce
      <3> QED
        BY <1>1, <1>2, <3>2, <3>3, JoinShrinks
    <2>6. CASE \E c \in Conn : ConfirmCheck(c)
      <3>1. PICK c \in Conn : ConfirmCheck(c)
        BY <2>6
      <3>2. PICK s : s = Head(toLs[c]).lsid
        OBVIOUS
      <3>3. /\ UNCHANGED <<join, login>>
            /\ UNCHANGED checked \/ (/\ ~Found(AccountOf(s), join)
                                     /\ checked' = [checked EXCEPT ![c] = s])
        BY <3>1, <3>2 DEF ConfirmCheck, Joined
      <3>4. CASE /\ ~Found(AccountOf(s), join)
                 /\ checked' = [checked EXCEPT ![c] = s]
        <4>1. \A d \in Conn : checked'[d] = s
          BY <1>1, <3>4, OneConn DEF Inv, LoginInv
        <4>2. \A i \in DOMAIN join : AccountOf(join[i].lsid) # AccountOf(s)
          BY <3>4 DEF Found, OfAccount
        <4>3. Vetted'
          BY <3>3, <4>1, <4>2 DEF Vetted, SameAccount, AccountOf
        <4>4. OneJoinPerAccount'
          BY <3>3 DEF OneJoinPerAccount, SameAccount, AccountOf
        <4> QED
          BY <4>3, <4>4
      <3> QED
        BY <1>3, <3>3, <3>4
    <2>7. CASE \E c \in Conn : ConfirmInsert(c)
      <3>1. PICK c \in Conn : ConfirmInsert(c)
        BY <2>7
      <3>2. PICK s : s = checked[c]
        OBVIOUS
      <3>3. PICK e : e = Entry(s, c)
        OBVIOUS
      <3>4. /\ UNCHANGED login /\ s # 0
            /\ checked' = [checked EXCEPT ![c] = 0]
            /\ join' = <<e>> \o join
        BY <3>1, <3>2, <3>3 DEF ConfirmInsert
      <3>5. /\ \A i \in DOMAIN join' : i = 1 \/ (/\ i - 1 \in DOMAIN join
                                                 /\ join'[i] = join[i - 1])
            /\ join'[1] = e /\ e.lsid = s
            /\ DOMAIN join' \subseteq Nat
        BY <1>1, <3>3, <3>4, InsertFacts DEF Entry
      <3>6. \A d \in Conn : checked'[d] = 0
        BY <1>1, <3>4, OneConn DEF Inv, LoginInv
      <3>7. Vetted'
        BY <3>6 DEF Vetted
      <3>8. OneJoinPerAccount'
        <4> SUFFICES ASSUME NEW i \in DOMAIN join', NEW j \in DOMAIN join',
                            SameAccount(join'[i].lsid, join'[j].lsid)
                     PROVE  i = j
          BY <3>4 DEF OneJoinPerAccount, SameAccount, AccountOf
        <4>1. \A k \in DOMAIN join : ~SameAccount(join[k].lsid, s)
          BY <3>2, <3>4 DEF Vetted
        <4>2. CASE i = 1 \/ j = 1
          BY <3>5, <4>1, <4>2 DEF SameAccount
        <4>3. CASE i # 1 /\ j # 1
          <5>1. i - 1 = j - 1
            BY <3>5, <4>3 DEF OneJoinPerAccount
          <5> QED
            BY <3>5, <5>1
        <4> QED
          BY <4>2, <4>3
      <3> QED
        BY <3>7, <3>8
    <2> QED
      BY <1>4, <2>1, <2>2, <2>3, <2>4, <2>5, <2>6, <2>7 DEF LoginStep
  <1>5. \A w \in World : ~Reconnect(w)
    BY NoLoss DEF Steadily, Typed
  <1> QED
    BY <1>3, <1>4, <1>5 DEF Next, WorldStep, ChannelStep, EnterChannel, vars, lsVars

\* In one world that keeps its connection the JOIN list has one entry per account, for
\* any number of accounts and sessions and however often sessions are kicked.  With
\* two worlds two sessions of an account can be found not joined at the same time.
THEOREM JoinSafety ==
    ASSUME OneWorld, MaxLoss = 0 PROVE Spec => []OneJoinPerAccount
  <1> DEFINE J == Steadily /\ Once /\ Vetted /\ OneJoinPerAccount
  <1>1. Init => J
    <2>1. Init => DOMAIN join = {}
      BY DEF Init, LoginInit
    <2> QED
      BY <2>1, InitOnce DEF Vetted, OneJoinPerAccount
  <1>2. J /\ [Next]_vars => J'
    <2> SUFFICES ASSUME J, [Next]_vars PROVE J'
      OBVIOUS
    <2>1. Steadily' /\ Once'
      BY NextTyped, QuietStep, OnceStep DEF Steadily
    <2>2. OneJoinPerAccount' /\ Vetted'
      BY <2>1, JoinStep
    <2> QED
      BY <2>1, <2>2
  <1>3. J => OneJoinPerAccount
    OBVIOUS
  <1> QED
    BY <1>1, <1>2, <1>3, PTL DEF Spec
=============================================================================
