-------------------------------- MODULE Party --------------------------------
(***************************************************************************)
(* Parties of players (CParty, CPartyBUFF) and the threads that use them:  *)
(* one per zone, which handles the requests of the users in it, and the    *)
(* SQL thread, which takes a user out of its party after its connection is *)
(* lost.  Each party has a critical section, the pool of parties another.  *)
(*                                                                         *)
(* A step is what runs between two acquisitions of a lock, or reads what   *)
(* no lock protects; a test of a user's party and the use of the pointer   *)
(* in the same expression are one step.  Both locks are recursive.         *)
(* Requests are not recorded in the server: an answer may come at any time.*)
(* A user stays in one zone.                                               *)
(***************************************************************************)
EXTENDS Naturals, FiniteSets

CONSTANTS
    User,       \* characters (m_dwDBID)
    Party,      \* the objects of the pool g_pPartyBUFF
    Zone,       \* threads of zones
    Home,       \* Home[u]: the zone user u plays in
    Capacity,   \* members a party takes (MAX_PARTY_MEMBERS, fewer at a low level)
    CanDrop,    \* users who may be cut off
    CanQuit,    \* users who may go back to the character list
    NoOne       \* the null pointer, a lock nobody holds

\* tagPartyUSER: the character, and whether its m_pUSER is still there.
Member == [user : User, here : BOOLEAN]

ASSUME PartyAssumption ==
    /\ Home \in [User -> Zone]
    /\ Capacity \in Nat \ {0, 1}
    /\ CanDrop \subseteq User
    /\ CanQuit \subseteq User
    /\ "sql" \notin Zone
    /\ NoOne \notin User \cup Party \cup Zone \cup {"sql"} \cup Member

Thread == Zone \cup {"sql"}
Place == 0 .. Capacity - 1

VARIABLES
    status,     \* status[u]: in its "zone"; "cut" off or "quit", to be saved by the SQL
                \* thread; or "gone"
    party,      \* party[u]: m_pPartyBUFF
    pos,        \* pos[u]: m_nPartyPOS
    used,       \* parties in use (m_pINDEX)
    slot,       \* slot[p][i]: m_pPartyUSERs; a member is here or has lost its m_pUSER
    count,      \* count[p]: m_nMemberCNT
    partyLock,  \* partyLock[p]: the thread that holds the party's critical section
    poolLock,   \* the thread that holds m_csPartyBUFF
    task,       \* task[t]: what thread t is in the middle of
    crashed     \* a null pointer has been used

users == <<status, party, pos>>
parties == <<used, slot, count>>
locks == <<partyLock, poolLock>>
vars == <<users, parties, locks, task, crashed>>

Here(u) == [user |-> u, here |-> TRUE]
IsHere(p, i) == slot[p][i] # NoOne /\ slot[p][i].here
IsOwner(u, p) == IsHere(p, 0) /\ slot[p][0].user = u        \* GetPartyOWNER

NoTask == [at |-> "idle"]
Idle(t) == task[t] = NoTask
At(t, place) == task[t].at = place
Goes(t, new) == task' = [task EXCEPT ![t] = new]

Free(p, t) == partyLock[p] \in {NoOne, t}

\* Thread t has taken a member out: it leaves the party's critical section if it
\* was in it, and the user it works for goes on.
Finish(t, p) ==
    /\ Goes(t, NoTask)
    /\ partyLock' = IF partyLock[p] = t THEN [partyLock EXCEPT ![p] = NoOne] ELSE partyLock
    /\ status' = [status EXCEPT ![task[t].me] = task[t].then]

Crash == crashed' = TRUE /\ UNCHANGED <<users, parties, locks, task>>

Init ==
    /\ status = [u \in User |-> "zone"]
    /\ party = [u \in User |-> NoOne]
    /\ pos = [u \in User |-> 0]
    /\ used = {}
    /\ slot = [p \in Party |-> [i \in Place |-> NoOne]]
    /\ count = [p \in Party |-> 0]
    /\ partyLock = [p \in Party |-> NoOne]
    /\ poolLock = NoOne
    /\ task = [t \in Thread |-> NoTask]
    /\ crashed = FALSE

\* The thread of u's zone may begin to handle a packet of u.
CanAct(u) == ~crashed /\ status[u] = "zone" /\ Idle(Home[u])

Begins(u, new) == Goes(Home[u], new) /\ UNCHANGED <<users, parties, locks, crashed>>

-----------------------------------------------------------------------------
(***************************************************************************)
(* Joining: Recv_cli_PARTY_REPLY.  ACCEPT_MAKE has no break and goes on as *)
(* ACCEPT_JOIN does.                                                       *)
(***************************************************************************)
AcceptMake(u, v) ==
    /\ CanAct(u) /\ status[v] = "zone" /\ u # v
    /\ party[u] = NoOne
    /\ Begins(u, [at |-> IF party[v] = NoOne THEN "create" ELSE "make", me |-> u, with |-> v])

AcceptJoin(u, v) ==
    /\ CanAct(u) /\ status[v] = "zone" /\ u # v
    /\ Begins(u, [at |-> "join", me |-> u, with |-> v])

\* CreatePARTY for the one who asked.
Create(t) ==
    /\ At(t, "create")
    /\ poolLock = NoOne
    /\ LET v == task[t].with IN
          IF used = Party
             THEN Goes(t, NoTask) /\ UNCHANGED <<users, parties>>
             ELSE \E p \in Party \ used :
                     /\ used' = used \cup {p}
                     /\ slot' = [slot EXCEPT ![p] =
                                    [i \in Place |-> IF i = 0 THEN Here(v) ELSE NoOne]]
                     /\ count' = [count EXCEPT ![p] = 1]
                     /\ party' = [party EXCEPT ![v] = p]
                     /\ pos' = [pos EXCEPT ![v] = 0]
                     /\ Goes(t, [task[t] EXCEPT !.at = "addmake"])
                     /\ UNCHANGED status
    /\ UNCHANGED <<locks, crashed>>

\* The one who asked must lead its party.
CheckOwner(t) ==
    /\ At(t, "make") \/ At(t, "join")
    /\ LET v == task[t].with
           next == IF At(t, "make") THEN "addmake" ELSE "add"
       IN  IF At(t, "join") /\ (party[task[t].me] # NoOne \/ party[v] = NoOne)
              THEN Goes(t, NoTask) /\ UNCHANGED <<users, parties, locks, crashed>>
           ELSE IF party[v] = NoOne
              THEN Crash
           ELSE /\ Free(party[v], t)
                /\ Goes(t, IF IsOwner(v, party[v]) THEN [task[t] EXCEPT !.at = next] ELSE NoTask)
                /\ UNCHANGED <<users, parties, locks, crashed>>

\* Mutant of HasRoom: one member too many.
HasRoomForOneMore(p) == count[p] <= Capacity

\* A party takes another member.
HasRoom(p) == count[p] < Capacity

\* Add_PartyUSER; a full party changes nothing.
Add(t) ==
    /\ At(t, "add") \/ At(t, "addmake")
    /\ LET u == task[t].me
           p == party[task[t].with]
           next == IF At(t, "addmake") THEN [task[t] EXCEPT !.at = "join"] ELSE NoTask
       IN  \/ p = NoOne /\ Crash
           \/ /\ p # NoOne /\ Free(p, t)
              /\ Goes(t, next)
              /\ IF HasRoom(p)
                    THEN /\ slot' = [slot EXCEPT ![p][count[p]] = Here(u)]
                         /\ count' = [count EXCEPT ![p] = @ + 1]
                         /\ party' = [party EXCEPT ![u] = p]
                         /\ pos' = [pos EXCEPT ![u] = count[p]]
                         /\ UNCHANGED <<used, status>>
                    ELSE UNCHANGED <<users, parties>>
              /\ UNCHANGED <<locks, crashed>>

-----------------------------------------------------------------------------
(***************************************************************************)
(* Leaving: PARTY_REQ_LEFT, a lost socket, ProcLogOUT, and PARTY_REQ_BAN.  *)
(* The place is read before the party is locked.                           *)
(***************************************************************************)
Removal(u, v, p, n, then) ==
    [at |-> "sub", me |-> u, with |-> v, p |-> p, n |-> n, then |-> then]

Leave(u) ==
    /\ CanAct(u) /\ party[u] # NoOne
    /\ Begins(u, Removal(u, u, party[u], pos[u], "zone"))

\* Logout to the character list: OnDisconnect will not be called.
Quit(u) ==
    /\ CanAct(u) /\ u \in CanQuit
    /\ \/ /\ party[u] # NoOne
          /\ Begins(u, Removal(u, u, party[u], pos[u], "quit"))
       \/ /\ party[u] = NoOne
          /\ status' = [status EXCEPT ![u] = "quit"]
          /\ UNCHANGED <<party, pos, parties, locks, task, crashed>>

Ban(u, v) ==
    /\ CanAct(u) /\ party[u] # NoOne
    /\ Free(party[u], Home[u])
    /\ IsOwner(u, party[u])
    /\ Begins(u, [at |-> "ban", me |-> u, with |-> v])

LeastOf(places) == CHOOSE i \in places : \A j \in places : i <= j

\* Kick_MEMBER keeps the party locked until the member is out.
KickMember(t) ==
    /\ At(t, "ban")
    /\ LET u == task[t].me
           v == task[t].with
           p == party[u]
           found == {i \in 1 .. count[p] - 1 : slot[p][i] # NoOne /\ slot[p][i].user = v}
       IN  \/ p = NoOne /\ Crash
           \/ /\ p # NoOne /\ Free(p, t)
              /\ \/ found = {} /\ Goes(t, NoTask) /\ UNCHANGED partyLock
                 \/ /\ found # {}
                    /\ Goes(t, Removal(u, v, p, LeastOf(found), "zone"))
                    /\ partyLock' = [partyLock EXCEPT ![p] = t]
              /\ UNCHANGED <<users, parties, poolLock, crashed>>

\* The members behind place n of party p move up by one.
Closed(p, n) ==
    [i \in Place |-> IF i < n THEN slot[p][i]
                     ELSE IF i < count[p] - 1 THEN slot[p][i + 1] ELSE NoOne]

\* Mutant of Renumbered: those who move up keep their numbers.
RenumberedNot(after, moved) == pos

\* Where the users are when those in the places moved have moved up.
Renumbered(after, moved) ==
    [u \in User |-> IF \E i \in moved : after[i] = Here(u)
                       THEN CHOOSE i \in moved : after[i] = Here(u)
                       ELSE pos[u]]

\* Sub_PartyUSER up to its Unlock(): it looks at the members it moves, and at the
\* one at the head.
Sub(t) ==
    /\ At(t, "sub")
    /\ LET p == task[t].p
           n == task[t].n
           left == slot[p][n]
           after == Closed(p, n)
           moved == n .. count[p] - 2
       IN  /\ Free(p, t)
           /\ \/ /\ left = NoOne
                 /\ Finish(t, p)
                 /\ UNCHANGED <<party, pos, parties, poolLock, crashed>>
              \/ /\ left # NoOne
                 /\ \E i \in moved \cup {0} : after[i] = NoOne
                 /\ Crash
              \/ /\ left # NoOne
                 /\ \A i \in moved \cup {0} : after[i] # NoOne
                 /\ slot' = [slot EXCEPT ![p] = after]
                 /\ count' = [count EXCEPT ![p] = @ - 1]
                 /\ party' = IF left.here THEN [party EXCEPT ![left.user] = NoOne] ELSE party
                 /\ pos' = Renumbered(after, moved)
                 /\ Goes(t, [task[t] EXCEPT !.at = "count"])
                 /\ UNCHANGED <<status, used, locks, crashed>>

\* Mutant of TooSmall: only an empty party is deleted.
EmptyOnly(p) == count[p] < 1

\* A party that is left with one member, or none.
TooSmall(p) == count[p] <= 1

\* Sub_PartyUSER after its Unlock(): a party of one is deleted.
CountLeft(t) ==
    /\ At(t, "count")
    /\ IF TooSmall(task[t].p)
          THEN Goes(t, [task[t] EXCEPT !.at = "delete"]) /\ UNCHANGED <<partyLock, status>>
          ELSE Finish(t, task[t].p)
    /\ UNCHANGED <<party, pos, parties, poolLock, crashed>>

-----------------------------------------------------------------------------
(***************************************************************************)
(* DeletePARTY: first the pool is locked, then the party.                  *)
(***************************************************************************)
LockPool(t) ==
    /\ At(t, "delete")
    /\ poolLock = NoOne
    /\ IF task[t].p \in used
          THEN /\ poolLock' = t
               /\ Goes(t, [task[t] EXCEPT !.at = "clear"])
               /\ UNCHANGED <<partyLock, status>>
          ELSE /\ Finish(t, task[t].p)
               /\ UNCHANGED poolLock
    /\ UNCHANGED <<party, pos, parties, crashed>>

Clear(t) ==
    /\ At(t, "clear")
    /\ LET p == task[t].p
           places == {i \in Place : i < count[p]}
       IN  /\ Free(p, t)
           /\ used' = used \ {p}
           /\ slot' = [slot EXCEPT ![p] = [i \in Place |-> IF i \in places THEN NoOne ELSE @[i]]]
           /\ party' = [u \in User |->
                           IF \E i \in places : slot[p][i] = Here(u) THEN NoOne ELSE party[u]]
           /\ poolLock' = NoOne
           /\ Finish(t, p)
    /\ UNCHANGED <<pos, count, crashed>>

-----------------------------------------------------------------------------
(***************************************************************************)
(* A new owner: PARTY_REQ_CHANGE_OWNER, and an owner who is cut off.       *)
(***************************************************************************)
GiveOwner(u, v) ==
    /\ CanAct(u) /\ status[v] = "zone" /\ u # v
    /\ party[u] # NoOne /\ party[u] = party[v]
    /\ Begins(u, [at |-> "owner", me |-> u, with |-> v])

\* Mutant of Swapped: the old owner does not learn its new place.
SwappedAlone(p, v, slots) == [pos EXCEPT ![v] = 0]

\* Where the users are after v and the head of the party change places.
Swapped(p, v, slots) ==
    IF slots[0] # NoOne /\ slots[0].here
       THEN [pos EXCEPT ![slots[0].user] = pos[v], ![v] = 0]
       ELSE [pos EXCEPT ![v] = 0]

\* Change_PartyOWNER on a party whose places are slots.
ChangeOwner(p, v, slots) ==
    /\ slot' = [slot EXCEPT ![p] = [slots EXCEPT ![0] = slots[pos[v]], ![pos[v]] = slots[0]]]
    /\ pos' = Swapped(p, v, slots)

HandOver(t) ==
    /\ At(t, "owner")
    /\ LET p == party[task[t].me]
       IN  \/ p = NoOne /\ Crash
           \/ /\ p # NoOne /\ Free(p, t)
              /\ ChangeOwner(p, task[t].with, slot[p])
              /\ Goes(t, NoTask)
              /\ UNCHANGED <<status, party, used, count, locks, crashed>>

-----------------------------------------------------------------------------
(***************************************************************************)
(* Users who are cut off: a bad packet, no sign of life, a kick.  The zone *)
(* hands them to the SQL thread with the party they are in, which saves    *)
(* them, takes them out of the party and frees them.  (One whose socket    *)
(* closes leaves the party first, as by Leave, and is handed over then.)   *)
(***************************************************************************)
Drop(u) ==
    /\ CanAct(u) /\ u \in CanDrop
    /\ status' = [status EXCEPT ![u] = "cut"]
    /\ UNCHANGED <<party, pos, parties, locks, task, crashed>>

\* Execute(): the party of a user who was cut off is looked up, then locked.
Save(u) ==
    /\ ~crashed /\ Idle("sql")
    /\ status[u] \in {"cut", "quit"}
    /\ IF status[u] = "quit" \/ party[u] = NoOne
          THEN status' = [status EXCEPT ![u] = "gone"] /\ UNCHANGED task
          ELSE /\ Goes("sql", [at |-> "lock", me |-> u, p |-> party[u], then |-> "gone"])
               /\ UNCHANGED status
    /\ UNCHANGED <<party, pos, parties, locks, crashed>>

\* Mutant of Absent: the member's m_pUSER is left as it is.
AbsentStays(slots, n) == slots

\* Member n stays in the party without its user.
Absent(slots, n) == [slots EXCEPT ![n].here = FALSE]

\* The members of a party of m who can follow the one who was cut off in place n.
Follower(slots, n, m) == {i \in 1 .. m - 1 : n = 0 /\ slots[i] # NoOne /\ slots[i].here}

\* OnDisconnect in the party's critical section: an owner who is cut off is
\* followed by the first member who is here, and a party without one is deleted.
OnDisconnect ==
    /\ At("sql", "lock")
    /\ LET u == task["sql"].me
           p == task["sql"].p
           n == pos[u]
           slots == Absent(slot[p], n)
           follower == Follower(slots, n, count[p])
           lost == party[u] = NoOne \/ slot[p][n] = NoOne
       IN  /\ Free(p, "sql")
           /\ \/ lost /\ Crash
              \/ /\ ~lost /\ n = 0 /\ follower = {}
                 /\ slot' = [slot EXCEPT ![p] = slots]
                 /\ Goes("sql", [task["sql"] EXCEPT !.at = "delete"])
                 /\ partyLock' = [partyLock EXCEPT ![p] = "sql"]
                 /\ UNCHANGED <<users, used, count, poolLock, crashed>>
              \/ /\ ~lost /\ (n # 0 \/ follower # {})
                 /\ IF follower # {}
                       THEN ChangeOwner(p, slots[LeastOf(follower)].user, slots)
                       ELSE slot' = [slot EXCEPT ![p] = slots] /\ UNCHANGED pos
                 /\ Goes("sql", NoTask)
                 /\ status' = [status EXCEPT ![u] = "gone"]
                 /\ UNCHANGED <<party, used, count, locks, crashed>>

-----------------------------------------------------------------------------
Step(t) ==
    \/ Create(t) \/ CheckOwner(t) \/ Add(t)
    \/ KickMember(t) \/ Sub(t) \/ CountLeft(t)
    \/ LockPool(t) \/ Clear(t)
    \/ HandOver(t)

Next ==
    \/ \E u, v \in User : AcceptMake(u, v) \/ AcceptJoin(u, v) \/ Ban(u, v) \/ GiveOwner(u, v)
    \/ \E u \in User : Leave(u) \/ Quit(u) \/ Drop(u) \/ Save(u)
    \/ ~crashed /\ \E t \in Thread : Step(t)
    \/ ~crashed /\ OnDisconnect

Spec == Init /\ [][Next]_vars

-----------------------------------------------------------------------------
(***************************************************************************)
(* Properties.                                                             *)
(***************************************************************************)
\* The types of the variables; a task is known by the step it is at.
TypeOK ==
    /\ status \in [User -> {"zone", "cut", "quit", "gone"}]
    /\ party \in [User -> Party \cup {NoOne}]
    /\ pos \in [User -> Place]
    /\ used \subseteq Party
    /\ slot \in [Party -> [Place -> Member \cup {NoOne}]]
    /\ count \in [Party -> 0 .. Capacity]
    /\ partyLock \in [Party -> Thread \cup {NoOne}]
    /\ poolLock \in Thread \cup {NoOne}
    /\ \A t \in Thread : task[t].at \in
           {"idle", "create", "make", "join", "addmake", "add", "ban", "sub", "count",
            "delete", "clear", "owner", "lock"}
    /\ crashed \in BOOLEAN

AtRest == \A t \in Thread : Idle(t)

\* No handler goes through a null m_pPartyBUFF or m_pPartyUSERs[n].
NoCrash == ~crashed

\* Between two requests a user's m_pPartyBUFF and m_nPartyPOS name the place that
\* holds it, no other place does, and the members of a party stand without gaps
\* in its first m_nMemberCNT places.
PartiesAgree ==
    AtRest =>
        /\ \A u \in User, p \in Party, i \in Place :
              status[u] = "zone" => (slot[p][i] = Here(u) <=> party[u] = p /\ pos[u] = i)
        /\ \A p \in used, i \in Place : slot[p][i] # NoOne <=> i < count[p]

\* Between two requests a party in use has two members, one who has none is back
\* in the pool, empty.
PoolExact ==
    AtRest => \A p \in Party : IF p \in used THEN count[p] >= 2
                               ELSE \A i \in Place : slot[p][i] = NoOne

\* No party keeps a pointer to a user whose object the SQL thread has freed.
NoDangling ==
    \A p \in Party, i \in Place :
        slot[p][i] # NoOne /\ slot[p][i].here => status[slot[p][i].user] # "gone"

\* Sub_PartyUSER takes out the member it was called for: the one who leaves, or
\* the one who is banned.
RightOneOut ==
    [][\A t \in Thread :
          At(t, "sub") /\ task'[t].at = "count"
              => slot[task[t].p][task[t].n].user = task[t].with]_vars

\* The head of a party is still connected while another member is: OnDisconnect
\* relies on it when the one who is cut off is not the head.
OwnerAlive ==
    AtRest => \A p \in used : (\E i \in Place : IsHere(p, i)) => IsHere(p, 0)

\* A party whose members are all disconnected has been deleted.
AbandonedDeleted ==
    AtRest => \A p \in used : \E i \in Place : IsHere(p, i)

\* No thread that holds the pool waits for a party whose holder waits for the pool.
NoLockCycle ==
    \A t, o \in Thread :
        ~ /\ t # o
          /\ poolLock = t /\ At(t, "clear") /\ partyLock[task[t].p] = o
          /\ At(o, "delete")
=============================================================================
