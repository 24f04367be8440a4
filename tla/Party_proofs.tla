---------------------------- MODULE Party_proofs -----------------------------
(***************************************************************************)
(* Theorems about Party, for any number of users, parties and members of a *)
(* party: types, wherever users play; and for users of one zone, who join, *)
(* leave, ban, hand over, are cut off and quit in any order against the    *)
(* SQL thread, that users and parties agree, and that parties are deleted  *)
(* when they should be.                                                    *)
(***************************************************************************)
EXTENDS Party, NaturalSets, FiniteSetTheorems, TLAPS

-----------------------------------------------------------------------------
(***************************************************************************)
(* Types.  A member may stand behind the places that are counted when      *)
(* threads of several zones race, but there are never more members than    *)
(* m_nMemberCNT says, so that it does not become negative.                 *)
(***************************************************************************)

\* What a zone thread and the SQL thread are in the middle of.
Dealing == [at : {"create", "make", "join", "addmake", "add", "ban", "owner"},
            me : User, with : User]
Leaving == [at : {"sub", "count", "delete", "clear"}, me : User, with : User,
            p : Party, n : Place, then : {"zone", "quit"}]
Saving == [at : {"lock", "delete", "clear"}, me : User, p : Party, then : {"gone"}]

TaskOf(t) == {NoTask} \cup (IF t = "sql" THEN Saving ELSE Dealing \cup Leaving)

Status == {"zone", "cut", "quit", "gone"}
Slots == [Place -> Member \cup {NoOne}]

Occupied(slots) == {i \in Place : slots[i] # NoOne}

Users == /\ status \in [User -> Status]
         /\ party \in [User -> Party \cup {NoOne}]
         /\ pos \in [User -> Place]

Parties == /\ used \subseteq Party
           /\ slot \in [Party -> Slots]
           /\ count \in [Party -> 0 .. Capacity]

Roomy == \A p \in Party : Cardinality(Occupied(slot[p])) <= count[p]

Locks == /\ partyLock \in [Party -> Thread \cup {NoOne}]
         /\ poolLock \in Thread \cup {NoOne}
         /\ crashed \in BOOLEAN

Tasks == task = [t \in Thread |-> task[t]] /\ \A t \in Thread : task[t] \in TaskOf(t)

Types == Users /\ Parties /\ Roomy /\ Locks /\ Tasks

-----------------------------------------------------------------------------
(***************************************************************************)
(* One zone: its thread and the SQL thread.                                *)
(***************************************************************************)
OneZone == \A u, v \in User : Home[u] = Home[v]

\* The places that are counted are those that are taken, and only of parties in use.
Counted == \A p \in Party, i \in Place : slot[p][i] # NoOne <=> p \in used /\ i < count[p]

\* A member that is here knows its party and its place, so it is in no other one.
Placed == \A p \in Party, i \in Place :
              IsHere(p, i) => party[slot[p][i].user] = p /\ pos[slot[p][i].user] = i

\* The SQL thread has taken u's m_pUSER out of its party.
TakenOut(u) ==
    \/ status[u] = "gone"
    \/ task["sql"].at \in {"delete", "clear"} /\ task["sql"].me = u

\* A user that has a party is in the place it knows.
Found == \A u \in User :
             party[u] # NoOne /\ ~TakenOut(u) => slot[party[u]][pos[u]] = Here(u)

\* The thread of the zone handles a packet of a user that is in it, and of another one.
ZoneTask(t) ==
    /\ Home[task[t].me] = t
    /\ status[task[t].me] = "zone"
    /\ task[t].at \in {"create", "make", "join", "addmake", "add", "owner"} =>
          status[task[t].with] = "zone" /\ task[t].me # task[t].with
    /\ task[t].at \in {"create", "make", "addmake", "add"} => party[task[t].me] = NoOne
    /\ At(t, "create") => party[task[t].with] = NoOne
    /\ At(t, "owner") => party[task[t].me] = party[task[t].with]

ZoneTasks == \A t \in Zone : ~Idle(t) => ZoneTask(t)

\* The SQL thread saves a user that was cut off, and holds the party it deletes, which
\* has nobody left that is here.
SqlTask ==
    /\ status[task["sql"].me] = "cut"
    /\ party[task["sql"].me] \in {task["sql"].p, NoOne}
    /\ task["sql"].at \in {"delete", "clear"} =>
          /\ task["sql"].p \in used
          /\ partyLock[task["sql"].p] = "sql"
          /\ \A i \in Place : ~IsHere(task["sql"].p, i)
          /\ \A p \in Party, i \in Place : slot[p][i] # Here(task["sql"].me)

SqlTasks == ~Idle("sql") => SqlTask

\* A party in use that has one member is being made or deleted.
Making(p) == \E t \in Zone : At(t, "addmake") /\ party[task[t].with] = p
Deleting(p) ==
    \E t \in Thread : task[t].at \in {"count", "delete", "clear"} /\ task[t].p = p

Exact == \A p \in used : count[p] >= 2 \/ Making(p) \/ Deleting(p)

Zoned == Counted /\ Placed /\ Found /\ ZoneTasks /\ SqlTasks /\ Exact

\* Nobody who is here has been freed, when nobody goes back to the character list.
Alive ==
    /\ \A p \in Party, i \in Place : IsHere(p, i) => status[slot[p][i].user] # "gone"
    /\ \A u \in User : status[u] # "quit"
    /\ \A t \in Zone : ~Idle(t) => task[t] \in Dealing \/ task[t].then = "zone"

\* When nobody is cut off, the SQL thread has nothing to do with parties, everyone in a
\* party is here, and what the zone's thread has found stays as it is.
Sure(t) ==
    /\ task[t].at \in {"make", "addmake", "add"} => party[task[t].with] # NoOne
    /\ task[t].at \in {"ban", "owner"} => party[task[t].me] # NoOne
    /\ At(t, "sub") =>
          /\ slot[task[t].p][task[t].n] = Here(task[t].with)
          /\ task[t].then = "quit" => task[t].me = task[t].with
    /\ task[t].at \in {"count", "delete", "clear"} /\ task[t].then = "quit" =>
          party[task[t].me] = NoOne

Calm ==
    /\ ~crashed
    /\ Idle("sql")
    /\ \A u \in User : status[u] \in {"zone", "quit", "gone"}
    /\ \A u \in User : status[u] # "zone" => party[u] = NoOne
    /\ \A p \in Party, i \in Place : slot[p][i] # NoOne => IsHere(p, i)
    /\ \A t \in Zone : ~Idle(t) => Sure(t)

-----------------------------------------------------------------------------
(***************************************************************************)
(* The places of a party.                                                  *)
(***************************************************************************)
LEMMA Places ==
    /\ Capacity \in Nat /\ Capacity >= 2
    /\ 0 \in Place /\ \A i \in Place : i \in Nat /\ i < Capacity
    /\ \A i \in Nat : i < Capacity => i \in Place
    /\ NoOne \notin Member
  BY PartyAssumption DEF Place

LEMMA HereIs ==
    ASSUME NEW u \in User
    PROVE  /\ Here(u) \in Member /\ Here(u) # NoOne
           /\ Here(u).here /\ Here(u).user = u
  <1>1. Here(u) \in Member
    BY DEF Here, Member
  <1> QED
    BY <1>1, Places DEF Here

LEMMA OccupiedFinite ==
    ASSUME NEW slots
    PROVE  IsFiniteSet(Occupied(slots)) /\ Cardinality(Occupied(slots)) \in Nat
  <1>1. IsFiniteSet(Place)
    BY Places, FS_Interval DEF Place
  <1>2. Occupied(slots) \in SUBSET Place
    BY DEF Occupied
  <1>3. IsFiniteSet(Occupied(slots))
    BY <1>1, <1>2, FS_Subset
  <1> QED
    BY <1>3, FS_CardinalityType

\* Members that can be told apart by the places they come from are not more.
LEMMA NotMore ==
    ASSUME NEW S, NEW T, IsFiniteSet(S), IsFiniteSet(T), NEW f \in [S -> T],
           \A i, j \in S : f[i] = f[j] => i = j
    PROVE  Cardinality(S) <= Cardinality(T)
  <1>1. Cardinality(S) \in Nat /\ Cardinality(T) \in Nat
    BY FS_CardinalityType
  <1> SUFFICES ASSUME Cardinality(T) < Cardinality(S) PROVE FALSE
    BY <1>1
  <1>2. \E i, j \in S : i # j /\ f[i] = f[j]
    BY FS_PigeonHole
  <1> QED
    BY <1>2

\* A member is added, or takes another one's place.
LEMMA SlotsAdded ==
    ASSUME NEW slots \in Slots, NEW i \in Place, NEW m \in Member
    PROVE  /\ [slots EXCEPT ![i] = m] \in Slots
           /\ Cardinality(Occupied([slots EXCEPT ![i] = m])) <= Cardinality(Occupied(slots)) + 1
  <1>1. Occupied([slots EXCEPT ![i] = m]) = Occupied(slots) \cup {i}
    BY Places DEF Slots, Occupied
  <1>2. /\ IsFiniteSet(Occupied(slots)) /\ Cardinality(Occupied(slots)) \in Nat
    BY OccupiedFinite
  <1>3. Cardinality(Occupied(slots) \cup {i}) = IF i \in Occupied(slots)
           THEN Cardinality(Occupied(slots)) ELSE Cardinality(Occupied(slots)) + 1
    BY <1>2, FS_AddElement
  <1>4. Cardinality(Occupied(slots) \cup {i}) <= Cardinality(Occupied(slots)) + 1
    BY <1>2, <1>3
  <1>5. [slots EXCEPT ![i] = m] \in Slots
    BY DEF Slots
  <1> QED
    BY <1>1, <1>4, <1>5

\* A member and the head of the party change places.
LEMMA SlotsSwapped ==
    ASSUME NEW slots \in Slots, NEW i \in Place
    PROVE  LET new == [slots EXCEPT ![0] = slots[i], ![i] = slots[0]]
           IN  /\ new \in Slots
               /\ Cardinality(Occupied(new)) <= Cardinality(Occupied(slots))
  <1> DEFINE new == [slots EXCEPT ![0] = slots[i], ![i] = slots[0]]
             f == [j \in Occupied(new) |-> IF j = 0 THEN i ELSE IF j = i THEN 0 ELSE j]
  <1>1. /\ new \in Slots
        /\ \A j \in Place : new[j] = IF j = i THEN slots[0] ELSE IF j = 0 THEN slots[i]
                                     ELSE slots[j]
    BY Places DEF Slots
  <1>2. IsFiniteSet(Occupied(new)) /\ IsFiniteSet(Occupied(slots))
    BY OccupiedFinite
  <1> HIDE DEF new
  <1>3. f \in [Occupied(new) -> Occupied(slots)]
    BY <1>1, Places DEF Occupied
  <1>4. \A j, k \in Occupied(new) : f[j] = f[k] => j = k
    BY Places DEF Occupied
  <1> HIDE DEF f
  <1>5. Cardinality(Occupied(new)) <= Cardinality(Occupied(slots))
    BY <1>2, <1>3, <1>4, NotMore
  <1> QED
    BY <1>1, <1>5 DEF new

\* A member is taken out and those behind it move up.
LEMMA SlotsClosed ==
    ASSUME NEW p \in Party, slot[p] \in Slots, count[p] \in 0 .. Capacity,
           NEW n \in Place, slot[p][n] # NoOne
    PROVE  /\ Closed(p, n) \in Slots
           /\ Cardinality(Occupied(Closed(p, n))) + 1 <= Cardinality(Occupied(slot[p]))
  <1> DEFINE f == [j \in Occupied(Closed(p, n)) |-> IF j < n THEN j ELSE j + 1]
  <1>1. /\ Closed(p, n) \in Slots
        /\ \A j \in Place : Closed(p, n)[j] = IF j < n THEN slot[p][j]
                                ELSE IF j < count[p] - 1 THEN slot[p][j + 1] ELSE NoOne
    BY Places DEF Slots, Closed
  <1>2. /\ IsFiniteSet(Occupied(Closed(p, n))) /\ IsFiniteSet(Occupied(slot[p]))
        /\ Cardinality(Occupied(slot[p])) \in Nat
    BY OccupiedFinite
  <1>3. IsFiniteSet(Occupied(slot[p]) \ {n})
    BY <1>2, FS_RemoveElement
  <1>4. f \in [Occupied(Closed(p, n)) -> Occupied(slot[p]) \ {n}]
    <2> SUFFICES ASSUME NEW j \in Occupied(Closed(p, n)) PROVE f[j] \in Occupied(slot[p]) \ {n}
      OBVIOUS
    <2>1. j \in Place /\ n \in Nat /\ j \in Nat /\ Closed(p, n)[j] # NoOne
      BY Places DEF Occupied
    <2>2. CASE j < n
      BY <1>1, <2>1, <2>2, Places DEF Occupied
    <2>3. CASE ~ (j < n)
      <3>1. j < count[p] - 1 /\ slot[p][j + 1] # NoOne
        BY <1>1, <2>1, <2>3
      <3>2. j + 1 \in Place
        BY <2>1, <3>1, Places
      <3> QED
        BY <2>1, <2>3, <3>1, <3>2 DEF Occupied
    <2> QED
      BY <2>2, <2>3
  <1>5. \A j, k \in Occupied(Closed(p, n)) : f[j] = f[k] => j = k
    BY Places DEF Occupied
  <1> HIDE DEF f
  <1>6. Cardinality(Occupied(Closed(p, n))) <= Cardinality(Occupied(slot[p]) \ {n})
    BY <1>2, <1>3, <1>4, <1>5, NotMore
  <1>7. Cardinality(Occupied(slot[p]) \ {n}) = Cardinality(Occupied(slot[p])) - 1
    BY <1>2, FS_RemoveElement DEF Occupied
  <1>8. Cardinality(Occupied(Closed(p, n))) \in Nat
    BY OccupiedFinite
  <1> QED
    BY <1>1, <1>2, <1>6, <1>7, <1>8

\* A member stays without its user.
LEMMA SlotsAbsent ==
    ASSUME NEW slots \in Slots, NEW n \in Place, slots[n] # NoOne
    PROVE  /\ Absent(slots, n) \in Slots
           /\ Occupied(Absent(slots, n)) = Occupied(slots)
           /\ Absent(slots, n)[n] = [user |-> slots[n].user, here |-> FALSE]
           /\ \A i \in Place : i # n => Absent(slots, n)[i] = slots[i]
  <1>1. slots[n] \in Member
    BY DEF Slots
  <1>2. PICK m : m = [slots[n] EXCEPT !.here = FALSE]
    OBVIOUS
  <1>3. m = [user |-> slots[n].user, here |-> FALSE] /\ m \in Member
    BY <1>1, <1>2 DEF Member
  <1>4. Absent(slots, n) = [slots EXCEPT ![n] = m]
    BY <1>2 DEF Absent
  <1> QED
    BY <1>3, <1>4, Places DEF Slots, Occupied

\* Some places are emptied.
LEMMA SlotsEmptied ==
    ASSUME NEW slots \in Slots, NEW S
    PROVE  LET new == [i \in Place |-> IF i \in S THEN NoOne ELSE slots[i]]
           IN  /\ new \in Slots
               /\ Cardinality(Occupied(new)) <= Cardinality(Occupied(slots))
  <1> DEFINE new == [i \in Place |-> IF i \in S THEN NoOne ELSE slots[i]]
  <1>1. new \in Slots
    BY DEF Slots
  <1>2. Occupied(new) \in SUBSET Occupied(slots)
    BY DEF Occupied
  <1>3. IsFiniteSet(Occupied(slots))
    BY OccupiedFinite
  <1>4. Cardinality(Occupied(new)) <= Cardinality(Occupied(slots))
    BY <1>2, <1>3, FS_Subset
  <1> QED
    BY <1>1, <1>4

-----------------------------------------------------------------------------
(***************************************************************************)
(* What the threads are in the middle of.                                  *)
(***************************************************************************)
LEMMA TaskReads ==
    ASSUME Tasks, NEW t \in Thread
    PROVE  /\ task[t].at = "idle" <=> Idle(t)
           /\ task[t].at \in {"create", "make", "join", "addmake", "add", "ban", "owner"} =>
                 t \in Zone /\ task[t] \in Dealing
           /\ At(t, "sub") => t \in Zone /\ task[t] \in Leaving
           /\ task[t].at \in {"count", "delete", "clear"} =>
                 IF t = "sql" THEN task[t] \in Saving ELSE t \in Zone /\ task[t] \in Leaving
           /\ At(t, "lock") => t = "sql" /\ task[t] \in Saving
           /\ ~Idle(t) => IF t = "sql" THEN task[t] \in Saving
                          ELSE t \in Zone /\ task[t] \in Dealing \cup Leaving
  <1>1. task[t] \in TaskOf(t) /\ (t # "sql" => t \in Zone)
    BY DEF Tasks, Thread
  <1>2. CASE task[t] = NoTask
    <2>1. task[t].at = "idle" /\ Idle(t)
      BY <1>2 DEF NoTask, Idle
    <2> QED
      BY <2>1 DEF At
  <1>3. CASE task[t] \in Dealing /\ t # "sql"
    <2>1. /\ task[t].at \in {"create", "make", "join", "addmake", "add", "ban", "owner"}
          /\ ~Idle(t)
      BY <1>3 DEF Dealing, NoTask, Idle
    <2> QED
      BY <1>1, <1>3, <2>1 DEF At
  <1>4. CASE task[t] \in Leaving /\ t # "sql"
    <2>1. task[t].at \in {"sub", "count", "delete", "clear"} /\ ~Idle(t)
      BY <1>4 DEF Leaving, NoTask, Idle
    <2> QED
      BY <1>1, <1>4, <2>1 DEF At
  <1>5. CASE task[t] \in Saving /\ t = "sql"
    <2>1. task[t].at \in {"lock", "delete", "clear"} /\ ~Idle(t)
      BY <1>5 DEF Saving, NoTask, Idle
    <2> QED
      BY <1>1, <1>5, <2>1 DEF At
  <1> QED
    BY <1>1, <1>2, <1>3, <1>4, <1>5 DEF TaskOf

LEMMA TaskForms ==
    ASSUME NEW x
    PROVE  /\ x \in Dealing =>
                \A a \in {"join", "addmake", "add"} : [x EXCEPT !.at = a] \in Dealing
           /\ x \in Leaving =>
                \A a \in {"count", "delete", "clear"} : [x EXCEPT !.at = a] \in Leaving
           /\ x \in Saving =>
                \A a \in {"delete", "clear"} : [x EXCEPT !.at = a] \in Saving
           /\ x \in Dealing => x.me \in User /\ x.with \in User
           /\ x \in Leaving => /\ x.me \in User /\ x.with \in User /\ x.p \in Party
                               /\ x.n \in Place /\ x.then \in {"zone", "quit"}
           /\ x \in Saving => x.me \in User /\ x.p \in Party /\ x.then = "gone"
           /\ \A u, v \in User, p \in Party, n \in Place, s \in {"zone", "quit"} :
                 Removal(u, v, p, n, s) \in Leaving
           /\ \A u, v \in User :
                 \A a \in {"create", "make", "join", "addmake", "add", "ban", "owner"} :
                    [at |-> a, me |-> u, with |-> v] \in Dealing
  <1>1. x \in Dealing => \A a \in {"join", "addmake", "add"} : [x EXCEPT !.at = a] \in Dealing
    BY DEF Dealing
  <1>2. x \in Leaving => \A a \in {"count", "delete", "clear"} : [x EXCEPT !.at = a] \in Leaving
    BY DEF Leaving
  <1>3. x \in Saving => \A a \in {"delete", "clear"} : [x EXCEPT !.at = a] \in Saving
    BY DEF Saving
  <1>4. /\ x \in Dealing => x.me \in User /\ x.with \in User
        /\ x \in Leaving => /\ x.me \in User /\ x.with \in User /\ x.p \in Party
                            /\ x.n \in Place /\ x.then \in {"zone", "quit"}
        /\ x \in Saving => x.me \in User /\ x.p \in Party /\ x.then = "gone"
    BY DEF Dealing, Leaving, Saving
  <1>5. \A u, v \in User, p \in Party, n \in Place, s \in {"zone", "quit"} :
           Removal(u, v, p, n, s) \in Leaving
    BY DEF Removal, Leaving
  <1>6. \A u, v \in User :
           \A a \in {"create", "make", "join", "addmake", "add", "ban", "owner"} :
              [at |-> a, me |-> u, with |-> v] \in Dealing
    BY DEF Dealing
  <1> QED
    BY <1>1, <1>2, <1>3, <1>4, <1>5, <1>6

LEMMA TaskSet ==
    ASSUME Tasks, NEW t \in Thread, NEW x \in TaskOf(t), Goes(t, x)
    PROVE  Tasks'
  BY DEF Tasks, Goes

\* Where no task is changed.
LEMMA TypesKept ==
    /\ Users /\ UNCHANGED users => Users'
    /\ Parties /\ Roomy /\ UNCHANGED parties => Parties' /\ Roomy'
    /\ Locks /\ UNCHANGED <<locks, crashed>> => Locks'
    /\ Tasks /\ UNCHANGED task => Tasks'
  <1>1. Users /\ UNCHANGED users => Users'
    BY DEF Users, users
  <1>2. Parties /\ UNCHANGED parties => Parties'
    BY DEF Parties, parties
  <1>3. Roomy /\ UNCHANGED parties => Roomy'
    BY DEF Roomy, parties
  <1>4. Locks /\ UNCHANGED <<locks, crashed>> => Locks'
    BY DEF Locks, locks
  <1>5. Tasks /\ UNCHANGED task => Tasks'
    BY DEF Tasks
  <1> QED
    BY <1>1, <1>2, <1>3, <1>4, <1>5

\* The places of one party change, or which parties are in use.
LEMMA SlotSet ==
    ASSUME Parties, Roomy, NEW p \in Party, NEW slots \in Slots, NEW n \in 0 .. Capacity,
           Cardinality(Occupied(slots)) <= n,
           slot' = [slot EXCEPT ![p] = slots], count' = [count EXCEPT ![p] = n],
           used' \subseteq Party
    PROVE  Parties' /\ Roomy'
  <1>1. Parties'
    BY DEF Parties
  <1>2. Roomy'
    BY DEF Parties, Roomy
  <1> QED
    BY <1>1, <1>2

LEMMA CrashTypes == Types /\ Crash => Types'
  <1> SUFFICES ASSUME Types, Crash PROVE Types'
    OBVIOUS
  <1>1. Locks'
    BY DEF Types, Crash, Locks, locks
  <1> QED
    BY <1>1, TypesKept DEF Types, Crash

\* Thread t goes on after it has taken a member out.
LEMMA FinishTypes ==
    ASSUME Types, NEW t \in Thread, task[t].me \in User, task[t].then \in Status, NEW p \in Party,
           Finish(t, p)
    PROVE  /\ Tasks'
           /\ status' \in [User -> Status]
           /\ partyLock' \in [Party -> Thread \cup {NoOne}]
  <1>1. Tasks'
    BY TaskSet DEF Finish, TaskOf, Types
  <1>2. status' \in [User -> Status]
    BY DEF Finish, Types, Users
  <1>3. partyLock' \in [Party -> Thread \cup {NoOne}]
    BY DEF Finish, Types, Locks
  <1> QED
    BY <1>1, <1>2, <1>3

-----------------------------------------------------------------------------
(***************************************************************************)
(* Types are preserved.                                                    *)
(***************************************************************************)
\* A user's packet begins a task of its zone's thread.
LEMMA BeginsTypes ==
    ASSUME Types, NEW u \in User, NEW x \in Dealing \cup Leaving, Begins(u, x)
    PROVE  Types'
  <1>1. Home[u] \in Thread /\ Home[u] # "sql"
    BY PartyAssumption DEF Thread
  <1>2. x \in TaskOf(Home[u])
    BY <1>1 DEF TaskOf
  <1>3. Tasks'
    BY <1>1, <1>2, TaskSet DEF Begins, Types
  <1> QED
    BY <1>3, TypesKept DEF Begins, Types

LEMMA RequestTypes ==
    ASSUME Types, NEW u \in User
    PROVE  /\ \A v \in User : AcceptMake(u, v) \/ AcceptJoin(u, v) \/ Ban(u, v) \/ GiveOwner(u, v)
                                  => Types'
           /\ Leave(u) \/ Quit(u) => Types'
  <1>1. ASSUME NEW v \in User, AcceptMake(u, v) \/ AcceptJoin(u, v) \/ Ban(u, v) \/ GiveOwner(u, v)
        PROVE  Types'
    <2>1. PICK a \in {"create", "make", "join", "ban", "owner"} :
             Begins(u, [at |-> a, me |-> u, with |-> v])
      BY <1>1 DEF AcceptMake, AcceptJoin, Ban, GiveOwner
    <2>2. [at |-> a, me |-> u, with |-> v] \in Dealing
      BY TaskForms
    <2> QED
      BY <2>1, <2>2, BeginsTypes
  <1>2. ASSUME NEW s \in {"zone", "quit"}, party[u] # NoOne,
               Begins(u, Removal(u, u, party[u], pos[u], s))
        PROVE  Types'
    <2>1. party[u] \in Party /\ pos[u] \in Place
      BY <1>2 DEF Types, Users
    <2>2. Removal(u, u, party[u], pos[u], s) \in Leaving
      BY <2>1, TaskForms
    <2> QED
      BY <1>2, <2>2, BeginsTypes
  <1>3. ASSUME Quit(u), party[u] = NoOne PROVE Types'
    <2>1. Users'
      BY <1>3 DEF Quit, Types, Users, Status
    <2> QED
      BY <1>3, <2>1, TypesKept DEF Quit, Types, locks
  <1> QED
    BY <1>1, <1>2, <1>3 DEF Leave, Quit

LEMMA CreateTypes ==
    ASSUME Types, NEW t \in Thread, Create(t)
    PROVE  Types'
  <1>1. t \in Zone /\ task[t] \in Dealing /\ t # "sql"
    BY TaskReads, PartyAssumption DEF Create, At, Types
  <1>2. PICK v \in User : v = task[t].with
    BY <1>1, TaskForms
  <1>3. CASE Goes(t, NoTask) /\ UNCHANGED <<users, parties>>
    <2>1. Tasks'
      BY <1>3, TaskSet DEF TaskOf, Types
    <2> QED
      BY <1>3, <2>1, TypesKept DEF Create, Types
  <1>4. ASSUME NEW p \in Party \ used,
               used' = used \cup {p},
               slot' = [slot EXCEPT ![p] = [i \in Place |-> IF i = 0 THEN Here(v) ELSE NoOne]],
               count' = [count EXCEPT ![p] = 1],
               party' = [party EXCEPT ![v] = p],
               pos' = [pos EXCEPT ![v] = 0],
               Goes(t, [task[t] EXCEPT !.at = "addmake"]),
               UNCHANGED status
        PROVE  Types'
    <2>1. PICK new : new = [i \in Place |-> IF i = 0 THEN Here(v) ELSE NoOne]
      OBVIOUS
    <2>2. new \in Slots /\ Occupied(new) = {0}
      <3>1. Here(v) \in Member
        BY DEF Here, Member
      <3>2. new \in Slots /\ \A i \in Place : new[i] # NoOne <=> i = 0
        BY <2>1, <3>1, Places DEF Slots
      <3> QED
        BY <3>2, Places DEF Occupied
    <2>3. Cardinality(Occupied(new)) <= 1 /\ 1 \in 0 .. Capacity
      BY <2>2, FS_Singleton, Places
    <2>4. Parties' /\ Roomy'
      <3>1. used' \subseteq Party
        BY <1>4 DEF Types, Parties
      <3> QED
        BY <1>4, <2>1, <2>2, <2>3, <3>1, SlotSet DEF Types
    <2>5. Users'
      BY <1>4, Places DEF Types, Users
    <2>6. [task[t] EXCEPT !.at = "addmake"] \in TaskOf(t)
      BY <1>1, TaskForms DEF TaskOf
    <2>7. Tasks'
      BY <1>4, <2>6, TaskSet DEF Types
    <2> QED
      BY <2>4, <2>5, <2>7, TypesKept DEF Create, Types
  <1> QED
    BY <1>2, <1>3, <1>4 DEF Create

LEMMA CheckOwnerTypes ==
    ASSUME Types, NEW t \in Thread, CheckOwner(t)
    PROVE  Types'
  <1>1. t \in Zone /\ task[t] \in Dealing /\ t # "sql"
    BY TaskReads, PartyAssumption DEF CheckOwner, At, Types
  <1>2. CASE Crash
    BY <1>2, CrashTypes
  <1>3. ASSUME NEW x \in TaskOf(t), Goes(t, x), UNCHANGED <<users, parties, locks, crashed>>
        PROVE  Types'
    BY <1>3, TaskSet, TypesKept DEF Types
  <1>4. /\ NoTask \in TaskOf(t)
        /\ \A a \in {"addmake", "add"} : [task[t] EXCEPT !.at = a] \in TaskOf(t)
    BY <1>1, TaskForms DEF TaskOf
  <1> QED
    BY <1>2, <1>3, <1>4 DEF CheckOwner

LEMMA AddTypes ==
    ASSUME Types, NEW t \in Thread, Add(t)
    PROVE  Types'
  <1>1. t \in Zone /\ task[t] \in Dealing /\ t # "sql"
    BY TaskReads, PartyAssumption DEF Add, At, Types
  <1>2. PICK u \in User, v \in User : u = task[t].me /\ v = task[t].with
    BY <1>1, TaskForms
  <1>3. CASE Crash
    BY <1>3, CrashTypes
  <1>4. CASE party[v] # NoOne /\ ~Crash
    <2>1. PICK p \in Party : p = party[v]
      BY <1>4 DEF Types, Users
    <2>2. Tasks'
      <3>1. PICK x : x = (IF At(t, "addmake") THEN [task[t] EXCEPT !.at = "join"] ELSE NoTask)
        OBVIOUS
      <3>2. x \in TaskOf(t)
        BY <1>1, <3>1, TaskForms DEF TaskOf
      <3>3. Goes(t, x)
        BY <1>2, <1>4, <3>1 DEF Add
      <3> QED
        BY <3>2, <3>3, TaskSet DEF Types
    <2>3. CASE HasRoom(p)
      <3>1. /\ slot' = [slot EXCEPT ![p][count[p]] = Here(u)]
            /\ count' = [count EXCEPT ![p] = @ + 1]
            /\ party' = [party EXCEPT ![u] = p]
            /\ pos' = [pos EXCEPT ![u] = count[p]]
            /\ UNCHANGED <<used, status>>
        BY <1>2, <1>4, <2>1, <2>3 DEF Add
      <3>2. /\ count[p] \in Place /\ count[p] + 1 \in 0 .. Capacity
            /\ slot[p] \in Slots /\ Here(u) \in Member
        BY <2>3, Places DEF HasRoom, Types, Parties, Here, Member
      <3>3. PICK new : new = [slot[p] EXCEPT ![count[p]] = Here(u)]
        OBVIOUS
      <3>4. /\ new \in Slots
            /\ Cardinality(Occupied(new)) <= Cardinality(Occupied(slot[p])) + 1
        BY <3>2, <3>3, SlotsAdded
      <3>5. Cardinality(Occupied(new)) <= count[p] + 1
        <4>1. Cardinality(Occupied(slot[p])) <= count[p]
          BY DEF Types, Roomy
        <4>2. Cardinality(Occupied(slot[p])) \in Nat /\ Cardinality(Occupied(new)) \in Nat
          BY OccupiedFinite
        <4> QED
          BY <3>2, <3>4, <4>1, <4>2 DEF Types, Parties
      <3>6. slot' = [slot EXCEPT ![p] = new] /\ count' = [count EXCEPT ![p] = count[p] + 1]
        BY <3>1, <3>3 DEF Types, Parties
      <3>7. Parties' /\ Roomy'
        BY <3>1, <3>2, <3>4, <3>5, <3>6, SlotSet DEF Types, Parties
      <3>8. Users'
        BY <3>1, <3>2 DEF Types, Users
      <3> QED
        BY <2>2, <3>7, <3>8, <1>2, <1>4, TypesKept DEF Add, Types
    <2>4. CASE ~HasRoom(p)
      BY <2>2, <1>2, <1>4, <2>1, <2>4, TypesKept DEF Add, Types
    <2> QED
      BY <2>3, <2>4
  <1> QED
    BY <1>2, <1>3, <1>4 DEF Add

LEMMA KickMemberTypes ==
    ASSUME Types, NEW t \in Thread, KickMember(t)
    PROVE  Types'
  <1>1. t \in Zone /\ task[t] \in Dealing /\ t # "sql"
    BY TaskReads, PartyAssumption DEF KickMember, At, Types
  <1>2. PICK u \in User, v \in User : u = task[t].me /\ v = task[t].with
    BY <1>1, TaskForms
  <1>3. CASE Crash
    BY <1>3, CrashTypes
  <1>4. CASE party[u] # NoOne /\ ~Crash
    <2>1. PICK p \in Party : p = party[u]
      BY <1>4 DEF Types, Users
    <2>2. PICK found : found = {i \in 1 .. count[p] - 1 : slot[p][i] # NoOne /\ slot[p][i].user = v}
      OBVIOUS
    <2>3. CASE found = {}
      <3>1. Goes(t, NoTask) /\ UNCHANGED partyLock
        BY <1>2, <1>4, <2>1, <2>2, <2>3 DEF KickMember
      <3>2. Tasks'
        BY <3>1, TaskSet DEF TaskOf, Types
      <3> QED
        BY <1>2, <1>4, <2>1, <3>1, <3>2, TypesKept DEF KickMember, Types, locks
    <2>4. CASE found # {}
      <3>1. /\ Goes(t, Removal(u, v, p, LeastOf(found), "zone"))
            /\ partyLock' = [partyLock EXCEPT ![p] = t]
            /\ UNCHANGED <<users, parties, poolLock, crashed>>
        BY <1>2, <1>4, <2>1, <2>2, <2>4 DEF KickMember
      <3>2. found \in SUBSET Nat
        BY <2>2 DEF Types, Parties
      <3>3. LeastOf(found) \in found
        <4>1. \E m \in found : \A n \in found : m <= n
          BY <2>4, <3>2, LeastNumber
        <4> QED
          BY <4>1 DEF LeastOf
      <3>4. LeastOf(found) \in Place
        BY <2>2, <3>3, Places DEF Types, Parties
      <3>5. Removal(u, v, p, LeastOf(found), "zone") \in TaskOf(t)
        BY <1>1, <3>4, TaskForms DEF TaskOf
      <3>6. Tasks'
        BY <3>1, <3>5, TaskSet DEF Types
      <3>7. Locks'
        BY <3>1 DEF Types, Locks
      <3> QED
        BY <3>1, <3>6, <3>7, TypesKept DEF Types
    <2> QED
      BY <2>3, <2>4
  <1> QED
    BY <1>2, <1>3, <1>4 DEF KickMember

\* Those who move up are given numbers of places.
LEMMA RenumberedType ==
    ASSUME Users, NEW after, NEW moved, moved \subseteq Place
    PROVE  Renumbered(after, moved) \in [User -> Place]
  BY DEF Users, Renumbered

LEMMA SubTypes ==
    ASSUME Types, NEW t \in Thread, Sub(t)
    PROVE  Types'
  <1>1. t \in Zone /\ task[t] \in Leaving /\ t # "sql"
    BY TaskReads, PartyAssumption DEF Sub, At, Types
  <1>2. PICK p \in Party, n \in Place : p = task[t].p /\ n = task[t].n
    BY <1>1, TaskForms
  <1>3. CASE Crash
    BY <1>3, CrashTypes
  <1>4. CASE slot[p][n] = NoOne
    <2>1. Finish(t, p) /\ UNCHANGED <<party, pos, parties, poolLock, crashed>>
      BY <1>2, <1>4 DEF Sub
    <2>2. task[t].me \in User /\ task[t].then \in Status
      BY <1>1, TaskForms DEF Status
    <2>3. Tasks' /\ status' \in [User -> Status] /\ partyLock' \in [Party -> Thread \cup {NoOne}]
      BY <2>1, <2>2, FinishTypes
    <2> QED
      BY <2>1, <2>3, TypesKept DEF Types, Users, Locks
  <1>5. CASE slot[p][n] # NoOne /\ ~Crash
    <2>1. PICK moved : moved = n .. count[p] - 2
      OBVIOUS
    <2>2. moved \subseteq Place
      BY <2>1, Places DEF Types, Parties
    <2>3. /\ slot' = [slot EXCEPT ![p] = Closed(p, n)]
          /\ count' = [count EXCEPT ![p] = count[p] - 1]
          /\ party' = IF slot[p][n].here THEN [party EXCEPT ![slot[p][n].user] = NoOne] ELSE party
          /\ pos' = Renumbered(Closed(p, n), moved)
          /\ Goes(t, [task[t] EXCEPT !.at = "count"])
          /\ UNCHANGED <<status, used, locks, crashed>>
      BY <1>2, <1>5, <2>1 DEF Sub, Types, Parties
    <2>4. slot[p] \in Slots /\ count[p] \in 0 .. Capacity
      BY DEF Types, Parties
    <2>5. /\ Closed(p, n) \in Slots
          /\ Cardinality(Occupied(Closed(p, n))) + 1 <= Cardinality(Occupied(slot[p]))
      BY <1>5, <2>4, SlotsClosed
    <2>6. /\ Cardinality(Occupied(slot[p])) \in Nat
          /\ Cardinality(Occupied(Closed(p, n))) \in Nat
      BY OccupiedFinite
    <2>7. Cardinality(Occupied(slot[p])) <= count[p]
      BY DEF Types, Roomy
    <2>8. /\ count[p] - 1 \in 0 .. Capacity
          /\ Cardinality(Occupied(Closed(p, n))) <= count[p] - 1
      BY <2>4, <2>5, <2>6, <2>7, Places
    <2>9. Parties' /\ Roomy'
      BY <2>3, <2>5, <2>8, SlotSet DEF Types, Parties
    <2>10. Users'
      <3>1. party' \in [User -> Party \cup {NoOne}]
        BY <2>3 DEF Types, Users
      <3> QED
        BY <2>2, <2>3, <3>1, RenumberedType DEF Types, Users
    <2>11. Tasks'
      <3>1. [task[t] EXCEPT !.at = "count"] \in TaskOf(t)
        BY <1>1, TaskForms DEF TaskOf
      <3> QED
        BY <2>3, <3>1, TaskSet DEF Types
    <2> QED
      BY <2>3, <2>9, <2>10, <2>11, TypesKept DEF Types
  <1> QED
    BY <1>2, <1>3, <1>4, <1>5 DEF Sub

\* What is known of the thread that deletes a party.
LEMMA Deletes ==
    ASSUME Types, NEW t \in Thread, task[t].at \in {"count", "delete", "clear"}
    PROVE  /\ task[t].me \in User /\ task[t].then \in Status /\ task[t].p \in Party
           /\ \A a \in {"delete", "clear"} : [task[t] EXCEPT !.at = a] \in TaskOf(t)
  <1>1. IF t = "sql" THEN task[t] \in Saving ELSE t \in Zone /\ task[t] \in Leaving
    BY TaskReads DEF Types
  <1> QED
    BY <1>1, TaskForms DEF Status, TaskOf

LEMMA DeleteTypes ==
    ASSUME Types, NEW t \in Thread
    PROVE  CountLeft(t) \/ LockPool(t) \/ Clear(t) => Types'
  <1>1. ASSUME CountLeft(t) PROVE Types'
    <2>1. /\ task[t].me \in User /\ task[t].then \in Status /\ task[t].p \in Party
          /\ [task[t] EXCEPT !.at = "delete"] \in TaskOf(t)
      BY <1>1, Deletes DEF CountLeft, At
    <2>2. CASE TooSmall(task[t].p)
      <3>1. Tasks'
        BY <1>1, <2>1, <2>2, TaskSet DEF CountLeft, Types
      <3> QED
        BY <1>1, <2>2, <3>1, TypesKept DEF CountLeft, Types, users, locks
    <2>3. CASE ~TooSmall(task[t].p)
      <3>1. Finish(t, task[t].p)
        BY <1>1, <2>3 DEF CountLeft
      <3>2. Tasks' /\ status' \in [User -> Status] /\ partyLock' \in [Party -> Thread \cup {NoOne}]
        BY <2>1, <3>1, FinishTypes
      <3> QED
        BY <1>1, <3>2, TypesKept DEF CountLeft, Types, Users, Locks
    <2> QED
      BY <2>2, <2>3
  <1>2. ASSUME LockPool(t) PROVE Types'
    <2>1. /\ task[t].me \in User /\ task[t].then \in Status /\ task[t].p \in Party
          /\ [task[t] EXCEPT !.at = "clear"] \in TaskOf(t)
      BY <1>2, Deletes DEF LockPool, At
    <2>2. CASE task[t].p \in used
      <3>1. Tasks'
        BY <1>2, <2>1, <2>2, TaskSet DEF LockPool, Types
      <3>2. Locks'
        BY <1>2, <2>2 DEF LockPool, Types, Locks
      <3> QED
        BY <1>2, <2>2, <3>1, <3>2, TypesKept DEF LockPool, Types, users
    <2>3. CASE task[t].p \notin used
      <3>1. Finish(t, task[t].p) /\ UNCHANGED poolLock
        BY <1>2, <2>3 DEF LockPool
      <3>2. Tasks' /\ status' \in [User -> Status] /\ partyLock' \in [Party -> Thread \cup {NoOne}]
        BY <2>1, <3>1, FinishTypes
      <3> QED
        BY <1>2, <3>1, <3>2, TypesKept DEF LockPool, Types, Users, Locks
    <2> QED
      BY <2>2, <2>3
  <1>3. ASSUME Clear(t) PROVE Types'
    <2>1. task[t].me \in User /\ task[t].then \in Status
      BY <1>3, Deletes DEF Clear, At
    <2>2. PICK p \in Party : p = task[t].p
      BY <1>3, Deletes DEF Clear, At
    <2>3. Finish(t, p)
      BY <1>3, <2>2 DEF Clear
    <2>4. Tasks' /\ status' \in [User -> Status] /\ partyLock' \in [Party -> Thread \cup {NoOne}]
      BY <2>1, <2>3, FinishTypes
    <2>5. PICK S : S = {i \in Place : i < count[p]}
      OBVIOUS
    <2>6. PICK new : new = [i \in Place |-> IF i \in S THEN NoOne ELSE slot[p][i]]
      OBVIOUS
    <2>7. /\ slot' = [slot EXCEPT ![p] = new] /\ used' \subseteq Party /\ count' = count
          /\ slot[p] \in Slots /\ count[p] \in 0 .. Capacity
      BY <1>3, <2>2, <2>5, <2>6 DEF Clear, Types, Parties
    <2>8. /\ new \in Slots
          /\ Cardinality(Occupied(new)) <= Cardinality(Occupied(slot[p]))
      BY <2>6, <2>7, SlotsEmptied
    <2>9. Cardinality(Occupied(new)) <= count[p]
      <3>1. Cardinality(Occupied(slot[p])) <= count[p]
        BY DEF Types, Roomy
      <3>2. Cardinality(Occupied(slot[p])) \in Nat /\ Cardinality(Occupied(new)) \in Nat
        BY OccupiedFinite
      <3> QED
        BY <2>7, <2>8, <3>1, <3>2
    <2>10. Parties' /\ Roomy'
      <3>1. count' = [count EXCEPT ![p] = count[p]]
        BY <2>7 DEF Types, Parties
      <3> QED
        BY <2>7, <2>8, <2>9, <3>1, SlotSet DEF Types
    <2>11. Users'
      <3>1. party' \in [User -> Party \cup {NoOne}]
        BY <1>3 DEF Clear, Types, Users
      <3> QED
        BY <1>3, <2>4, <3>1 DEF Clear, Types, Users
    <2>12. Locks'
      BY <1>3, <2>4 DEF Clear, Types, Locks
    <2> QED
      BY <2>4, <2>10, <2>11, <2>12 DEF Types
  <1> QED
    BY <1>1, <1>2, <1>3

\* v becomes the head of party p.
LEMMA ChangeOwnerTypes ==
    ASSUME Types, NEW p \in Party, NEW v \in User, NEW slots \in Slots,
           Cardinality(Occupied(slots)) <= count[p],
           ChangeOwner(p, v, slots), UNCHANGED <<used, count>>
    PROVE  Parties' /\ Roomy' /\ pos' \in [User -> Place]
  <1>1. PICK i \in Place : i = pos[v]
    BY DEF Types, Users
  <1>2. PICK new : new = [slots EXCEPT ![0] = slots[i], ![i] = slots[0]]
    OBVIOUS
  <1>3. new \in Slots /\ Cardinality(Occupied(new)) <= Cardinality(Occupied(slots))
    BY <1>2, SlotsSwapped
  <1>4. slot' = [slot EXCEPT ![p] = new] /\ count' = [count EXCEPT ![p] = count[p]]
    BY <1>1, <1>2 DEF ChangeOwner, Types, Parties
  <1>5. Cardinality(Occupied(new)) <= count[p]
    <2>1. Cardinality(Occupied(slots)) \in Nat /\ Cardinality(Occupied(new)) \in Nat
      BY OccupiedFinite
    <2>2. count[p] \in 0 .. Capacity
      BY DEF Types, Parties
    <2> QED
      BY <1>3, <2>1, <2>2
  <1>6. Parties' /\ Roomy'
    BY <1>3, <1>4, <1>5, SlotSet DEF Types, Parties
  <1>7. pos' \in [User -> Place]
    BY <1>1, Places DEF ChangeOwner, Swapped, Types, Users
  <1> QED
    BY <1>6, <1>7

LEMMA HandOverTypes ==
    ASSUME Types, NEW t \in Thread, HandOver(t)
    PROVE  Types'
  <1>1. t \in Zone /\ task[t] \in Dealing /\ t # "sql"
    BY TaskReads, PartyAssumption DEF HandOver, At, Types
  <1>2. PICK u \in User, v \in User : u = task[t].me /\ v = task[t].with
    BY <1>1, TaskForms
  <1>3. CASE Crash
    BY <1>3, CrashTypes
  <1>4. CASE party[u] # NoOne /\ ~Crash
    <2>1. PICK p \in Party : p = party[u]
      BY <1>4 DEF Types, Users
    <2>2. /\ ChangeOwner(p, v, slot[p]) /\ Goes(t, NoTask)
          /\ UNCHANGED <<status, party, used, count, locks, crashed>>
      BY <1>2, <1>4, <2>1 DEF HandOver
    <2>3. slot[p] \in Slots /\ Cardinality(Occupied(slot[p])) <= count[p]
      BY DEF Types, Parties, Roomy
    <2>4. Parties' /\ Roomy' /\ pos' \in [User -> Place]
      BY <2>2, <2>3, ChangeOwnerTypes
    <2>5. Tasks'
      BY <2>2, TaskSet DEF TaskOf, Types
    <2> QED
      BY <2>2, <2>4, <2>5, TypesKept DEF Types, Users
  <1> QED
    BY <1>2, <1>3, <1>4 DEF HandOver

LEMMA DropTypes ==
    ASSUME Types, NEW u \in User, Drop(u)
    PROVE  Types'
  <1>1. Users'
    BY DEF Drop, Types, Users, Status
  <1> QED
    BY <1>1, TypesKept DEF Drop, Types

LEMMA SaveTypes ==
    ASSUME Types, NEW u \in User, Save(u)
    PROVE  Types'
  <1>1. Users'
    BY DEF Save, Types, Users, Status
  <1>2. Tasks'
    <2>1. CASE UNCHANGED task
      BY <2>1, TypesKept DEF Types
    <2>2. CASE /\ party[u] # NoOne
               /\ Goes("sql", [at |-> "lock", me |-> u, p |-> party[u], then |-> "gone"])
      <3>1. party[u] \in Party
        BY <2>2 DEF Types, Users
      <3>2. [at |-> "lock", me |-> u, p |-> party[u], then |-> "gone"] \in TaskOf("sql")
        BY <3>1 DEF TaskOf, Saving
      <3>3. "sql" \in Thread
        BY DEF Thread
      <3> QED
        BY <2>2, <3>2, <3>3, TaskSet DEF Types
    <2> QED
      BY <2>1, <2>2 DEF Save
  <1> QED
    BY <1>1, <1>2, TypesKept DEF Save, Types

\* The one that follows is in one of the places.
LEMMA FollowerFirst ==
    ASSUME NEW slots \in Slots, NEW n, NEW m \in 0 .. Capacity, Follower(slots, n, m) # {}
    PROVE  LET f == LeastOf(Follower(slots, n, m))
           IN  /\ f \in Place /\ f # 0 /\ f < m /\ n = 0
               /\ slots[f] # NoOne /\ slots[f].here
               /\ slots[f].user \in User /\ slots[f] = Here(slots[f].user)
  <1>1. PICK F : F = Follower(slots, n, m)
    OBVIOUS
  <1>2. /\ F \in SUBSET Nat /\ F # {}
        /\ \A i \in F : /\ i \in 1 .. m - 1 /\ n = 0
                        /\ slots[i] # NoOne /\ slots[i].here
    BY <1>1 DEF Follower
  <1>3. PICK f \in F : f = LeastOf(F)
    <2>1. \E i \in F : \A j \in F : i <= j
      BY <1>2, LeastNumber
    <2> QED
      BY <2>1 DEF LeastOf
  <1>4. f \in Place /\ f # 0 /\ f < m /\ n = 0 /\ slots[f] # NoOne /\ slots[f].here
    BY <1>2, Places
  <1>5. slots[f] \in Member
    BY <1>4 DEF Slots
  <1>6. slots[f].user \in User /\ slots[f] = Here(slots[f].user)
    BY <1>4, <1>5 DEF Member, Here
  <1> QED
    BY <1>1, <1>3, <1>4, <1>6

LEMMA OnDisconnectTypes ==
    ASSUME Types, OnDisconnect
    PROVE  Types'
  <1>1. "sql" \in Thread /\ task["sql"] \in Saving
    BY TaskReads DEF OnDisconnect, Types, Thread
  <1>2. PICK u \in User, p \in Party : u = task["sql"].me /\ p = task["sql"].p
    BY <1>1, TaskForms
  <1>3. PICK n \in Place : n = pos[u]
    BY DEF Types, Users
  <1>4. PICK slots : slots = Absent(slot[p], n)
    OBVIOUS
  <1>5. PICK follower : follower = Follower(slots, n, count[p])
    OBVIOUS
  <1>6. CASE Crash
    BY <1>6, CrashTypes
  <1>7. CASE ~Crash
    <2>1. slot[p][n] # NoOne
      BY <1>2, <1>3, <1>7 DEF OnDisconnect
    <2>2. slots \in Slots /\ Occupied(slots) = Occupied(slot[p])
      BY <1>4, <2>1, SlotsAbsent DEF Types, Parties
    <2>3. Cardinality(Occupied(slots)) <= count[p] /\ count[p] \in 0 .. Capacity
      BY <2>2 DEF Types, Roomy, Parties
    <2>4. slot' = [slot EXCEPT ![p] = slots] /\ UNCHANGED <<used, count>> => Parties' /\ Roomy'
      <3>1. UNCHANGED count => count' = [count EXCEPT ![p] = count[p]]
        BY DEF Types, Parties
      <3>2. UNCHANGED used => used' \subseteq Party
        BY DEF Types, Parties
      <3> QED
        BY <2>2, <2>3, <3>1, <3>2, SlotSet DEF Types
    <2>5. CASE n = 0 /\ follower = {}
      <3>1. /\ slot' = [slot EXCEPT ![p] = slots]
            /\ Goes("sql", [task["sql"] EXCEPT !.at = "delete"])
            /\ partyLock' = [partyLock EXCEPT ![p] = "sql"]
            /\ UNCHANGED <<users, used, count, poolLock, crashed>>
        BY <1>2, <1>3, <1>4, <1>5, <1>7, <2>5 DEF OnDisconnect
      <3>2. [task["sql"] EXCEPT !.at = "delete"] \in TaskOf("sql")
        BY <1>1, TaskForms DEF TaskOf
      <3>3. Tasks'
        BY <1>1, <3>1, <3>2, TaskSet DEF Types
      <3>4. Locks'
        BY <1>1, <3>1 DEF Types, Locks
      <3> QED
        BY <2>4, <3>1, <3>3, <3>4, TypesKept DEF Types
    <2>6. CASE ~ (n = 0 /\ follower = {})
      <3>1. /\ IF follower # {}
                  THEN ChangeOwner(p, slots[LeastOf(follower)].user, slots)
                  ELSE slot' = [slot EXCEPT ![p] = slots] /\ UNCHANGED pos
            /\ Goes("sql", NoTask)
            /\ status' = [status EXCEPT ![u] = "gone"]
            /\ UNCHANGED <<party, used, count, locks, crashed>>
        BY <1>2, <1>3, <1>4, <1>5, <1>7, <2>6 DEF OnDisconnect
      <3>2. Tasks'
        BY <1>1, <3>1, TaskSet DEF TaskOf, Types
      <3>3. status' \in [User -> Status]
        BY <3>1 DEF Types, Users, Status
      <3>4. Parties' /\ Roomy' /\ pos' \in [User -> Place]
        <4>1. CASE follower = {}
          BY <2>4, <3>1, <4>1 DEF Types, Users
        <4>2. CASE follower # {}
          <5>1. PICK v \in User : v = slots[LeastOf(follower)].user
            BY <1>5, <2>2, <2>3, <4>2, FollowerFirst
          <5> QED
            BY <2>2, <2>3, <3>1, <4>2, <5>1, ChangeOwnerTypes
        <4> QED
          BY <4>1, <4>2
      <3>5. Users'
        BY <3>1, <3>3, <3>4 DEF Types, Users
      <3> QED
        BY <3>1, <3>2, <3>4, <3>5, TypesKept DEF Types
    <2> QED
      BY <2>5, <2>6
  <1> QED
    BY <1>6, <1>7

LEMMA InitTypes == Init => Types
  <1> SUFFICES ASSUME Init PROVE Types
    OBVIOUS
  <1>1. Users
    BY Places DEF Init, Users, Status
  <1>2. PICK none : none = [i \in Place |-> NoOne]
    OBVIOUS
  <1>3. none \in Slots /\ Occupied(none) = {}
    BY <1>2 DEF Slots, Occupied
  <1>4. Parties
    BY <1>2, <1>3, Places DEF Init, Parties
  <1>5. Roomy
    <2>1. \A p \in Party : slot[p] = none /\ count[p] = 0
      BY <1>2 DEF Init
    <2>2. Cardinality(Occupied(none)) = 0
      BY <1>3, FS_EmptySet
    <2> QED
      BY <2>1, <2>2 DEF Roomy
  <1>6. Locks
    BY DEF Init, Locks
  <1>7. Tasks
    BY DEF Init, Tasks, TaskOf
  <1> QED
    BY <1>1, <1>4, <1>5, <1>6, <1>7 DEF Types

LEMMA NextTypes == Types /\ [Next]_vars => Types'
  <1> SUFFICES ASSUME Types, [Next]_vars PROVE Types'
    OBVIOUS
  <1>1. CASE UNCHANGED vars
    BY <1>1, TypesKept DEF vars, Types
  <1>2. ASSUME NEW u \in User, NEW v \in User,
               AcceptMake(u, v) \/ AcceptJoin(u, v) \/ Ban(u, v) \/ GiveOwner(u, v)
        PROVE  Types'
    BY <1>2, RequestTypes
  <1>3. ASSUME NEW u \in User, Leave(u) \/ Quit(u) \/ Drop(u) \/ Save(u) PROVE Types'
    BY <1>3, RequestTypes, DropTypes, SaveTypes
  <1>4. ASSUME NEW t \in Thread, Step(t) PROVE Types'
    BY <1>4, CreateTypes, CheckOwnerTypes, AddTypes, KickMemberTypes, SubTypes, DeleteTypes,
       HandOverTypes DEF Step
  <1>5. CASE OnDisconnect
    BY <1>5, OnDisconnectTypes
  <1> QED
    BY <1>1, <1>2, <1>3, <1>4, <1>5 DEF Next

LEMMA AlwaysTypes == Spec => []Types
  BY InitTypes, NextTypes, PTL DEF Spec

\* The types of users, parties, locks and tasks, wherever the users play: not even when
\* threads of several zones race does m_nMemberCNT become negative, or more than fits.
THEOREM TypeCorrect == Spec => []TypeOK
  <1>1. Types => TypeOK
    <2> SUFFICES ASSUME Types PROVE TypeOK
      OBVIOUS
    <2>1. ASSUME NEW t \in Thread
          PROVE  task[t].at \in
                    {"idle", "create", "make", "join", "addmake", "add", "ban", "sub", "count",
                     "delete", "clear", "owner", "lock"}
      <3>1. task[t] \in {NoTask} \cup Saving \cup Dealing \cup Leaving
        BY DEF Types, Tasks, TaskOf
      <3> QED
        BY <3>1 DEF NoTask, Saving, Dealing, Leaving
    <2> QED
      BY <2>1 DEF Types, Users, Parties, Locks, Status, Slots, TypeOK
  <1> QED
    BY <1>1, AlwaysTypes, PTL

-----------------------------------------------------------------------------
(***************************************************************************)
(* One zone: what a step has to show.                                      *)
(***************************************************************************)
\* What is known of a zone's thread that is in the middle of something.
LEMMA ZoneThread ==
    ASSUME Types, ZoneTasks, NEW t \in Zone, ~Idle(t)
    PROVE  /\ t \in Thread /\ t # "sql"
           /\ ZoneTask(t) /\ task[t].me \in User
           /\ task[t] \in Dealing \cup Leaving
  <1>1. t \in Thread /\ t # "sql"
    BY PartyAssumption DEF Thread
  <1>2. task[t] \in Dealing \cup Leaving
    BY <1>1, TaskReads DEF Types
  <1> QED
    BY <1>1, <1>2, TaskForms DEF ZoneTasks

\* No two threads of zones are.
LEMMA Alone ==
    ASSUME OneZone, Types, ZoneTasks, NEW t \in Zone, ~Idle(t), NEW o \in Zone, ~Idle(o)
    PROVE  o = t
  <1>1. task[t].me \in User /\ task[o].me \in User /\ ZoneTask(t) /\ ZoneTask(o)
    BY ZoneThread
  <1> QED
    BY <1>1 DEF ZoneTask, OneZone

LEMMA NobodyActs ==
    ASSUME OneZone, Types, ZoneTasks, NEW u \in User, CanAct(u), NEW o \in Zone
    PROVE  Idle(o)
  <1> SUFFICES ASSUME ~Idle(o) PROVE FALSE
    OBVIOUS
  <1>1. task[o].me \in User /\ ZoneTask(o)
    BY ZoneThread
  <1> QED
    BY <1>1 DEF ZoneTask, OneZone, CanAct

\* The one that is goes on, or is done.
LEMMA ZoneGoes ==
    ASSUME OneZone, Types, ZoneTasks, NEW t \in Zone, ~Idle(t), NEW x, Goes(t, x),
           x = NoTask \/ ZoneTask(t)'
    PROVE  ZoneTasks'
  <1>1. \A o \in Zone : o # t => Idle(o)
    BY Alone
  <1>2. t \in Thread /\ task = [o \in Thread |-> task[o]] /\ Zone \subseteq Thread
    BY DEF Types, Tasks, Thread
  <1>3. task'[t] = x /\ \A o \in Zone : o # t => task'[o] = task[o]
    BY <1>2 DEF Goes
  <1> QED
    BY <1>1, <1>3 DEF ZoneTasks, Idle

\* What the SQL thread has found holds as long as others change nothing of a party that
\* it holds, and give nobody that is cut off a place.
LEMMA SqlKept ==
    ASSUME Types, SqlTasks, task'["sql"] = task["sql"],
           \A u \in User : status[u] = "cut" =>
              status'[u] = "cut" /\ party'[u] \in {party[u], NoOne},
           \A p \in used : partyLock[p] = "sql" =>
              partyLock'[p] = "sql" /\ slot'[p] = slot[p] /\ p \in used',
           \A u \in User, p \in Party, i \in Place :
              status[u] = "cut" /\ slot'[p][i] = Here(u) =>
                 \E q \in Party, j \in Place : slot[q][j] = Here(u)
    PROVE  SqlTasks'
  <1> SUFFICES ASSUME ~Idle("sql")' PROVE SqlTask'
    BY DEF SqlTasks
  <1>1. SqlTask /\ ~Idle("sql")
    BY DEF SqlTasks, Idle
  <1>2. task["sql"].me \in User /\ task["sql"].p \in Party
    <2>1. task["sql"] \in Saving
      BY <1>1, TaskReads DEF Types, Thread
    <2> QED
      BY <2>1, TaskForms
  <1>3. /\ status'[task["sql"].me] = "cut"
        /\ party'[task["sql"].me] \in {task["sql"].p, NoOne}
    BY <1>1, <1>2 DEF SqlTask
  <1>4. ASSUME task["sql"].at \in {"delete", "clear"}
        PROVE  /\ task["sql"].p \in used'
               /\ partyLock'[task["sql"].p] = "sql"
               /\ \A i \in Place : ~IsHere(task["sql"].p, i)'
               /\ \A p \in Party, i \in Place : slot'[p][i] # Here(task["sql"].me)
    BY <1>1, <1>2, <1>4 DEF SqlTask, IsHere
  <1> QED
    BY <1>3, <1>4 DEF SqlTask

\* A party the zone's thread may change is not held by the SQL thread.
LEMMA NotSql ==
    ASSUME NEW t \in Zone, NEW p \in Party, Free(p, t)
    PROVE  partyLock[p] # "sql"
  BY PartyAssumption DEF Free

\* A party in use that has one member: only the thread of its maker, or of one who
\* deletes it, may forget it.
LEMMA ExactKept ==
    ASSUME Exact, NEW t \in Thread,
           \A o \in Thread : o # t => task'[o] = task[o],
           used' \subseteq used, \A p \in used' : count'[p] = count[p] \/ count'[p] >= 2,
           \A o \in Zone : o # t /\ At(o, "addmake") => party'[task[o].with] = party[task[o].with],
           \A p \in used' : At(t, "addmake") /\ party[task[t].with] = p =>
              count'[p] >= 2 \/ Making(p)' \/ Deleting(p)',
           \A p \in used' : task[t].at \in {"count", "delete", "clear"} /\ task[t].p = p =>
              count'[p] >= 2 \/ Making(p)' \/ Deleting(p)'
    PROVE  Exact'
  <1> SUFFICES ASSUME NEW p \in used' PROVE count'[p] >= 2 \/ Making(p)' \/ Deleting(p)'
    BY DEF Exact
  <1>1. p \in used /\ (count[p] >= 2 \/ Making(p) \/ Deleting(p))
    BY DEF Exact
  <1>2. CASE count[p] >= 2
    BY <1>2
  <1>3. CASE Making(p)
    <2>1. PICK o \in Zone : At(o, "addmake") /\ party[task[o].with] = p
      BY <1>3 DEF Making
    <2>2. CASE o = t
      BY <2>1, <2>2
    <2>3. CASE o # t
      <3>1. task'[o] = task[o] /\ party'[task[o].with] = p
        BY <2>1, <2>3 DEF Thread
      <3> QED
        BY <2>1, <3>1 DEF Making, At
    <2> QED
      BY <2>2, <2>3
  <1>4. CASE Deleting(p)
    <2>1. PICK o \in Thread : task[o].at \in {"count", "delete", "clear"} /\ task[o].p = p
      BY <1>4 DEF Deleting
    <2>2. CASE o = t
      BY <2>1, <2>2
    <2>3. CASE o # t
      BY <2>1, <2>3 DEF Deleting
    <2> QED
      BY <2>2, <2>3
  <1> QED
    BY <1>1, <1>2, <1>3, <1>4

\* Where places, parties and users stay as they are.
LEMMA PlacesKept ==
    /\ Counted /\ UNCHANGED parties => Counted'
    /\ Placed /\ UNCHANGED <<slot, party, pos>> => Placed'
  <1>1. Counted /\ UNCHANGED parties => Counted'
    BY DEF Counted, parties
  <1>2. Placed /\ UNCHANGED <<slot, party, pos>> => Placed'
    BY DEF Placed, IsHere
  <1> QED
    BY <1>1, <1>2

\* Whoever is taken out stays so.
LEMMA FoundKept ==
    ASSUME Found, UNCHANGED <<slot, party, pos>>,
           \A u \in User : TakenOut(u) => TakenOut(u)'
    PROVE  Found'
  BY DEF Found

LEMMA TakenOutKept ==
    ASSUME Types, task'["sql"] = task["sql"],
           \A u \in User : status[u] = "gone" => status'[u] = "gone"
    PROVE  \A u \in User : TakenOut(u) => TakenOut(u)'
  BY DEF TakenOut

LEMMA CrashZoned == Zoned /\ Crash => Zoned'
  BY DEF Zoned, Crash, users, parties, locks, Counted, Placed, Found, ZoneTasks, SqlTasks, Exact,
         IsHere, TakenOut, ZoneTask, SqlTask, Making, Deleting, At, Idle

-----------------------------------------------------------------------------
(***************************************************************************)
(* One zone: the invariant is kept when a packet begins to be handled.     *)
(***************************************************************************)
LEMMA BeginsZoned ==
    ASSUME OneZone, Types, Zoned, NEW u \in User, CanAct(u),
           NEW x \in Dealing \cup Leaving, x.me = u, Begins(u, x),
           x.at \notin {"addmake", "add"},
           x.at \in {"create", "make", "join", "owner"} => status[x.with] = "zone" /\ u # x.with,
           x.at \in {"create", "make"} => party[u] = NoOne,
           x.at = "create" => party[x.with] = NoOne,
           x.at = "owner" => party[u] = party[x.with]
    PROVE  Zoned'
  <1>1. PICK t \in Zone : t = Home[u] /\ t \in Thread /\ t # "sql"
    BY PartyAssumption DEF Thread
  <1>2. /\ task'[t] = x /\ \A o \in Thread : o # t => task'[o] = task[o]
        /\ UNCHANGED <<status, party, pos, used, slot, count, partyLock, poolLock, crashed>>
    BY <1>1 DEF Begins, Goes, Types, Tasks, users, parties, locks
  <1>3. Idle(t) /\ status[u] = "zone"
    BY <1>1 DEF CanAct
  <1>4. "sql" \in Thread /\ task'["sql"] = task["sql"]
    BY <1>1, <1>2 DEF Thread
  <1>5. Counted' /\ Placed'
    BY <1>2, PlacesKept DEF Zoned, parties
  <1>6. Found'
    BY <1>2, <1>4, TakenOutKept, FoundKept DEF Zoned
  <1>7. ZoneTask(t)'
    BY <1>1, <1>2, <1>3 DEF ZoneTask, At
  <1>8. ZoneTasks'
    <2>1. \A o \in Zone : Idle(o)
      BY NobodyActs DEF Zoned
    <2> QED
      BY <1>2, <1>7, <2>1 DEF ZoneTasks, Idle, Thread
  <1>9. SqlTasks'
    BY <1>2, <1>4, SqlKept DEF Zoned
  <1>10. Exact'
    <2>1. task[t].at = "idle"
      BY <1>1, <1>3, TaskReads DEF Types
    <2> QED
      BY <1>1, <1>2, <2>1, ExactKept DEF Zoned, At
  <1> QED
    BY <1>5, <1>6, <1>8, <1>9, <1>10 DEF Zoned

LEMMA RequestZoned ==
    ASSUME OneZone, Types, Zoned, NEW u \in User
    PROVE  /\ \A v \in User : AcceptMake(u, v) \/ AcceptJoin(u, v) \/ Ban(u, v) \/ GiveOwner(u, v)
                                  => Zoned'
           /\ Leave(u) => Zoned'
           /\ Quit(u) /\ party[u] # NoOne => Zoned'
  <1>1. ASSUME NEW v \in User, AcceptMake(u, v) PROVE Zoned'
    <2>1. PICK a \in {"create", "make"} :
             /\ Begins(u, [at |-> a, me |-> u, with |-> v])
             /\ a = "create" => party[v] = NoOne
      BY <1>1 DEF AcceptMake
    <2>2. PICK x \in Dealing : x = [at |-> a, me |-> u, with |-> v]
      BY TaskForms
    <2> QED
      BY <1>1, <2>1, <2>2, BeginsZoned DEF AcceptMake
  <1>2. ASSUME NEW v \in User, AcceptJoin(u, v) PROVE Zoned'
    <2>1. PICK x \in Dealing : x = [at |-> "join", me |-> u, with |-> v]
      BY TaskForms
    <2> QED
      BY <1>2, <2>1, BeginsZoned DEF AcceptJoin
  <1>3. ASSUME NEW v \in User, Ban(u, v) PROVE Zoned'
    <2>1. PICK x \in Dealing : x = [at |-> "ban", me |-> u, with |-> v]
      BY TaskForms
    <2> QED
      BY <1>3, <2>1, BeginsZoned DEF Ban
  <1>4. ASSUME NEW v \in User, GiveOwner(u, v) PROVE Zoned'
    <2>1. PICK x \in Dealing : x = [at |-> "owner", me |-> u, with |-> v]
      BY TaskForms
    <2> QED
      BY <1>4, <2>1, BeginsZoned DEF GiveOwner
  <1>5. ASSUME CanAct(u), party[u] # NoOne, NEW s \in {"zone", "quit"},
               Begins(u, Removal(u, u, party[u], pos[u], s))
        PROVE  Zoned'
    <2>1. party[u] \in Party /\ pos[u] \in Place
      BY <1>5 DEF Types, Users
    <2>2. PICK x \in Leaving : x = Removal(u, u, party[u], pos[u], s)
      BY <2>1, TaskForms
    <2>3. x.at = "sub" /\ x.me = u
      BY <2>2 DEF Removal
    <2> QED
      BY <1>5, <2>2, <2>3, BeginsZoned
  <1> QED
    BY <1>1, <1>2, <1>3, <1>4, <1>5 DEF Leave, Quit

\* A user goes without a task of its zone's thread.
LEMMA StatusZoned ==
    ASSUME OneZone, Types, Zoned, NEW u \in User
    PROVE  /\ Drop(u) => Zoned'
           /\ Quit(u) /\ party[u] = NoOne => Zoned'
  <1> SUFFICES ASSUME CanAct(u), NEW s \in {"cut", "quit"}, status' = [status EXCEPT ![u] = s],
                      UNCHANGED <<party, pos, parties, locks, task>>
               PROVE  Zoned'
    BY DEF Drop, Quit
  <1>1. Counted' /\ Placed'
    BY PlacesKept DEF Zoned, parties
  <1>2. status[u] = "zone" /\ \A v \in User : v # u => status'[v] = status[v]
    BY DEF CanAct, Types, Users
  <1>3. Found'
    <2>1. \A v \in User : status[v] = "gone" => status'[v] = "gone"
      BY <1>2
    <2> QED
      BY <2>1, TakenOutKept, FoundKept DEF Zoned, parties
  <1>4. ZoneTasks'
    <2>1. \A o \in Zone : Idle(o)
      BY NobodyActs DEF Zoned
    <2> QED
      BY <2>1 DEF ZoneTasks, Idle
  <1>5. SqlTasks'
    BY <1>2, SqlKept DEF Zoned, parties, locks
  <1>6. Exact'
    BY DEF Zoned, Exact, Making, Deleting, At, parties
  <1> QED
    BY <1>1, <1>3, <1>4, <1>5, <1>6 DEF Zoned

\* The thread of the zone goes on, and users and parties stay as they are.
LEMMA TaskZoned ==
    ASSUME OneZone, Types, Zoned, NEW t \in Zone, ~Idle(t), NEW x, Goes(t, x),
           x = NoTask \/ ZoneTask(t)',
           task[t].at \notin {"count", "delete", "clear"},
           At(t, "addmake") => \A p \in used : party[task[t].with] = p => count[p] >= 2,
           UNCHANGED <<users, parties>>,
           \A p \in Party : partyLock[p] = "sql" => partyLock'[p] = "sql"
    PROVE  Zoned'
  <1>1. t \in Thread /\ t # "sql" /\ "sql" \in Thread
    BY ZoneThread DEF Zoned, Thread
  <1>2. /\ \A o \in Thread : o # t => task'[o] = task[o]
        /\ task'["sql"] = task["sql"]
    BY <1>1 DEF Goes, Types, Tasks
  <1>3. UNCHANGED <<status, party, pos, used, slot, count>>
    BY DEF users, parties
  <1>4. Counted' /\ Placed'
    BY <1>3, PlacesKept DEF Zoned
  <1>5. Found'
    BY <1>2, <1>3, TakenOutKept, FoundKept DEF Zoned
  <1>6. ZoneTasks'
    BY ZoneGoes DEF Zoned
  <1>7. SqlTasks'
    <2>1. \A p \in used : partyLock[p] = "sql" =>
             partyLock'[p] = "sql" /\ slot'[p] = slot[p] /\ p \in used'
      BY <1>3 DEF Types, Parties
    <2> QED
      BY <1>2, <1>3, <2>1, SqlKept DEF Zoned
  <1>8. Exact'
    BY <1>1, <1>2, <1>3, ExactKept DEF Zoned
  <1> QED
    BY <1>4, <1>5, <1>6, <1>7, <1>8 DEF Zoned

LEMMA CreateZoned ==
    ASSUME OneZone, Types, Zoned, NEW t \in Thread, Create(t)
    PROVE  Zoned'
  <1>1. t \in Zone /\ task[t] \in Dealing /\ t # "sql" /\ ~Idle(t)
    BY TaskReads, PartyAssumption DEF Create, At, Types
  <1>2. PICK u \in User, v \in User : u = task[t].me /\ v = task[t].with
    BY <1>1, TaskForms
  <1>3. ZoneTask(t) /\ task[t].at = "create"
    BY <1>1 DEF Zoned, ZoneTasks, Create, At
  <1>4. /\ status[u] = "zone" /\ status[v] = "zone" /\ u # v
        /\ party[u] = NoOne /\ party[v] = NoOne
    BY <1>2, <1>3 DEF ZoneTask, At
  <1>5. /\ \A o \in Thread : o # t => task'[o] = task[o]
        /\ "sql" \in Thread /\ task'["sql"] = task["sql"]
    BY <1>1 DEF Create, Goes, Types, Tasks, Thread
  <1>6. CASE Goes(t, NoTask) /\ UNCHANGED <<users, parties>>
    BY <1>1, <1>3, <1>6, TaskZoned DEF Create, At, locks
  <1>7. ASSUME NEW p \in Party \ used,
               used' = used \cup {p},
               slot' = [slot EXCEPT ![p] = [i \in Place |-> IF i = 0 THEN Here(v) ELSE NoOne]],
               count' = [count EXCEPT ![p] = 1],
               party' = [party EXCEPT ![v] = p],
               pos' = [pos EXCEPT ![v] = 0],
               Goes(t, [task[t] EXCEPT !.at = "addmake"]),
               UNCHANGED status
        PROVE  Zoned'
    <2>1. /\ \A i \in Place : slot'[p][i] = IF i = 0 THEN Here(v) ELSE NoOne
          /\ \A q \in Party : q # p => slot'[q] = slot[q] /\ count'[q] = count[q]
          /\ count'[p] = 1
          /\ party'[v] = p /\ pos'[v] = 0
          /\ \A w \in User : w # v => party'[w] = party[w] /\ pos'[w] = pos[w]
      BY <1>7 DEF Types, Parties, Users
    <2>2. Here(v) # NoOne /\ Here(v).here /\ Here(v).user = v
      BY HereIs
    <2>3. \A q \in Party, i \in Place : IsHere(q, i) => q # p /\ slot[q][i].user # v
      BY <1>4, PartyAssumption DEF Zoned, Counted, Placed, IsHere
    <2>4. Counted'
      BY <1>7, <2>1, <2>2, Places DEF Zoned, Counted
    <2>5. Placed'
      <3> SUFFICES ASSUME NEW q \in Party, NEW i \in Place, IsHere(q, i)'
                   PROVE  party'[slot'[q][i].user] = q /\ pos'[slot'[q][i].user] = i
        BY DEF Placed
      <3>1. CASE q = p
        BY <2>1, <2>2, <3>1 DEF IsHere
      <3>2. CASE q # p
        <4>1. IsHere(q, i) /\ slot'[q][i] = slot[q][i]
          BY <2>1, <3>2 DEF IsHere
        <4>2. slot[q][i].user \in User
          BY <4>1 DEF IsHere, Types, Parties, Slots, Member
        <4> QED
          BY <2>1, <2>3, <4>1, <4>2 DEF Zoned, Placed
      <3> QED
        BY <3>1, <3>2
    <2>6. Found'
      <3> SUFFICES ASSUME NEW w \in User, party'[w] # NoOne, ~TakenOut(w)'
                   PROVE  slot'[party'[w]][pos'[w]] = Here(w)
        BY DEF Found
      <3>1. CASE w = v
        BY <2>1, <3>1, Places
      <3>2. CASE w # v
        <4>1. /\ party[w] # NoOne /\ ~TakenOut(w)
          BY <1>5, <1>7, <2>1, <3>2 DEF TakenOut
        <4>2. slot[party[w]][pos[w]] = Here(w) /\ party[w] \in Party /\ pos[w] \in Place
          BY <4>1 DEF Zoned, Found, Types, Users
        <4>3. party[w] # p
          BY <4>2, HereIs, <1>7 DEF Zoned, Counted
        <4> QED
          BY <2>1, <3>2, <4>2, <4>3
      <3> QED
        BY <3>1, <3>2
    <2>7. ZoneTasks'
      <3>1. PICK x : x = [task[t] EXCEPT !.at = "addmake"]
        OBVIOUS
      <3>2. x.at = "addmake" /\ x.me = u /\ x.with = v
        BY <1>1, <1>2, <3>1 DEF Dealing
      <3>3. task'[t] = x
        BY <1>7, <3>1 DEF Goes, Types, Tasks
      <3>4. ZoneTask(t)'
        BY <1>2, <1>3, <1>4, <1>7, <2>1, <3>2, <3>3 DEF ZoneTask, At
      <3> QED
        BY <1>1, <1>7, <3>4, ZoneGoes DEF Zoned
    <2>8. SqlTasks'
      <3>1. \A q \in used : partyLock[q] = "sql" =>
               partyLock'[q] = "sql" /\ slot'[q] = slot[q] /\ q \in used'
        BY <1>7, <2>1 DEF Create, locks, Types, Parties
      <3>2. \A w \in User : status[w] = "cut" => status'[w] = "cut" /\ party'[w] = party[w]
        BY <1>4, <1>7, <2>1
      <3>3. \A w \in User, q \in Party, i \in Place :
               status[w] = "cut" /\ slot'[q][i] = Here(w) =>
                  \E r \in Party, j \in Place : slot[r][j] = Here(w)
        <4> SUFFICES ASSUME NEW w \in User, NEW q \in Party, NEW i \in Place,
                            status[w] = "cut", slot'[q][i] = Here(w)
                     PROVE  slot[q][i] = Here(w)
          OBVIOUS
        <4>1. w # v /\ Here(w) # NoOne /\ Here(w).user = w
          BY <1>4, HereIs
        <4> QED
          BY <2>1, <2>2, <4>1
      <3> QED
        BY <1>5, <3>1, <3>2, <3>3, SqlKept DEF Zoned
    <2>9. Exact'
      <3>1. Making(p)'
        <4>1. At(t, "addmake")' /\ task'[t].with = v
          BY <1>1, <1>2, <1>7 DEF Goes, Types, Tasks, At, Dealing
        <4> QED
          BY <1>1, <2>1, <4>1 DEF Making
      <3>2. ASSUME NEW q \in used PROVE count'[q] >= 2 \/ Making(q)' \/ Deleting(q)'
        <4>1. q \in Party /\ q # p /\ count'[q] = count[q]
          BY <1>7, <2>1, <3>2 DEF Types, Parties
        <4>2. \A o \in Zone : ~At(o, "addmake")
          <5> SUFFICES ASSUME NEW o \in Zone, At(o, "addmake") PROVE FALSE
            OBVIOUS
          <5>1. o = t
            BY <1>1, Alone, TaskReads DEF Zoned, At, Thread, Types
          <5> QED
            BY <1>3, <5>1 DEF At
        <4>3. ~Making(q)
          BY <4>2 DEF Making
        <4>4. Deleting(q) => Deleting(q)'
          BY <1>3, <1>5 DEF Deleting
        <4> QED
          BY <3>2, <4>1, <4>3, <4>4 DEF Zoned, Exact
      <3> QED
        BY <1>7, <3>1, <3>2 DEF Exact
    <2> QED
      BY <2>4, <2>5, <2>6, <2>7, <2>8, <2>9 DEF Zoned
  <1> QED
    BY <1>2, <1>6, <1>7 DEF Create

LEMMA CheckOwnerZoned ==
    ASSUME OneZone, Types, Zoned, NEW t \in Thread, CheckOwner(t)
    PROVE  Zoned'
  <1>1. t \in Zone /\ task[t] \in Dealing /\ t # "sql" /\ ~Idle(t)
    BY TaskReads, PartyAssumption DEF CheckOwner, At, Types
  <1>2. PICK u \in User, v \in User : u = task[t].me /\ v = task[t].with
    BY <1>1, TaskForms
  <1>3. ZoneTask(t) /\ task[t].at \in {"make", "join"}
    BY <1>1 DEF Zoned, ZoneTasks, CheckOwner, At
  <1>4. CASE Crash
    BY <1>4, CrashZoned
  <1>5. CASE Goes(t, NoTask) /\ UNCHANGED <<users, parties, locks, crashed>>
    BY <1>1, <1>3, <1>5, TaskZoned DEF At, locks
  <1>6. CASE /\ party[u] = NoOne
             /\ \E a \in {"addmake", "add"} : Goes(t, [task[t] EXCEPT !.at = a])
             /\ UNCHANGED <<users, parties, locks, crashed>>
    <2>1. PICK a \in {"addmake", "add"} : Goes(t, [task[t] EXCEPT !.at = a])
      BY <1>6
    <2>2. PICK x : x = [task[t] EXCEPT !.at = a]
      OBVIOUS
    <2>3. x.at = a /\ x.me = u /\ x.with = v
      BY <1>1, <1>2, <2>2 DEF Dealing
    <2>4. task'[t] = x
      BY <2>1, <2>2 DEF Goes, Types, Tasks
    <2>5. ZoneTask(t)'
      BY <1>2, <1>3, <1>6, <2>3, <2>4 DEF ZoneTask, At, users
    <2> QED
      BY <1>1, <1>3, <1>6, <2>1, <2>5, TaskZoned DEF At, locks
  <1>7. At(t, "make") => party[u] = NoOne
    BY <1>2, <1>3 DEF ZoneTask, At
  <1> QED
    BY <1>2, <1>4, <1>5, <1>6, <1>7 DEF CheckOwner

LEMMA KickMemberZoned ==
    ASSUME OneZone, Types, Zoned, NEW t \in Thread, KickMember(t)
    PROVE  Zoned'
  <1>1. t \in Zone /\ task[t] \in Dealing /\ t # "sql" /\ ~Idle(t)
    BY TaskReads, PartyAssumption DEF KickMember, At, Types
  <1>2. PICK u \in User, v \in User : u = task[t].me /\ v = task[t].with
    BY <1>1, TaskForms
  <1>3. ZoneTask(t) /\ task[t].at = "ban"
    BY <1>1 DEF Zoned, ZoneTasks, KickMember, At
  <1>4. CASE Crash
    BY <1>4, CrashZoned
  <1>5. CASE party[u] # NoOne /\ ~Crash
    <2>1. PICK p \in Party : p = party[u]
      BY <1>5 DEF Types, Users
    <2>2. PICK found : found = {i \in 1 .. count[p] - 1 : slot[p][i] # NoOne /\ slot[p][i].user = v}
      OBVIOUS
    <2>3. Free(p, t) /\ UNCHANGED <<users, parties>>
      BY <1>2, <1>5, <2>1 DEF KickMember
    <2>4. CASE Goes(t, NoTask) /\ UNCHANGED partyLock
      BY <1>1, <1>3, <2>3, <2>4, TaskZoned DEF At
    <2>5. CASE /\ Goes(t, Removal(u, v, p, LeastOf(found), "zone"))
               /\ partyLock' = [partyLock EXCEPT ![p] = t]
      <3>1. PICK x : x = Removal(u, v, p, LeastOf(found), "zone")
        OBVIOUS
      <3>2. x.at = "sub" /\ x.me = u
        BY <3>1 DEF Removal
      <3>3. task'[t] = x
        BY <2>5, <3>1 DEF Goes, Types, Tasks
      <3>4. ZoneTask(t)'
        BY <1>2, <1>3, <2>3, <3>2, <3>3 DEF ZoneTask, At, users
      <3>5. \A q \in Party : partyLock[q] = "sql" => partyLock'[q] = "sql"
        BY <1>1, <2>3, <2>5, NotSql DEF Types, Locks
      <3> QED
        BY <1>1, <1>3, <2>3, <2>5, <3>4, <3>5, TaskZoned DEF At
    <2> QED
      BY <1>2, <1>5, <2>1, <2>2, <2>4, <2>5 DEF KickMember
  <1> QED
    BY <1>2, <1>4, <1>5 DEF KickMember

\* A user that is in its zone, and has a party, is in its place.
LEMMA InPlace ==
    ASSUME Types, Zoned, NEW u \in User, status[u] = "zone", party[u] # NoOne
    PROVE  /\ party[u] \in Party /\ party[u] \in used
           /\ pos[u] \in Place /\ pos[u] < count[party[u]]
           /\ slot[party[u]][pos[u]] = Here(u)
  <1>1. party[u] \in Party /\ pos[u] \in Place
    BY DEF Types, Users
  <1>2. ~TakenOut(u)
    <2> SUFFICES ASSUME task["sql"].at \in {"delete", "clear"}, task["sql"].me = u PROVE FALSE
      BY DEF TakenOut
    <2>1. ~Idle("sql")
      BY TaskReads DEF Types, Thread
    <2> QED
      BY <2>1 DEF Zoned, SqlTasks, SqlTask
  <1>3. slot[party[u]][pos[u]] = Here(u)
    BY <1>2 DEF Zoned, Found
  <1> QED
    BY <1>1, <1>3, HereIs DEF Zoned, Counted

\* A place that the zone's thread may take is not one of a party the SQL thread holds.
LEMMA SqlLeaves ==
    ASSUME Types, NEW t \in Zone, NEW p \in Party, Free(p, t),
           \A q \in Party : q # p => slot'[q] = slot[q], UNCHANGED <<used, partyLock>>
    PROVE  \A q \in used : partyLock[q] = "sql" =>
               partyLock'[q] = "sql" /\ slot'[q] = slot[q] /\ q \in used'
  <1>1. partyLock[p] # "sql"
    BY NotSql
  <1> QED
    BY <1>1 DEF Types, Parties

LEMMA AddZoned ==
    ASSUME OneZone, Types, Zoned, NEW t \in Thread, Add(t)
    PROVE  Zoned'
  <1>1. t \in Zone /\ task[t] \in Dealing /\ t # "sql" /\ ~Idle(t)
    BY TaskReads, PartyAssumption DEF Add, At, Types
  <1>2. PICK u \in User, v \in User : u = task[t].me /\ v = task[t].with
    BY <1>1, TaskForms
  <1>3. ZoneTask(t) /\ task[t].at \in {"add", "addmake"}
    BY <1>1 DEF Zoned, ZoneTasks, Add, At
  <1>4. status[u] = "zone" /\ status[v] = "zone" /\ u # v /\ party[u] = NoOne
    BY <1>2, <1>3 DEF ZoneTask, At
  <1>5. PICK x : x = IF At(t, "addmake") THEN [task[t] EXCEPT !.at = "join"] ELSE NoTask
    OBVIOUS
  <1>6. x = NoTask \/ (x.at = "join" /\ x.me = u /\ x.with = v)
    <2>1. CASE At(t, "addmake")
      BY <1>1, <1>2, <1>5, <2>1 DEF Dealing
    <2> QED
      BY <1>5, <2>1
  <1>7. CASE Crash
    BY <1>7, CrashZoned
  <1>8. CASE party[v] # NoOne /\ ~Crash
    <2>1. PICK p \in Party : p = party[v] /\ p \in used /\ pos[v] \in Place /\ pos[v] < count[p]
                             /\ slot[p][pos[v]] = Here(v)
      BY <1>4, <1>8, InPlace
    <2>2. Free(p, t) /\ Goes(t, x) /\ UNCHANGED <<locks, crashed>>
      BY <1>2, <1>5, <1>8, <2>1 DEF Add
    <2>3. /\ task'[t] = x /\ \A o \in Thread : o # t => task'[o] = task[o]
          /\ "sql" \in Thread /\ task'["sql"] = task["sql"]
      BY <1>1, <2>2 DEF Goes, Types, Tasks, Thread
    <2>4. status' = status => x = NoTask \/ ZoneTask(t)'
      BY <1>2, <1>3, <1>4, <1>6, <2>3 DEF ZoneTask, At
    <2>5. CASE ~HasRoom(p)
      <3>1. UNCHANGED <<users, parties>>
        BY <1>2, <1>8, <2>1, <2>5 DEF Add
      <3>2. count[p] >= 2
        BY <2>5, Places DEF HasRoom, Types, Parties
      <3>3. x = NoTask \/ ZoneTask(t)'
        BY <2>4, <3>1 DEF users
      <3> QED
        BY <1>1, <1>2, <1>3, <2>1, <2>2, <3>1, <3>2, <3>3, TaskZoned DEF At, locks
    <2>6. CASE HasRoom(p)
      <3>1. PICK c \in Place : c = count[p]
        BY <2>6, Places DEF HasRoom, Types, Parties
      <3>2. /\ slot' = [slot EXCEPT ![p][c] = Here(u)]
            /\ count' = [count EXCEPT ![p] = @ + 1]
            /\ party' = [party EXCEPT ![u] = p]
            /\ pos' = [pos EXCEPT ![u] = c]
            /\ UNCHANGED <<used, status, partyLock>>
        BY <1>2, <1>8, <2>1, <2>2, <2>6, <3>1 DEF Add, locks
      <3>3. /\ slot'[p][c] = Here(u)
            /\ \A i \in Place : i # c => slot'[p][i] = slot[p][i]
        <4>1. slot[p] \in Slots
          BY DEF Types, Parties
        <4> QED
          BY <3>2, <4>1 DEF Slots, Types, Parties
      <3>4. /\ \A q \in Party : q # p => slot'[q] = slot[q] /\ count'[q] = count[q]
            /\ c \in Nat /\ count'[p] = c + 1
            /\ party'[u] = p /\ pos'[u] = c
            /\ \A w \in User : w # u => party'[w] = party[w] /\ pos'[w] = pos[w]
        BY <3>1, <3>2, Places DEF Types, Parties, Users
      <3>5. Here(u) # NoOne /\ Here(u).here /\ Here(u).user = u
        BY HereIs
      <3>6. \A q \in Party, i \in Place : IsHere(q, i) => slot[q][i].user # u
        BY <1>4, PartyAssumption DEF Zoned, Placed
      <3>7. Counted'
        <4> SUFFICES ASSUME NEW q \in Party, NEW i \in Place
                     PROVE  slot'[q][i] # NoOne <=> q \in used /\ i < count'[q]
          BY <3>2 DEF Counted
        <4>1. CASE q = p
          BY <2>1, <3>1, <3>3, <3>4, <3>5, <4>1, Places DEF Zoned, Counted
        <4>2. CASE q # p
          BY <3>4, <4>2 DEF Zoned, Counted
        <4> QED
          BY <4>1, <4>2
      <3>8. Placed'
        <4> SUFFICES ASSUME NEW q \in Party, NEW i \in Place, IsHere(q, i)'
                     PROVE  party'[slot'[q][i].user] = q /\ pos'[slot'[q][i].user] = i
          BY DEF Placed
        <4>1. CASE q = p /\ i = c
          BY <3>3, <3>4, <3>5, <4>1
        <4>2. CASE ~ (q = p /\ i = c)
          <5>1. IsHere(q, i) /\ slot'[q][i] = slot[q][i]
            BY <3>3, <3>4, <4>2 DEF IsHere
          <5>2. slot[q][i].user \in User
            BY <5>1 DEF IsHere, Types, Parties, Slots, Member
          <5> QED
            BY <3>4, <3>6, <5>1, <5>2 DEF Zoned, Placed
        <4> QED
          BY <4>1, <4>2
      <3>9. Found'
        <4> SUFFICES ASSUME NEW w \in User, party'[w] # NoOne, ~TakenOut(w)'
                     PROVE  slot'[party'[w]][pos'[w]] = Here(w)
          BY DEF Found
        <4>1. CASE w = u
          BY <3>3, <3>4, <4>1
        <4>2. CASE w # u
          <5>1. party[w] # NoOne /\ ~TakenOut(w)
            BY <2>3, <3>2, <3>4, <4>2 DEF TakenOut
          <5>2. slot[party[w]][pos[w]] = Here(w) /\ party[w] \in Party /\ pos[w] \in Place
            BY <5>1 DEF Zoned, Found, Types, Users
          <5>3. pos[w] < count[party[w]]
            BY <5>2, HereIs DEF Zoned, Counted
          <5>4. ~ (party[w] = p /\ pos[w] = c)
            BY <3>1, <5>3, Places
          <5>5. slot'[party[w]][pos[w]] = slot[party[w]][pos[w]]
            BY <3>3, <3>4, <5>2, <5>4
          <5> QED
            BY <3>4, <4>2, <5>2, <5>5
        <4> QED
          BY <4>1, <4>2
      <3>10. ZoneTasks'
        BY <1>1, <2>2, <2>4, <3>2, ZoneGoes DEF Zoned
      <3>11. SqlTasks'
        <4>1. \A q \in used : partyLock[q] = "sql" =>
                 partyLock'[q] = "sql" /\ slot'[q] = slot[q] /\ q \in used'
          BY <1>1, <2>2, <3>2, <3>4, SqlLeaves
        <4>2. \A w \in User : status[w] = "cut" => status'[w] = "cut" /\ party'[w] = party[w]
          BY <1>4, <3>2, <3>4
        <4>3. \A w \in User, q \in Party, i \in Place :
                 status[w] = "cut" /\ slot'[q][i] = Here(w) =>
                    \E r \in Party, j \in Place : slot[r][j] = Here(w)
          <5> SUFFICES ASSUME NEW w \in User, NEW q \in Party, NEW i \in Place,
                              status[w] = "cut", slot'[q][i] = Here(w)
                       PROVE  slot[q][i] = Here(w)
            OBVIOUS
          <5>1. w # u /\ Here(w).user = w
            BY <1>4, HereIs
          <5> QED
            BY <3>3, <3>4, <3>5, <5>1
        <4> QED
          <5>1. SqlTasks /\ task'["sql"] = task["sql"]
            BY <2>3 DEF Zoned
          <5> QED
            BY <4>1, <4>2, <4>3, <5>1, SqlKept
      <3>12. Exact'
        <4>1. count'[p] >= 2
          <5>1. pos[v] \in Nat /\ pos[v] < c
            BY <2>1, <3>1, Places
          <5> QED
            BY <3>4, <5>1
        <4>2. \A q \in used' : count'[q] = count[q] \/ count'[q] >= 2
          BY <3>2, <3>4, <4>1 DEF Types, Parties
        <4>3. \A o \in Zone : o # t => ~At(o, "addmake")
          <5> SUFFICES ASSUME NEW o \in Zone, At(o, "addmake") PROVE o = t
            OBVIOUS
          <5>1. ~Idle(o)
            BY TaskReads DEF At, Thread, Types
          <5> QED
            BY <1>1, <5>1, Alone DEF Zoned
        <4> QED
          BY <1>2, <1>3, <2>1, <2>3, <3>2, <4>1, <4>2, <4>3, ExactKept DEF Zoned, At
      <3> QED
        BY <3>7, <3>8, <3>9, <3>10, <3>11, <3>12 DEF Zoned
    <2> QED
      BY <2>5, <2>6
  <1> QED
    BY <1>2, <1>7, <1>8 DEF Add

-----------------------------------------------------------------------------
(***************************************************************************)
(* One zone: a new owner.                                                  *)
(***************************************************************************)
\* Two members change places, and those who are here know it.
LEMMA OwnerChanged ==
    ASSUME Types, NEW p \in Party, NEW slots \in Slots, slots[0] # NoOne,
           NEW v \in User, slots[pos[v]] = Here(v),
           \A j \in Place : slots[j] # NoOne /\ slots[j].here => pos[slots[j].user] = j,
           ChangeOwner(p, v, slots)
    PROVE  /\ \A q \in Party : q # p => slot'[q] = slot[q]
           /\ \A j \in Place : slot'[p][j] # NoOne <=> slots[j] # NoOne
           /\ \A j \in Place : \E k \in Place : slot'[p][j] = slots[k]
           /\ \A j \in Place : slot'[p][j] # NoOne /\ slot'[p][j].here =>
                                  pos'[slot'[p][j].user] = j
           /\ \A w \in User : IF slots[pos[w]] = Here(w) THEN slot'[p][pos'[w]] = Here(w)
                              ELSE pos'[w] = pos[w]
  <1>1. PICK i \in Place : i = pos[v]
    BY DEF Types, Users
  <1>2. PICK new : new = [slots EXCEPT ![0] = slots[i], ![i] = slots[0]]
    OBVIOUS
  <1>3. \A j \in Place : new[j] = IF j = i THEN slots[0] ELSE IF j = 0 THEN slots[i] ELSE slots[j]
    BY <1>2, Places DEF Slots
  <1>4. slot' = [slot EXCEPT ![p] = new] /\ pos' = Swapped(p, v, slots)
    BY <1>1, <1>2 DEF ChangeOwner
  <1>5. slot'[p] = new /\ \A q \in Party : q # p => slot'[q] = slot[q]
    BY <1>4 DEF Types, Parties
  <1>6. Here(v) # NoOne /\ Here(v).here /\ Here(v).user = v
    BY HereIs
  <1>7. \A w \in User : Here(w) # NoOne /\ Here(w).here /\ Here(w).user = w
    BY HereIs
  <1>8. \A j \in Place : new[j] # NoOne <=> slots[j] # NoOne
    BY <1>1, <1>3, <1>6, Places
  <1>9. \A j \in Place : \E k \in Place : new[j] = slots[k]
    BY <1>1, <1>3, Places
  <1>10. CASE slots[0].here
    <2>1. PICK h \in User : h = slots[0].user
      BY Places DEF Slots, Member
    <2>2. slots[0] = Here(h) /\ pos[h] = 0
      BY <1>10, <2>1, Places DEF Slots, Member, Here
    <2>3. pos' = [pos EXCEPT ![h] = i, ![v] = 0]
      BY <1>1, <1>4, <1>10, <2>1 DEF Swapped
    <2>4. \A w \in User : pos'[w] = IF w = v THEN 0 ELSE IF w = h THEN i ELSE pos[w]
      BY <2>3, Places DEF Types, Users
    <2>5. \A w \in User : slots[0] = Here(w) => w = h
      BY <1>7, <2>1
    <2>6. \A w \in User : slots[i] = Here(w) => w = v
      BY <1>1, <1>6, <1>7
    <2>7. ASSUME NEW j \in Place, new[j] # NoOne, new[j].here PROVE pos'[new[j].user] = j
      <3>1. CASE j = i
        <4>1. new[j] = Here(h) /\ (h = v => i = 0)
          BY <1>1, <1>3, <2>2, <3>1
        <4> QED
          BY <1>7, <2>4, <3>1, <4>1
      <3>2. CASE j # i /\ j = 0
        BY <1>1, <1>3, <1>6, <2>4, <3>2
      <3>3. CASE j # i /\ j # 0
        <4>1. new[j] = slots[j] /\ slots[j].user \in User
          BY <1>3, <2>7, <3>3 DEF Slots, Member
        <4>2. pos[slots[j].user] = j
          BY <2>7, <4>1
        <4> QED
          BY <1>1, <2>2, <2>4, <3>3, <4>1, <4>2
      <3> QED
        BY <3>1, <3>2, <3>3
    <2>8. ASSUME NEW w \in User
          PROVE  IF slots[pos[w]] = Here(w) THEN new[pos'[w]] = Here(w) ELSE pos'[w] = pos[w]
      <3>0. pos[w] \in Place
        BY DEF Types, Users
      <3>1. CASE w = v
        BY <1>1, <1>3, <2>2, <2>4, <3>1, Places
      <3>2. CASE w # v /\ w = h
        BY <1>3, <2>2, <2>4, <3>2
      <3>3. CASE w # v /\ w # h
        <4>1. pos'[w] = pos[w]
          BY <2>4, <3>3
        <4>2. slots[pos[w]] = Here(w) => pos[w] # i /\ pos[w] # 0
          BY <2>5, <2>6, <3>3
        <4> QED
          BY <1>3, <3>0, <4>1, <4>2
      <3> QED
        BY <3>1, <3>2, <3>3
    <2> QED
      BY <1>5, <1>8, <1>9, <2>7, <2>8
  <1>11. CASE ~slots[0].here
    <2>1. i # 0
      BY <1>1, <1>6, <1>11
    <2>2. pos' = [pos EXCEPT ![v] = 0]
      BY <1>4, <1>11 DEF Swapped
    <2>3. \A w \in User : pos'[w] = IF w = v THEN 0 ELSE pos[w]
      BY <2>2, Places DEF Types, Users
    <2>4. ASSUME NEW j \in Place, new[j] # NoOne, new[j].here PROVE pos'[new[j].user] = j
      <3>1. j # i
        BY <1>3, <1>11, <2>4
      <3>2. CASE j = 0
        BY <1>1, <1>3, <1>6, <2>1, <2>3, <3>2, Places
      <3>3. CASE j # 0
        <4>1. new[j] = slots[j] /\ slots[j].user \in User
          BY <1>3, <2>4, <3>1, <3>3 DEF Slots, Member
        <4>2. pos[slots[j].user] = j
          BY <2>4, <4>1
        <4> QED
          BY <1>1, <2>3, <3>1, <4>1, <4>2
      <3> QED
        BY <3>2, <3>3
    <2>5. ASSUME NEW w \in User
          PROVE  IF slots[pos[w]] = Here(w) THEN new[pos'[w]] = Here(w) ELSE pos'[w] = pos[w]
      <3>1. pos[w] \in Place
        BY DEF Types, Users
      <3>2. CASE w = v
        BY <1>1, <1>3, <2>1, <2>3, <3>2, Places
      <3>3. CASE w # v
        <4>1. pos'[w] = pos[w]
          BY <2>3, <3>3
        <4>2. slots[pos[w]] = Here(w) => pos[w] # i /\ pos[w] # 0
          BY <1>1, <1>6, <1>7, <1>11, <3>3
        <4> QED
          BY <1>3, <3>1, <4>1, <4>2
      <3> QED
        BY <3>2, <3>3
    <2> QED
      BY <1>5, <1>8, <1>9, <2>4, <2>5
  <1> QED
    BY <1>10, <1>11

LEMMA HandOverZoned ==
    ASSUME OneZone, Types, Zoned, NEW t \in Thread, HandOver(t)
    PROVE  Zoned'
  <1>1. t \in Zone /\ task[t] \in Dealing /\ t # "sql" /\ ~Idle(t)
    BY TaskReads, PartyAssumption DEF HandOver, At, Types
  <1>2. PICK u \in User, v \in User : u = task[t].me /\ v = task[t].with
    BY <1>1, TaskForms
  <1>3. ZoneTask(t) /\ task[t].at = "owner"
    BY <1>1 DEF Zoned, ZoneTasks, HandOver, At
  <1>4. status[v] = "zone" /\ party[u] = party[v]
    BY <1>2, <1>3 DEF ZoneTask, At
  <1>5. CASE Crash
    BY <1>5, CrashZoned
  <1>6. CASE party[u] # NoOne /\ ~Crash
    <2>1. PICK p \in Party : p = party[v] /\ p \in used /\ pos[v] \in Place /\ pos[v] < count[p]
                             /\ slot[p][pos[v]] = Here(v)
      BY <1>4, <1>6, InPlace
    <2>2. /\ Free(p, t) /\ ChangeOwner(p, v, slot[p]) /\ Goes(t, NoTask)
          /\ UNCHANGED <<status, party, used, count, partyLock>>
      BY <1>2, <1>4, <1>6, <2>1 DEF HandOver, locks
    <2>3. /\ task'[t] = NoTask /\ \A o \in Thread : o # t => task'[o] = task[o]
          /\ "sql" \in Thread /\ task'["sql"] = task["sql"]
      BY <1>1, <2>2 DEF Goes, Types, Tasks, Thread
    <2>4. slot[p] \in Slots /\ slot[p][0] # NoOne
      <3>1. 0 < count[p]
        BY <2>1, Places DEF Types, Parties
      <3> QED
        BY <2>1, <3>1, Places DEF Zoned, Counted, Types, Parties
    <2>5. \A j \in Place : slot[p][j] # NoOne /\ slot[p][j].here => pos[slot[p][j].user] = j
      BY DEF Zoned, Placed, IsHere
    <2>6. /\ \A q \in Party : q # p => slot'[q] = slot[q]
          /\ \A j \in Place : slot'[p][j] # NoOne <=> slot[p][j] # NoOne
          /\ \A j \in Place : \E k \in Place : slot'[p][j] = slot[p][k]
          /\ \A j \in Place : slot'[p][j] # NoOne /\ slot'[p][j].here => pos'[slot'[p][j].user] = j
          /\ \A w \in User : IF slot[p][pos[w]] = Here(w) THEN slot'[p][pos'[w]] = Here(w)
                             ELSE pos'[w] = pos[w]
      BY <2>1, <2>2, <2>4, <2>5, OwnerChanged
    <2>7. Counted'
      <3> SUFFICES ASSUME NEW q \in Party, NEW j \in Place
                   PROVE  slot'[q][j] # NoOne <=> q \in used /\ j < count[q]
        BY <2>2 DEF Counted
      <3> QED
        BY <2>6 DEF Zoned, Counted
    <2>8. Placed'
      <3> SUFFICES ASSUME NEW q \in Party, NEW j \in Place, IsHere(q, j)'
                   PROVE  party[slot'[q][j].user] = q /\ pos'[slot'[q][j].user] = j
        BY <2>2 DEF Placed
      <3>1. CASE q = p
        BY <2>6, <3>1 DEF Zoned, Placed, IsHere
      <3>2. CASE q # p
        <4>1. IsHere(q, j) /\ slot'[q][j] = slot[q][j]
          BY <2>6, <3>2 DEF IsHere
        <4>2. PICK w \in User : w = slot[q][j].user
          BY <4>1 DEF IsHere, Types, Parties, Slots, Member
        <4>3. party[w] = q /\ pos[w] = j
          BY <4>1, <4>2 DEF Zoned, Placed
        <4>4. slot[p][pos[w]] # Here(w)
          <5> SUFFICES ASSUME slot[p][pos[w]] = Here(w) PROVE FALSE
            OBVIOUS
          <5>1. IsHere(p, j) /\ slot[p][j].user = w
            BY <4>3, HereIs DEF IsHere
          <5> QED
            BY <3>2, <4>3, <5>1 DEF Zoned, Placed
        <4> QED
          BY <2>6, <4>1, <4>2, <4>3, <4>4
      <3> QED
        BY <3>1, <3>2
    <2>9. Found'
      <3> SUFFICES ASSUME NEW w \in User, party[w] # NoOne, ~TakenOut(w)'
                   PROVE  slot'[party[w]][pos'[w]] = Here(w)
        BY <2>2 DEF Found
      <3>1. slot[party[w]][pos[w]] = Here(w) /\ party[w] \in Party /\ pos[w] \in Place
        BY <2>2, <2>3 DEF TakenOut, Zoned, Found, Types, Users
      <3>2. CASE party[w] = p
        BY <2>6, <3>1, <3>2
      <3>3. CASE party[w] # p
        <4>1. slot[p][pos[w]] # Here(w)
          <5> SUFFICES ASSUME slot[p][pos[w]] = Here(w) PROVE FALSE
            OBVIOUS
          <5>1. IsHere(p, pos[w]) /\ slot[p][pos[w]].user = w
            BY HereIs DEF IsHere
          <5> QED
            BY <3>1, <3>3, <5>1 DEF Zoned, Placed
        <4> QED
          BY <2>6, <3>1, <3>3, <4>1
      <3> QED
        BY <3>2, <3>3
    <2>10. ZoneTasks'
      BY <1>1, <2>2, ZoneGoes DEF Zoned
    <2>11. SqlTasks'
      <3>1. \A q \in used : partyLock[q] = "sql" =>
               partyLock'[q] = "sql" /\ slot'[q] = slot[q] /\ q \in used'
        BY <1>1, <2>2, <2>6, SqlLeaves
      <3>2. \A w \in User, q \in Party, j \in Place :
               status[w] = "cut" /\ slot'[q][j] = Here(w) =>
                  \E r \in Party, k \in Place : slot[r][k] = Here(w)
        BY <2>6
      <3>3. SqlTasks
        BY DEF Zoned
      <3> QED
        BY <2>2, <2>3, <3>1, <3>2, <3>3, SqlKept
    <2>12. Exact'
      BY <1>3, <2>2, <2>3, ExactKept DEF Zoned, At
    <2> QED
      BY <2>7, <2>8, <2>9, <2>10, <2>11, <2>12 DEF Zoned
  <1> QED
    BY <1>2, <1>5, <1>6 DEF HandOver

-----------------------------------------------------------------------------
(***************************************************************************)
(* One zone: the SQL thread.                                               *)
(***************************************************************************)
LEMMA SaveZoned ==
    ASSUME OneZone, Types, Zoned, NEW u \in User, Save(u)
    PROVE  Zoned'
  <1>1. "sql" \in Thread /\ Idle("sql") /\ status[u] \in {"cut", "quit"}
    BY DEF Save, Thread
  <1>2. UNCHANGED <<party, pos, used, slot, count, partyLock>>
    BY DEF Save, parties, locks
  <1>3. Counted' /\ Placed'
    BY <1>2, PlacesKept DEF Zoned, parties
  <1>4. task["sql"].at = "idle"
    BY <1>1, TaskReads DEF Types
  <1>5. CASE status' = [status EXCEPT ![u] = "gone"] /\ UNCHANGED task
    <2>1. status'[u] = "gone" /\ \A w \in User : w # u => status'[w] = status[w]
      BY <1>5 DEF Types, Users
    <2>2. Found'
      BY <1>2, <1>5, <2>1 DEF Zoned, Found, TakenOut
    <2>3. ZoneTasks'
      <3> SUFFICES ASSUME NEW t \in Zone, ~Idle(t) PROVE ZoneTask(t)'
        BY <1>5 DEF ZoneTasks, Idle
      <3>1. ZoneTask(t) /\ task[t].me \in User /\ task[t] \in Dealing \cup Leaving
        BY ZoneThread DEF Zoned
      <3>2. task[t].at \in {"create", "make", "join", "addmake", "add", "owner"} =>
               task[t].with \in User
        BY <3>1, TaskForms DEF Leaving
      <3>3. status'[task[t].me] = "zone"
        BY <1>1, <2>1, <3>1 DEF ZoneTask
      <3>4. task[t].at \in {"create", "make", "join", "addmake", "add", "owner"} =>
               status'[task[t].with] = "zone"
        BY <1>1, <2>1, <3>1, <3>2 DEF ZoneTask
      <3> QED
        BY <1>2, <1>5, <3>1, <3>3, <3>4 DEF ZoneTask, At
    <2>4. SqlTasks'
      BY <1>1, <1>5 DEF SqlTasks, Idle
    <2>5. Exact'
      BY <1>2, <1>5 DEF Zoned, Exact, Making, Deleting, At
    <2> QED
      BY <1>3, <2>2, <2>3, <2>4, <2>5 DEF Zoned
  <1>6. ASSUME status[u] = "cut", UNCHANGED status,
               Goes("sql", [at |-> "lock", me |-> u, p |-> party[u], then |-> "gone"])
        PROVE  Zoned'
    <2>1. PICK x : x = [at |-> "lock", me |-> u, p |-> party[u], then |-> "gone"]
      OBVIOUS
    <2>2. x.at = "lock" /\ x.me = u /\ x.p = party[u]
      BY <2>1
    <2>3. task'["sql"] = x /\ \A o \in Thread : o # "sql" => task'[o] = task[o]
      BY <1>1, <1>6, <2>1 DEF Goes, Types, Tasks
    <2>4. Found'
      BY <1>2, <1>4, <1>6, <2>2, <2>3 DEF Zoned, Found, TakenOut
    <2>5. ZoneTasks'
      <3>1. \A t \in Zone : task'[t] = task[t]
        BY <2>3, PartyAssumption DEF Thread
      <3> QED
        BY <1>2, <1>6, <3>1 DEF Zoned, ZoneTasks, ZoneTask, At, Idle
    <2>6. SqlTasks'
      BY <1>2, <1>6, <2>2, <2>3 DEF SqlTasks, SqlTask
    <2>7. Exact'
      <3>1. \A o \in Zone : o # "sql"
        BY PartyAssumption
      <3> QED
        BY <1>1, <1>2, <1>4, <2>3, <3>1, ExactKept DEF Zoned, At
    <2> QED
      BY <1>3, <2>4, <2>5, <2>6, <2>7 DEF Zoned
  <1> QED
    BY <1>1, <1>5, <1>6 DEF Save

LEMMA OnDisconnectZoned ==
    ASSUME OneZone, Types, Zoned, OnDisconnect
    PROVE  /\ Zoned'
           /\ \/ Crash
              \/ \A q \in Party, j \in Place : IsHere(q, j)' =>
                    /\ \E k \in Place : slot'[q][j] = slot[q][k]
                    /\ slot'[q][j].user # task["sql"].me
  <1>1. "sql" \in Thread /\ ~Idle("sql") /\ task["sql"].at = "lock" /\ task["sql"] \in Saving
    BY TaskReads DEF OnDisconnect, At, Types, Thread
  <1>2. PICK u \in User, p \in Party : u = task["sql"].me /\ p = task["sql"].p
    BY <1>1, TaskForms
  <1>3. PICK n \in Place : n = pos[u]
    BY DEF Types, Users
  <1>4. status[u] = "cut" /\ party[u] \in {p, NoOne}
    BY <1>1, <1>2 DEF Zoned, SqlTasks, SqlTask
  <1>5. CASE Crash
    BY <1>5, CrashZoned
  <1>6. CASE party[u] # NoOne /\ ~Crash
    <2>1. party[u] = p /\ slot[p][n] = Here(u)
      <3>1. party[u] = p
        BY <1>4, <1>6
      <3>2. ~TakenOut(u)
        BY <1>1, <1>4 DEF TakenOut
      <3> QED
        BY <1>3, <1>6, <3>1, <3>2 DEF Zoned, Found
    <2>2. Here(u) # NoOne /\ \A w \in User : /\ Here(w) # NoOne
                                             /\ Here(w).here /\ Here(w).user = w
      BY HereIs
    <2>3. p \in used /\ n < count[p] /\ slot[p] \in Slots
      BY <2>1, <2>2 DEF Zoned, Counted, Types, Parties
    <2>4. PICK slots \in Slots :
             /\ slots = Absent(slot[p], n)
             /\ \A j \in Place : slots[j] # NoOne <=> slot[p][j] # NoOne
             /\ slots[n] = [user |-> u, here |-> FALSE]
             /\ \A j \in Place : j # n => slots[j] = slot[p][j]
      <3>1. PICK slots : slots = Absent(slot[p], n)
        OBVIOUS
      <3>2. /\ slots \in Slots /\ Occupied(slots) = Occupied(slot[p])
            /\ slots[n] = [user |-> slot[p][n].user, here |-> FALSE]
            /\ \A i \in Place : i # n => slots[i] = slot[p][i]
        <4>1. slot[p][n] # NoOne
          BY <2>1, <2>2
        <4>2. /\ Absent(slot[p], n) \in Slots
              /\ Occupied(Absent(slot[p], n)) = Occupied(slot[p])
              /\ Absent(slot[p], n)[n] = [user |-> slot[p][n].user, here |-> FALSE]
              /\ \A i \in Place : i # n => Absent(slot[p], n)[i] = slot[p][i]
          BY <2>3, <4>1, SlotsAbsent
        <4> QED
          BY <3>1, <4>2
      <3>3. \A j \in Place : slots[j] # NoOne <=> slot[p][j] # NoOne
        BY <3>2 DEF Occupied
      <3>4. slot[p][n].user = u
        BY <2>1, <2>2
      <3>5. slots[n] = [user |-> u, here |-> FALSE]
        BY <3>2, <3>4
      <3> QED
        BY <3>1, <3>2, <3>3, <3>5
    <2>5. ~slots[n].here /\ \A j \in Place, w \in User : slots[j] = Here(w) => slot[p][j] = Here(w)
      BY <2>2, <2>4
    <2>6. \A j \in Place : slots[j] # NoOne /\ slots[j].here =>
             /\ j # n /\ slots[j] = slot[p][j]
             /\ pos[slots[j].user] = j /\ party[slots[j].user] = p
      <3> SUFFICES ASSUME NEW j \in Place, slots[j] # NoOne, slots[j].here
                   PROVE  /\ j # n /\ slots[j] = slot[p][j]
                          /\ pos[slots[j].user] = j /\ party[slots[j].user] = p
        OBVIOUS
      <3>1. j # n /\ slots[j] = slot[p][j]
        BY <2>4, <2>5
      <3>2. IsHere(p, j)
        BY <3>1 DEF IsHere
      <3> QED
        BY <3>1, <3>2 DEF Zoned, Placed
    <2>7. PICK follower : follower = Follower(slots, n, count[p])
      OBVIOUS
    <2>8. /\ Free(p, "sql")
          /\ \/ /\ n = 0 /\ follower = {}
                /\ slot' = [slot EXCEPT ![p] = slots]
                /\ Goes("sql", [task["sql"] EXCEPT !.at = "delete"])
                /\ partyLock' = [partyLock EXCEPT ![p] = "sql"]
                /\ UNCHANGED <<users, used, count, poolLock, crashed>>
             \/ /\ IF follower # {} THEN ChangeOwner(p, slots[LeastOf(follower)].user, slots)
                   ELSE slot' = [slot EXCEPT ![p] = slots] /\ UNCHANGED pos
                /\ Goes("sql", NoTask)
                /\ status' = [status EXCEPT ![u] = "gone"]
                /\ UNCHANGED <<party, used, count, locks, crashed>>
      BY <1>2, <1>3, <1>6, <2>1, <2>2, <2>4, <2>7 DEF OnDisconnect
    <2>9. UNCHANGED <<party, used, count>>
      BY <2>8 DEF users
    <2>10. /\ \A q \in Party : q # p => slot'[q] = slot[q]
           /\ \A j \in Place : slot'[p][j] # NoOne <=> slots[j] # NoOne
           /\ \A j \in Place : \E k \in Place : slot'[p][j] = slots[k]
           /\ \A j \in Place : slot'[p][j] # NoOne /\ slot'[p][j].here =>
                                  pos'[slot'[p][j].user] = j
           /\ \A w \in User : IF slots[pos[w]] = Here(w) THEN slot'[p][pos'[w]] = Here(w)
                              ELSE pos'[w] = pos[w]
      <3>1. CASE slot' = [slot EXCEPT ![p] = slots] /\ UNCHANGED pos
        <4>1. slot'[p] = slots /\ \A q \in Party : q # p => slot'[q] = slot[q]
          BY <3>1 DEF Types, Parties
        <4> QED
          BY <2>6, <3>1, <4>1
      <3>2. CASE follower # {} /\ ChangeOwner(p, slots[LeastOf(follower)].user, slots)
        <4>1. PICK f \in Place : f = LeastOf(follower) /\ slots[f] # NoOne /\ slots[f].here
          BY <2>3, <2>7, <3>2, FollowerFirst DEF Types, Parties
        <4>2. PICK v \in User : v = slots[f].user
          BY <4>1 DEF Slots, Member
        <4>3. slots[f] = Here(v) /\ pos[v] = f
          BY <2>6, <4>1, <4>2 DEF Slots, Member, Here
        <4>4. slots[0] # NoOne
          BY <2>3, <2>4, Places DEF Zoned, Counted, Types, Parties
        <4>5. ChangeOwner(p, v, slots) /\ slots[pos[v]] = Here(v)
          BY <3>2, <4>1, <4>2, <4>3
        <4>6. \A j \in Place : slots[j] # NoOne /\ slots[j].here => pos[slots[j].user] = j
          BY <2>6
        <4> QED
          BY <4>4, <4>5, <4>6, OwnerChanged
      <3> QED
        BY <2>8, <3>1, <3>2 DEF users
    <2>11. Counted'
      <3> SUFFICES ASSUME NEW q \in Party, NEW j \in Place
                   PROVE  slot'[q][j] # NoOne <=> q \in used /\ j < count[q]
        BY <2>9 DEF Counted
      <3> QED
        BY <2>4, <2>10 DEF Zoned, Counted
    <2>12. Placed'
      <3> SUFFICES ASSUME NEW q \in Party, NEW j \in Place, IsHere(q, j)'
                   PROVE  party[slot'[q][j].user] = q /\ pos'[slot'[q][j].user] = j
        BY <2>9 DEF Placed
      <3>1. CASE q = p
        BY <2>6, <2>10, <3>1 DEF IsHere
      <3>2. CASE q # p
        <4>1. IsHere(q, j) /\ slot'[q][j] = slot[q][j]
          BY <2>10, <3>2 DEF IsHere
        <4>2. PICK w \in User : w = slot[q][j].user
          BY <4>1 DEF IsHere, Types, Parties, Slots, Member
        <4>3. party[w] = q /\ pos[w] = j
          BY <4>1, <4>2 DEF Zoned, Placed
        <4>4. slots[pos[w]] # Here(w)
          BY <2>2, <2>6, <3>2, <4>3
        <4> QED
          BY <2>10, <4>1, <4>2, <4>3, <4>4
      <3> QED
        BY <3>1, <3>2
    <2>13. TakenOut(u)' /\ \A w \in User : TakenOut(w) => TakenOut(w)'
      <3>1. task["sql"].at \notin {"delete", "clear"}
        BY <1>1
      <3>2. CASE status' = [status EXCEPT ![u] = "gone"]
        BY <3>1, <3>2 DEF TakenOut, Types, Users
      <3>3. CASE UNCHANGED users /\ Goes("sql", [task["sql"] EXCEPT !.at = "delete"])
        <4>1. PICK x : x = [task["sql"] EXCEPT !.at = "delete"]
          OBVIOUS
        <4>2. x.at = "delete" /\ x.me = u
          BY <1>1, <1>2, <4>1 DEF Saving
        <4>3. task'["sql"] = x
          BY <1>1, <3>3, <4>1 DEF Goes, Types, Tasks
        <4> QED
          BY <3>1, <3>3, <4>2, <4>3 DEF TakenOut, users
      <3> QED
        BY <2>8, <3>2, <3>3
    <2>14. Found'
      <3> SUFFICES ASSUME NEW w \in User, party[w] # NoOne, ~TakenOut(w)'
                   PROVE  slot'[party[w]][pos'[w]] = Here(w)
        BY <2>9 DEF Found
      <3>1. w # u /\ slot[party[w]][pos[w]] = Here(w) /\ party[w] \in Party /\ pos[w] \in Place
        BY <2>13 DEF Zoned, Found, Types, Users
      <3>2. CASE party[w] = p
        <4>1. pos[w] # n
          BY <2>1, <2>2, <3>1, <3>2
        <4> QED
          BY <2>4, <2>10, <3>1, <3>2, <4>1
      <3>3. CASE party[w] # p
        <4>1. slots[pos[w]] # Here(w)
          BY <2>2, <2>6, <3>1, <3>3
        <4> QED
          BY <2>10, <3>1, <3>3, <4>1
      <3> QED
        BY <3>2, <3>3
    <2>15. \A o \in Thread : o # "sql" => task'[o] = task[o]
      BY <2>8 DEF Goes, Types, Tasks
    <2>16. ZoneTasks'
      <3> SUFFICES ASSUME NEW t \in Zone, ~Idle(t)' PROVE ZoneTask(t)'
        BY DEF ZoneTasks
      <3>1. task'[t] = task[t] /\ ~Idle(t)
        BY <2>15, PartyAssumption DEF Thread, Idle
      <3>2. ZoneTask(t) /\ task[t].me \in User /\ task[t] \in Dealing \cup Leaving
        BY <3>1, ZoneThread DEF Zoned
      <3>3. task[t].at \in {"create", "make", "join", "addmake", "add", "owner"} =>
               task[t].with \in User
        BY <3>2, TaskForms DEF Leaving
      <3>4. \A w \in User : status[w] = "zone" => status'[w] = "zone"
        BY <1>4, <2>8 DEF Types, Users, users
      <3> QED
        BY <2>9, <3>1, <3>2, <3>3, <3>4 DEF ZoneTask, At
    <2>17. SqlTasks'
      <3>1. CASE Goes("sql", NoTask)
        <4>1. Idle("sql")'
          BY <1>1, <3>1 DEF Goes, Types, Tasks, Idle
        <4> QED
          BY <4>1 DEF SqlTasks
      <3>2. CASE /\ n = 0 /\ follower = {}
                 /\ slot' = [slot EXCEPT ![p] = slots]
                 /\ Goes("sql", [task["sql"] EXCEPT !.at = "delete"])
                 /\ partyLock' = [partyLock EXCEPT ![p] = "sql"]
                 /\ UNCHANGED <<users, used, count, poolLock, crashed>>
        <4>1. PICK x : x = [task["sql"] EXCEPT !.at = "delete"]
          OBVIOUS
        <4>2. x.at = "delete" /\ x.me = u /\ x.p = p
          BY <1>1, <1>2, <4>1 DEF Saving
        <4>3. task'["sql"] = x
          BY <1>1, <3>2, <4>1 DEF Goes, Types, Tasks
        <4>4. status'[u] = "cut" /\ party'[u] = p /\ partyLock'[p] = "sql" /\ p \in used'
          BY <1>4, <2>1, <2>3, <3>2 DEF users, Types, Locks
        <4>5. slot'[p] = slots
          BY <3>2 DEF Types, Parties
        <4>6. \A i \in Place : ~IsHere(p, i)'
          <5> SUFFICES ASSUME NEW i \in Place, slots[i] # NoOne, slots[i].here PROVE FALSE
            BY <4>5 DEF IsHere
          <5>1. i # n /\ slot[p][i] # NoOne
            BY <2>4, <2>6
          <5>2. i < count[p]
            BY <5>1 DEF Zoned, Counted
          <5>3. i \in 1 .. count[p] - 1
            BY <3>2, <5>1, <5>2, Places DEF Types, Parties
          <5> QED
            BY <2>7, <3>2, <5>3 DEF Follower
        <4>7. \A q \in Party, i \in Place : slot'[q][i] # Here(u)
          <5> SUFFICES ASSUME NEW q \in Party, NEW i \in Place, slot'[q][i] = Here(u) PROVE FALSE
            OBVIOUS
          <5>1. IsHere(q, i)' /\ slot'[q][i].user = u
            BY <2>2 DEF IsHere
          <5>2. party[u] = q
            BY <2>9, <2>12, <5>1 DEF Placed
          <5> QED
            BY <2>1, <4>6, <5>1, <5>2
        <4> QED
          BY <4>2, <4>3, <4>4, <4>6, <4>7 DEF SqlTasks, SqlTask
      <3> QED
        BY <2>8, <3>1, <3>2
    <2>18. Exact'
      <3>1. \A o \in Zone : o # "sql"
        BY PartyAssumption
      <3> QED
        BY <1>1, <2>9, <2>15, <3>1, ExactKept DEF Zoned, At
    <2>19. ASSUME NEW q \in Party, NEW j \in Place, IsHere(q, j)'
           PROVE  (\E k \in Place : slot'[q][j] = slot[q][k]) /\ slot'[q][j].user # u
      <3>1. CASE q # p
        <4>1. slot'[q][j] = slot[q][j] /\ IsHere(q, j)
          BY <2>10, <2>19, <3>1 DEF IsHere
        <4> QED
          BY <2>1, <3>1, <4>1 DEF Zoned, Placed
      <3>2. CASE q = p
        <4>1. PICK k \in Place : slot'[p][j] = slots[k]
          BY <2>10
        <4>2. k # n /\ slots[k] = slot[p][k] /\ pos[slots[k].user] = k
          BY <2>6, <2>19, <3>2, <4>1 DEF IsHere
        <4> QED
          BY <1>3, <3>2, <4>1, <4>2
      <3> QED
        BY <3>1, <3>2
    <2> QED
      BY <1>2, <2>11, <2>12, <2>14, <2>16, <2>17, <2>18, <2>19 DEF Zoned
  <1> QED
    BY <1>2, <1>5, <1>6 DEF OnDisconnect

-----------------------------------------------------------------------------
(***************************************************************************)
(* One zone: a member has been taken out.                                  *)
(***************************************************************************)
\* The thread of the zone that has taken a member out is done.
LEMMA FinishZone ==
    ASSUME OneZone, Types, Zoned, NEW t \in Zone, ~Idle(t), task[t] \in Leaving,
           NEW p \in Party, Finish(t, p)
    PROVE  /\ \A o \in Thread : o # t => task'[o] = task[o]
           /\ \A o \in Zone : o # t => Idle(o)
           /\ "sql" \in Thread /\ task'["sql"] = task["sql"]
           /\ \A w \in User : status[w] = "cut" => status'[w] = "cut"
           /\ \A w \in User : status[w] = "gone" => status'[w] = "gone"
           /\ \A w \in User : TakenOut(w) => TakenOut(w)'
           /\ ZoneTasks'
           /\ \A q \in Party : partyLock[q] = "sql" => partyLock'[q] = "sql"
  <1>1. t \in Thread /\ t # "sql" /\ ZoneTask(t) /\ task[t].me \in User
    BY ZoneThread DEF Zoned
  <1>2. /\ \A o \in Thread : o # t => task'[o] = task[o]
        /\ "sql" \in Thread /\ task'["sql"] = task["sql"]
    BY <1>1 DEF Finish, Goes, Types, Tasks, Thread
  <1>3. /\ \A w \in User : status[w] = "cut" => status'[w] = "cut"
        /\ \A w \in User : status[w] = "gone" => status'[w] = "gone"
    BY <1>1 DEF Finish, ZoneTask, Types, Users
  <1>4. \A w \in User : TakenOut(w) => TakenOut(w)'
    BY <1>2, <1>3, TakenOutKept
  <1>5. ZoneTasks'
    BY ZoneGoes DEF Finish, Zoned
  <1>6. \A q \in Party : partyLock[q] = "sql" => partyLock'[q] = "sql"
    BY <1>1 DEF Finish, Types, Locks
  <1>7. \A o \in Zone : o # t => Idle(o)
    BY Alone DEF Zoned
  <1> QED
    BY <1>2, <1>3, <1>4, <1>5, <1>6, <1>7

LEMMA DoneZoned ==
    ASSUME OneZone, Types, Zoned, NEW t \in Zone, ~Idle(t), task[t] \in Leaving,
           Finish(t, task[t].p), UNCHANGED <<party, pos, parties>>,
           At(t, "sub") \/ task[t].p \notin used \/ count[task[t].p] >= 2
    PROVE  Zoned'
  <1>1. PICK p \in Party : p = task[t].p
    BY TaskForms
  <1>2. UNCHANGED <<used, slot, count>>
    BY DEF parties
  <1>3. /\ \A o \in Thread : o # t => task'[o] = task[o]
        /\ "sql" \in Thread /\ task'["sql"] = task["sql"]
        /\ \A w \in User : status[w] = "cut" => status'[w] = "cut"
        /\ \A w \in User : TakenOut(w) => TakenOut(w)'
        /\ ZoneTasks'
        /\ \A q \in Party : partyLock[q] = "sql" => partyLock'[q] = "sql"
    BY <1>1, FinishZone
  <1>4. Counted' /\ Placed'
    BY <1>2, PlacesKept DEF Zoned
  <1>5. Found'
    BY <1>2, <1>3, FoundKept DEF Zoned
  <1>6. SqlTasks'
    <2>1. \A q \in used : partyLock[q] = "sql" =>
             partyLock'[q] = "sql" /\ slot'[q] = slot[q] /\ q \in used'
      BY <1>2, <1>3 DEF Types, Parties
    <2>2. SqlTasks
      BY DEF Zoned
    <2> QED
      BY <1>2, <1>3, <2>1, <2>2, SqlKept
  <1>7. Exact'
    <2>1. t \in Thread /\ task[t].at \in {"sub", "count", "delete", "clear"}
      BY DEF Thread, Leaving
    <2>2. \A q \in used' : task[t].at \in {"count", "delete", "clear"} /\ task[t].p = q =>
             count'[q] >= 2
      BY <1>1, <1>2 DEF At
    <2>3. ~At(t, "addmake") /\ Exact
      BY <2>1 DEF At, Zoned
    <2> QED
      BY <1>2, <1>3, <2>1, <2>2, <2>3, ExactKept
  <1> QED
    BY <1>3, <1>4, <1>5, <1>6, <1>7 DEF Zoned

\* It goes on to delete the party.
LEMMA OnZoned ==
    ASSUME OneZone, Types, Zoned, NEW t \in Zone, ~Idle(t), task[t] \in Leaving,
           NEW a \in {"delete", "clear"}, Goes(t, [task[t] EXCEPT !.at = a]),
           UNCHANGED <<users, parties, partyLock>>
    PROVE  Zoned'
  <1>1. PICK x : x = [task[t] EXCEPT !.at = a]
    OBVIOUS
  <1>2. x.at = a /\ x.me = task[t].me /\ x.p = task[t].p
    BY <1>1 DEF Leaving
  <1>3. t \in Thread /\ t # "sql" /\ ZoneTask(t)
    BY ZoneThread DEF Zoned
  <1>4. /\ task'[t] = x /\ \A o \in Thread : o # t => task'[o] = task[o]
        /\ "sql" \in Thread /\ task'["sql"] = task["sql"]
    BY <1>1, <1>3 DEF Goes, Types, Tasks, Thread
  <1>5. UNCHANGED <<status, party, pos, used, slot, count>>
    BY DEF users, parties
  <1>6. Counted' /\ Placed'
    BY <1>5, PlacesKept DEF Zoned
  <1>7. Found'
    BY <1>4, <1>5, TakenOutKept, FoundKept DEF Zoned
  <1>8. ZoneTasks'
    <2>1. ZoneTask(t)'
      BY <1>2, <1>3, <1>4, <1>5 DEF ZoneTask, At
    <2> QED
      BY <2>1, ZoneGoes DEF Zoned
  <1>9. SqlTasks'
    <2>1. SqlTasks
      BY DEF Zoned
    <2>2. \A q \in used : q \in Party
      BY DEF Types, Parties
    <2> QED
      BY <1>4, <1>5, <2>1, <2>2, SqlKept
  <1>10. Exact'
    <2>1. \A q \in used' : task[t].p = q => Deleting(q)'
      BY <1>2, <1>3, <1>4 DEF Deleting
    <2>2. ~At(t, "addmake") /\ Exact
      BY DEF At, Zoned, Leaving
    <2> QED
      BY <1>3, <1>4, <1>5, <2>1, <2>2, ExactKept
  <1> QED
    BY <1>6, <1>7, <1>8, <1>9, <1>10 DEF Zoned

LEMMA CountLeftZoned ==
    ASSUME OneZone, Types, Zoned, NEW t \in Thread, CountLeft(t)
    PROVE  Zoned'
  <1>1. t \in Zone /\ task[t] \in Leaving /\ ~Idle(t)
    <2>1. task[t].at = "count"
      BY DEF CountLeft, At
    <2>2. t # "sql"
      BY <2>1, TaskReads DEF Types, Saving
    <2> QED
      BY <2>1, <2>2, TaskReads DEF Types
  <1>2. CASE TooSmall(task[t].p)
    BY <1>1, <1>2, OnZoned DEF CountLeft, users
  <1>3. CASE ~TooSmall(task[t].p)
    <2>1. task[t].p \in Party
      BY <1>1, TaskForms
    <2>2. count[task[t].p] >= 2
      BY <1>3, <2>1 DEF TooSmall, Types, Parties
    <2> QED
      BY <1>1, <1>3, <2>2, DoneZoned DEF CountLeft
  <1> QED
    BY <1>2, <1>3

LEMMA LockPoolZoned ==
    ASSUME OneZone, Types, Zoned, NEW t \in Thread, LockPool(t)
    PROVE  Zoned'
  <1>1. task[t].at = "delete" /\ ~Idle(t)
    BY TaskReads DEF LockPool, At, Types
  <1>2. CASE t # "sql"
    <2>1. t \in Zone /\ task[t] \in Leaving
      BY <1>1, <1>2, TaskReads DEF Types
    <2>2. CASE task[t].p \in used
      BY <1>1, <2>1, <2>2, OnZoned DEF LockPool, users
    <2>3. CASE task[t].p \notin used
      BY <1>1, <2>1, <2>3, DoneZoned DEF LockPool
    <2> QED
      BY <2>2, <2>3
  <1>3. CASE t = "sql"
    <2>1. SqlTask /\ task["sql"] \in Saving
      BY <1>1, <1>3, TaskReads DEF Types, Zoned, SqlTasks
    <2>2. task["sql"].p \in used
      BY <1>1, <1>3, <2>1 DEF SqlTask
    <2>3. /\ Goes("sql", [task["sql"] EXCEPT !.at = "clear"])
          /\ UNCHANGED <<status, party, pos, used, slot, count, partyLock>>
      BY <1>3, <2>2 DEF LockPool, parties
    <2>4. PICK x : x = [task["sql"] EXCEPT !.at = "clear"]
      OBVIOUS
    <2>5. x.at = "clear" /\ x.me = task["sql"].me /\ x.p = task["sql"].p
      BY <2>1, <2>4 DEF Saving
    <2>6. /\ task'["sql"] = x /\ \A o \in Thread : o # "sql" => task'[o] = task[o]
      BY <1>3, <2>3, <2>4 DEF Goes, Types, Tasks
    <2>7. \A o \in Zone : o \in Thread /\ o # "sql"
      BY PartyAssumption DEF Thread
    <2>8. Counted' /\ Placed'
      BY <2>3, PlacesKept DEF Zoned, parties
    <2>9. Found'
      <3>1. \A u \in User : TakenOut(u) => TakenOut(u)'
        BY <2>3, <2>5, <2>6 DEF TakenOut
      <3> QED
        BY <2>3, <3>1, FoundKept DEF Zoned
    <2>10. ZoneTasks'
      BY <2>3, <2>6, <2>7 DEF Zoned, ZoneTasks, ZoneTask, At, Idle
    <2>11. SqlTasks'
      BY <1>1, <1>3, <2>1, <2>3, <2>5, <2>6 DEF SqlTasks, SqlTask, IsHere
    <2>12. Exact'
      <3>1. \A q \in used' : task["sql"].p = q => Deleting(q)'
        BY <1>3, <2>5, <2>6 DEF Deleting
      <3>2. ~At("sql", "addmake") /\ Exact /\ "sql" \in Thread
        BY <1>1, <1>3 DEF At, Zoned
      <3>3. /\ used' \subseteq used
            /\ \A q \in used' : count'[q] = count[q] \/ count'[q] >= 2
            /\ \A o \in Zone : o # "sql" /\ At(o, "addmake") =>
                                 party'[task[o].with] = party[task[o].with]
        BY <2>3
      <3> QED
        BY <2>6, <3>1, <3>2, <3>3, ExactKept
    <2> QED
      BY <2>8, <2>9, <2>10, <2>11, <2>12 DEF Zoned
  <1> QED
    BY <1>2, <1>3

\* The places of a party are emptied, and whoever is there knows it.
LEMMA PartyCleared ==
    ASSUME Types, Zoned, NEW p \in Party, NEW places,
           places = {i \in Place : i < count[p]},
           used' = used \ {p},
           slot' = [slot EXCEPT ![p] = [i \in Place |-> IF i \in places THEN NoOne ELSE @[i]]],
           party' = [u \in User |->
                        IF \E i \in places : slot[p][i] = Here(u) THEN NoOne ELSE party[u]],
           UNCHANGED <<pos, count>>,
           \A u \in User : TakenOut(u) => TakenOut(u)'
    PROVE  /\ \A q \in Party : q # p => slot'[q] = slot[q]
           /\ \A i \in Place : slot'[p][i] = NoOne
           /\ Counted' /\ Placed' /\ Found'
  <1>1. PICK new : new = [i \in Place |-> IF i \in places THEN NoOne ELSE slot[p][i]]
    OBVIOUS
  <1>2. \A i \in Place : new[i] = NoOne
    BY <1>1 DEF Zoned, Counted
  <1>3. slot' = [slot EXCEPT ![p] = new]
    BY <1>1
  <1>4. /\ \A q \in Party : q # p => slot'[q] = slot[q]
        /\ \A i \in Place : slot'[p][i] = NoOne
    BY <1>2, <1>3 DEF Types, Parties
  <1>5. Counted'
    <2> SUFFICES ASSUME NEW q \in Party, NEW i \in Place
                 PROVE  slot'[q][i] # NoOne <=> q \in used' /\ i < count[q]
      BY DEF Counted
    <2>1. CASE q = p
      BY <1>4, <2>1
    <2>2. CASE q # p
      BY <1>4, <2>2 DEF Zoned, Counted
    <2> QED
      BY <2>1, <2>2
  <1>6. \A w \in User : slot[p][pos[w]] = Here(w) => party[w] = p
    BY HereIs DEF Zoned, Placed, IsHere, Types, Users
  <1>7. \A w \in User : party[w] # p => party'[w] = party[w]
    <2> SUFFICES ASSUME NEW w \in User, NEW i \in places, slot[p][i] = Here(w)
                 PROVE  party[w] = p
      OBVIOUS
    <2>1. IsHere(p, i) /\ slot[p][i].user = w /\ i \in Place
      BY HereIs DEF IsHere
    <2> QED
      BY <2>1 DEF Zoned, Placed
  <1>8. Placed'
    <2> SUFFICES ASSUME NEW q \in Party, NEW i \in Place, IsHere(q, i)'
                 PROVE  party'[slot'[q][i].user] = q /\ pos[slot'[q][i].user] = i
      BY DEF Placed
    <2>1. q # p
      BY <1>4 DEF IsHere
    <2>2. IsHere(q, i) /\ slot'[q][i] = slot[q][i]
      BY <1>4, <2>1 DEF IsHere
    <2>3. slot[q][i].user \in User
      BY <2>2 DEF IsHere, Types, Parties, Slots, Member
    <2> QED
      BY <1>7, <2>1, <2>2, <2>3 DEF Zoned, Placed
  <1>9. Found'
    <2> SUFFICES ASSUME NEW w \in User, party'[w] # NoOne, ~TakenOut(w)'
                 PROVE  slot'[party'[w]][pos[w]] = Here(w)
      BY DEF Found
    <2>1. party'[w] = party[w] /\ ~TakenOut(w)
      OBVIOUS
    <2>2. slot[party[w]][pos[w]] = Here(w) /\ party[w] \in Party /\ pos[w] \in Place
      BY <2>1 DEF Zoned, Found, Types, Users
    <2>3. party[w] # p
      <3> SUFFICES ASSUME party[w] = p PROVE FALSE
        OBVIOUS
      <3>1. pos[w] \in places
        BY <2>2, HereIs DEF Zoned, Counted
      <3> QED
        BY <2>2, <3>1
    <2> QED
      BY <1>4, <2>1, <2>2, <2>3
  <1> QED
    BY <1>4, <1>5, <1>8, <1>9

LEMMA ClearZoned ==
    ASSUME OneZone, Types, Zoned, NEW t \in Thread, Clear(t)
    PROVE  Zoned'
  <1>1. task[t].at = "clear" /\ ~Idle(t)
    BY TaskReads DEF Clear, At, Types
  <1>2. IF t = "sql" THEN task[t] \in Saving ELSE t \in Zone /\ task[t] \in Leaving
    BY <1>1, TaskReads DEF Types
  <1>3. PICK p \in Party, u \in User : p = task[t].p /\ u = task[t].me
    BY <1>2, TaskForms
  <1>4. PICK places : places = {i \in Place : i < count[p]}
    OBVIOUS
  <1>5. /\ Free(p, t) /\ Finish(t, p)
        /\ used' = used \ {p}
        /\ slot' = [slot EXCEPT ![p] = [i \in Place |-> IF i \in places THEN NoOne ELSE @[i]]]
        /\ party' = [w \in User |->
                        IF \E i \in places : slot[p][i] = Here(w) THEN NoOne ELSE party[w]]
        /\ UNCHANGED <<pos, count>>
    BY <1>3, <1>4 DEF Clear
  <1>6. \A w \in User : party'[w] \in {party[w], NoOne}
    BY <1>5
  <1>7. \A o \in Thread : o # t => task'[o] = task[o]
    BY <1>5 DEF Finish, Goes, Types, Tasks
  <1>8. Exact /\ ~At(t, "addmake") /\ used' \subseteq used /\ p \notin used' /\ UNCHANGED count
    BY <1>1, <1>5 DEF Zoned, At
  <1>9. CASE t # "sql"
    <2>1. /\ \A o \in Zone : o # t => Idle(o)
          /\ "sql" \in Thread /\ task'["sql"] = task["sql"]
          /\ \A w \in User : status[w] = "cut" => status'[w] = "cut"
          /\ \A w \in User : TakenOut(w) => TakenOut(w)'
          /\ ZoneTasks'
          /\ \A q \in Party : partyLock[q] = "sql" => partyLock'[q] = "sql"
      BY <1>1, <1>2, <1>3, <1>5, <1>9, FinishZone
    <2>2. /\ \A q \in Party : q # p => slot'[q] = slot[q]
          /\ \A i \in Place : slot'[p][i] = NoOne
          /\ Counted' /\ Placed' /\ Found'
      BY <1>4, <1>5, <2>1, PartyCleared
    <2>3. SqlTasks'
      <3>1. \A q \in used : partyLock[q] = "sql" =>
               partyLock'[q] = "sql" /\ slot'[q] = slot[q] /\ q \in used'
        <4>1. partyLock[p] # "sql"
          BY <1>2, <1>5, <1>9, NotSql
        <4> QED
          BY <1>5, <2>1, <2>2, <4>1 DEF Types, Parties
      <3>2. \A w \in User, q \in Party, i \in Place :
               status[w] = "cut" /\ slot'[q][i] = Here(w) =>
                  \E r \in Party, j \in Place : slot[r][j] = Here(w)
        BY <2>2, HereIs
      <3>3. SqlTasks
        BY DEF Zoned
      <3> QED
        BY <1>6, <2>1, <3>1, <3>2, <3>3, SqlKept
    <2>4. Exact'
      <3>1. \A o \in Zone : o # t /\ At(o, "addmake") => FALSE
        <4>1. NoTask.at # "addmake"
          BY DEF NoTask
        <4> QED
          BY <2>1, <4>1 DEF At, Idle
      <3> QED
        BY <1>3, <1>7, <1>8, <3>1, ExactKept
    <2> QED
      BY <2>1, <2>2, <2>3, <2>4 DEF Zoned
  <1>10. CASE t = "sql"
    <2>1. SqlTask /\ \A o \in Zone : o \in Thread /\ o # "sql"
      BY <1>1, <1>10, PartyAssumption DEF Zoned, SqlTasks, Thread
    <2>2. /\ status[u] = "cut" /\ partyLock[p] = "sql"
          /\ \A i \in Place : ~IsHere(p, i)
      BY <1>1, <1>3, <1>10, <2>1 DEF SqlTask
    <2>3. status'[u] = "gone" /\ \A w \in User : w # u => status'[w] = status[w]
      <3>1. task[t].then = "gone"
        BY <1>2, <1>10, TaskForms
      <3>2. status' = [status EXCEPT ![u] = "gone"]
        BY <1>3, <1>5, <3>1 DEF Finish
      <3> QED
        BY <3>2 DEF Types, Users
    <2>4. Idle("sql")'
      BY <1>5, <1>10 DEF Finish, Goes, Types, Tasks, Idle
    <2>5. \A w \in User : TakenOut(w) => TakenOut(w)'
      BY <1>3, <1>10, <2>3 DEF TakenOut
    <2>6. UNCHANGED party
      <3>1. \A w \in User, i \in places : slot[p][i] # Here(w)
        BY <1>4, <2>2, HereIs DEF IsHere
      <3>2. \A w \in User : party'[w] = party[w]
        BY <1>5, <3>1
      <3> QED
        BY <1>5, <3>2 DEF Types, Users
    <2>7. Counted' /\ Placed' /\ Found'
      BY <1>4, <1>5, <2>5, PartyCleared
    <2>8. ZoneTasks'
      <3> SUFFICES ASSUME NEW o \in Zone, ~Idle(o)' PROVE ZoneTask(o)'
        BY DEF ZoneTasks
      <3>1. task'[o] = task[o] /\ ~Idle(o)
        BY <1>7, <1>10, <2>1 DEF Idle
      <3>2. ZoneTask(o) /\ task[o].me \in User /\ task[o] \in Dealing \cup Leaving
        BY <3>1, ZoneThread DEF Zoned
      <3>3. task[o].at \in {"create", "make", "join", "addmake", "add", "owner"} =>
               task[o].with \in User
        BY <3>2, TaskForms DEF Leaving
      <3>4. \A w \in User : status[w] = "zone" => status'[w] = "zone"
        BY <2>2, <2>3
      <3> QED
        BY <2>6, <3>1, <3>2, <3>3, <3>4 DEF ZoneTask, At
    <2>9. SqlTasks'
      BY <2>4 DEF SqlTasks
    <2>10. Exact'
      BY <1>3, <1>7, <1>8, <2>6, ExactKept
    <2> QED
      BY <2>7, <2>8, <2>9, <2>10 DEF Zoned
  <1> QED
    BY <1>9, <1>10

\* Those behind the one who is taken out move up, and learn their places.
LEMMA MovedUp ==
    ASSUME Types, Zoned, NEW p \in Party, NEW n \in Place, slot[p][n] # NoOne,
           NEW after, after = Closed(p, n), NEW moved, moved = n .. count[p] - 2,
           pos' = Renumbered(after, moved)
    PROVE  /\ count[p] \in Nat /\ n \in Nat /\ n < count[p] /\ p \in used
           /\ \A i \in Place : i < n => after[i] = slot[p][i]
           /\ \A i \in Place : i >= n /\ i < count[p] - 1 =>
                 i \in moved /\ i + 1 \in Place /\ after[i] = slot[p][i + 1]
           /\ \A i \in Place : after[i] # NoOne <=> i < count[p] - 1
           /\ \A w \in User, i \in moved : after[i] = Here(w) => pos'[w] = i
           /\ \A w \in User : party[w] # p \/ pos[w] <= n => pos'[w] = pos[w]
  <1>1. p \in used /\ n < count[p]
    BY DEF Zoned, Counted
  <1>2. count[p] \in Nat /\ count[p] <= Capacity /\ n \in Nat
    BY Places DEF Types, Parties
  <1>3. \A i \in Place : i \in Nat /\ i < Capacity
    BY Places
  <1>4. \A i \in Place : after[i] = IF i < n THEN slot[p][i]
                             ELSE IF i < count[p] - 1 THEN slot[p][i + 1] ELSE NoOne
    BY DEF Closed
  <1>5. \A i \in Place : i < n => after[i] = slot[p][i]
    BY <1>4
  <1>6. \A i \in moved : i \in Place /\ i \in Nat /\ i >= n /\ i < count[p] - 1 /\ i + 1 \in Place
    BY <1>2, Places
  <1>7. \A i \in Place : i >= n /\ i < count[p] - 1 =>
           i \in moved /\ i + 1 \in Place /\ after[i] = slot[p][i + 1]
    <2> SUFFICES ASSUME NEW i \in Place, i >= n, i < count[p] - 1
                 PROVE  i \in moved /\ i + 1 \in Place /\ after[i] = slot[p][i + 1]
      OBVIOUS
    <2>1. i \in moved
      <3>1. i \in Nat /\ i <= count[p] - 2
        BY <1>2, <1>3
      <3> QED
        BY <1>2, <3>1
    <2>2. ~ (i < n)
      BY <1>2, <1>3
    <2> QED
      BY <1>4, <1>6, <2>1, <2>2
  <1>8. ASSUME NEW i \in Place PROVE after[i] # NoOne <=> i < count[p] - 1
    <2>1. CASE i < n
      <3>1. i < count[p] - 1 /\ i < count[p]
        BY <1>1, <1>2, <1>3, <2>1
      <3> QED
        BY <1>1, <1>5, <2>1, <3>1 DEF Zoned, Counted
    <2>2. CASE ~ (i < n) /\ i < count[p] - 1
      <3>1. i + 1 < count[p] /\ i >= n
        BY <1>2, <1>3, <2>2
      <3>2. i + 1 \in Place /\ after[i] = slot[p][i + 1]
        BY <1>7, <2>2, <3>1
      <3> QED
        BY <1>1, <2>2, <3>1, <3>2 DEF Zoned, Counted
    <2>3. CASE ~ (i < n) /\ ~ (i < count[p] - 1)
      BY <1>4, <2>3
    <2> QED
      BY <2>1, <2>2, <2>3
  <1>9. ASSUME NEW w \in User, NEW i \in moved, after[i] = Here(w)
        PROVE  party[w] = p /\ pos[w] = i + 1 /\ pos[w] > n
    <2>1. i + 1 \in Place /\ slot[p][i + 1] = Here(w)
      BY <1>6, <1>7, <1>9
    <2>2. IsHere(p, i + 1) /\ slot[p][i + 1].user = w
      BY <2>1, HereIs DEF IsHere
    <2>3. party[w] = p /\ pos[w] = i + 1
      BY <2>1, <2>2 DEF Zoned, Placed
    <2> QED
      BY <1>2, <1>6, <2>3
  <1>10. ASSUME NEW w \in User, NEW i \in moved, after[i] = Here(w) PROVE pos'[w] = i
    <2>1. pos'[w] = CHOOSE j \in moved : after[j] = Here(w)
      BY <1>10 DEF Renumbered
    <2>2. PICK j \in moved : j = pos'[w] /\ after[j] = Here(w)
      BY <1>10, <2>1
    <2>3. pos[w] = i + 1 /\ pos[w] = j + 1
      BY <1>9, <1>10, <2>2
    <2> QED
      BY <1>6, <2>2, <2>3
  <1>11. ASSUME NEW w \in User, party[w] # p \/ pos[w] <= n PROVE pos'[w] = pos[w]
    <2>1. \A i \in moved : after[i] # Here(w)
      <3> SUFFICES ASSUME NEW i \in moved, after[i] = Here(w) PROVE FALSE
        OBVIOUS
      <3>1. party[w] = p /\ pos[w] = i + 1 /\ i \in Nat /\ i >= n
        BY <1>6, <1>9
      <3> QED
        BY <1>2, <1>11, <3>1
    <2> QED
      BY <2>1 DEF Renumbered
  <1> QED
    BY <1>1, <1>2, <1>5, <1>7, <1>8, <1>10, <1>11

LEMMA SubZoned ==
    ASSUME OneZone, Types, Zoned, NEW t \in Thread, Sub(t)
    PROVE  Zoned'
  <1>1. t \in Zone /\ task[t] \in Leaving /\ t # "sql" /\ ~Idle(t) /\ task[t].at = "sub"
    BY TaskReads, PartyAssumption DEF Sub, At, Types
  <1>2. PICK p \in Party, n \in Place : p = task[t].p /\ n = task[t].n
    BY <1>1, TaskForms
  <1>3. ZoneTask(t)
    BY <1>1 DEF Zoned, ZoneTasks
  <1>4. CASE Crash
    BY <1>4, CrashZoned
  <1>5. CASE slot[p][n] = NoOne
    BY <1>1, <1>2, <1>5, DoneZoned DEF Sub
  <1>6. CASE slot[p][n] # NoOne /\ ~Crash
    <2>1. PICK after, moved : after = Closed(p, n) /\ moved = n .. count[p] - 2
      OBVIOUS
    <2>2. PICK left \in Member : left = slot[p][n]
      BY <1>6 DEF Types, Parties, Slots
    <2>3. /\ Free(p, t)
          /\ slot' = [slot EXCEPT ![p] = after]
          /\ count' = [count EXCEPT ![p] = @ - 1]
          /\ party' = IF left.here THEN [party EXCEPT ![left.user] = NoOne] ELSE party
          /\ pos' = Renumbered(after, moved)
          /\ Goes(t, [task[t] EXCEPT !.at = "count"])
          /\ UNCHANGED <<status, used, partyLock>>
      BY <1>2, <1>6, <2>1, <2>2 DEF Sub, locks
    <2>4. /\ count[p] \in Nat /\ n \in Nat /\ n < count[p] /\ p \in used
          /\ \A i \in Place : i < n => after[i] = slot[p][i]
          /\ \A i \in Place : i >= n /\ i < count[p] - 1 =>
                i \in moved /\ i + 1 \in Place /\ after[i] = slot[p][i + 1]
          /\ \A i \in Place : after[i] # NoOne <=> i < count[p] - 1
          /\ \A w \in User, i \in moved : after[i] = Here(w) => pos'[w] = i
          /\ \A w \in User : party[w] # p \/ pos[w] <= n => pos'[w] = pos[w]
      BY <1>6, <2>1, <2>3, MovedUp
    <2>5. /\ slot'[p] = after /\ count'[p] = count[p] - 1
          /\ \A q \in Party : q # p => slot'[q] = slot[q] /\ count'[q] = count[q]
      BY <2>3 DEF Types, Parties
    <2>6. left.user \in User /\ left.here \in BOOLEAN
      BY DEF Member
    <2>7. left.here => party[left.user] = p /\ pos[left.user] = n
      BY <1>6, <2>2 DEF Zoned, Placed, IsHere
    <2>8. \A w \in User : party'[w] = IF left.here /\ w = left.user THEN NoOne ELSE party[w]
      BY <2>3, <2>6 DEF Types, Users
    <2>9. \A q \in Party, i \in Place : IsHere(q, i) =>
             /\ slot[q][i].user \in User /\ slot[q][i] = Here(slot[q][i].user)
             /\ party[slot[q][i].user] = q /\ pos[slot[q][i].user] = i
      <3> SUFFICES ASSUME NEW q \in Party, NEW i \in Place, IsHere(q, i)
                   PROVE  /\ slot[q][i].user \in User /\ slot[q][i] = Here(slot[q][i].user)
                          /\ party[slot[q][i].user] = q /\ pos[slot[q][i].user] = i
        OBVIOUS
      <3>1. slot[q][i] \in Member /\ slot[q][i].here
        BY DEF IsHere, Types, Parties, Slots
      <3> QED
        BY <3>1 DEF Zoned, Placed, Member, Here
    <2>10. /\ task'[t].at = "count" /\ task'[t].me = task[t].me /\ task'[t].p = p
           /\ \A o \in Thread : o # t => task'[o] = task[o]
           /\ "sql" \in Thread /\ task'["sql"] = task["sql"]
      <3>1. PICK x : x = [task[t] EXCEPT !.at = "count"]
        OBVIOUS
      <3>2. x.at = "count" /\ x.me = task[t].me /\ x.p = p
        BY <1>1, <1>2, <3>1 DEF Leaving
      <3>3. task'[t] = x /\ \A o \in Thread : o # t => task'[o] = task[o]
        BY <2>3, <3>1 DEF Goes, Types, Tasks
      <3> QED
        BY <1>1, <3>2, <3>3 DEF Thread
    <2>11. Counted'
      <3> SUFFICES ASSUME NEW q \in Party, NEW i \in Place
                   PROVE  slot'[q][i] # NoOne <=> q \in used /\ i < count'[q]
        BY <2>3 DEF Counted
      <3> QED
        BY <2>4, <2>5 DEF Zoned, Counted
    <2>12. Placed'
      <3> SUFFICES ASSUME NEW q \in Party, NEW i \in Place, IsHere(q, i)'
                   PROVE  party'[slot'[q][i].user] = q /\ pos'[slot'[q][i].user] = i
        BY DEF Placed
      <3>1. CASE q # p
        <4>1. IsHere(q, i) /\ slot'[q][i] = slot[q][i]
          BY <2>5, <3>1 DEF IsHere
        <4>2. PICK w \in User : w = slot[q][i].user /\ party[w] = q /\ pos[w] = i
          BY <2>9, <4>1
        <4>3. party'[w] = q /\ pos'[w] = i
          BY <2>4, <2>7, <2>8, <3>1, <4>2
        <4> QED
          BY <4>1, <4>2, <4>3
      <3>2. CASE q = p /\ i < n
        <4>1. IsHere(p, i) /\ slot'[p][i] = slot[p][i]
          BY <2>4, <2>5, <3>2 DEF IsHere
        <4>2. PICK w \in User : w = slot[p][i].user /\ party[w] = p /\ pos[w] = i
          BY <2>9, <4>1
        <4>3. i \in Nat /\ pos[w] <= n /\ pos[w] # n
          BY <2>4, <3>2, <4>2, Places
        <4>4. party'[w] = p /\ pos'[w] = i
          BY <2>4, <2>7, <2>8, <4>2, <4>3
        <4> QED
          BY <3>2, <4>1, <4>2, <4>4
      <3>3. CASE q = p /\ i >= n
        <4>1. i < count[p] - 1
          BY <2>4, <2>5, <3>3 DEF IsHere
        <4>2. i \in moved /\ i + 1 \in Place /\ after[i] = slot[p][i + 1]
          BY <2>4, <3>3, <4>1
        <4>3. IsHere(p, i + 1) /\ slot'[p][i] = slot[p][i + 1]
          BY <2>5, <3>3, <4>2 DEF IsHere
        <4>4. PICK w \in User : w = slot[p][i + 1].user /\ slot[p][i + 1] = Here(w)
                                /\ party[w] = p /\ pos[w] = i + 1
          BY <2>9, <4>2, <4>3
        <4>5. pos'[w] = i
          BY <2>4, <4>2, <4>4
        <4>6. i + 1 # n
          BY <2>4, <3>3, Places
        <4>7. party'[w] = p
          BY <2>7, <2>8, <4>4, <4>6
        <4> QED
          BY <3>3, <4>3, <4>4, <4>5, <4>7
      <3>4. i < n \/ i >= n
        BY <2>4, Places
      <3> QED
        BY <3>1, <3>2, <3>3, <3>4
    <2>13. Found'
      <3> SUFFICES ASSUME NEW w \in User, party'[w] # NoOne, ~TakenOut(w)'
                   PROVE  slot'[party'[w]][pos'[w]] = Here(w)
        BY DEF Found
      <3>1. party'[w] = party[w] /\ party[w] # NoOne /\ ~TakenOut(w)
        BY <2>3, <2>8, <2>10 DEF TakenOut
      <3>2. slot[party[w]][pos[w]] = Here(w) /\ party[w] \in Party /\ pos[w] \in Place
        BY <3>1 DEF Zoned, Found, Types, Users
      <3>3. CASE party[w] # p
        BY <2>4, <2>5, <3>1, <3>2, <3>3
      <3>4. CASE party[w] = p
        <4>1. pos[w] # n
          <5> SUFFICES ASSUME pos[w] = n PROVE FALSE
            OBVIOUS
          <5>1. left = Here(w)
            BY <2>2, <3>2, <3>4
          <5>2. left.here /\ left.user = w
            BY <5>1, HereIs
          <5> QED
            BY <2>8, <5>2
        <4>2. pos[w] < count[p] /\ pos[w] \in Nat
          <5>1. slot[p][pos[w]] # NoOne
            BY <3>2, <3>4, HereIs
          <5> QED
            BY <3>2, <5>1, Places DEF Zoned, Counted
        <4>3. CASE pos[w] < n
          <5>1. pos'[w] = pos[w]
            <6>1. pos[w] <= n
              BY <2>4, <4>2, <4>3
            <6> QED
              BY <2>4, <6>1
          <5>2. after[pos[w]] = Here(w)
            BY <2>4, <3>2, <3>4, <4>3
          <5> QED
            BY <2>5, <3>1, <3>4, <5>1, <5>2
        <4>4. CASE pos[w] > n
          <5>1. PICK i \in Nat : pos[w] = i + 1
            <6>1. pos[w] - 1 \in Nat /\ pos[w] = (pos[w] - 1) + 1
              BY <2>4, <4>2, <4>4
            <6> QED
              BY <6>1
          <5>2. i \in Place /\ i >= n /\ i < count[p] - 1
            BY <2>4, <3>2, <4>2, <4>4, <5>1, Places
          <5>3. i \in moved /\ after[i] = Here(w)
            BY <2>4, <3>2, <3>4, <5>1, <5>2
          <5>4. pos'[w] = i
            BY <2>4, <5>3
          <5> QED
            BY <2>5, <3>1, <3>4, <5>3, <5>4
        <4> QED
          BY <2>4, <4>1, <4>2, <4>3, <4>4
      <3> QED
        BY <3>3, <3>4
    <2>14. ZoneTasks'
      <3>1. ZoneTask(t)'
        BY <1>3, <2>3, <2>10 DEF ZoneTask, At
      <3> QED
        BY <1>1, <2>3, <3>1, ZoneGoes DEF Zoned
    <2>15. SqlTasks'
      <3>1. \A q \in used : partyLock[q] = "sql" =>
               partyLock'[q] = "sql" /\ slot'[q] = slot[q] /\ q \in used'
        BY <1>1, <2>3, <2>5, SqlLeaves
      <3>2. \A w \in User, q \in Party, i \in Place :
               status[w] = "cut" /\ slot'[q][i] = Here(w) =>
                  \E r \in Party, j \in Place : slot[r][j] = Here(w)
        <4> SUFFICES ASSUME NEW w \in User, NEW q \in Party, NEW i \in Place, slot'[q][i] = Here(w)
                     PROVE  \E r \in Party, j \in Place : slot[r][j] = Here(w)
          OBVIOUS
        <4>1. CASE q # p
          BY <2>5, <4>1
        <4>2. CASE q = p
          <5>1. after[i] = Here(w) /\ after[i] # NoOne
            BY <2>5, <4>2, HereIs
          <5>2. i < count[p] - 1 /\ (i < n \/ i >= n)
            BY <2>4, <5>1, Places
          <5> QED
            BY <2>4, <5>1, <5>2
        <4> QED
          BY <4>1, <4>2
      <3>3. SqlTasks /\ \A w \in User : party'[w] \in {party[w], NoOne}
        BY <2>8 DEF Zoned
      <3> QED
        BY <2>3, <2>10, <3>1, <3>2, <3>3, SqlKept
    <2>16. Exact'
      <3> SUFFICES ASSUME NEW q \in used PROVE count'[q] >= 2 \/ Making(q)' \/ Deleting(q)'
        BY <2>3 DEF Exact
      <3>1. CASE q = p
        BY <2>10, <3>1 DEF Deleting
      <3>2. CASE q # p
        <4>1. count'[q] = count[q]
          BY <2>5, <3>2 DEF Types, Parties
        <4>2. ~Making(q)
          <5> SUFFICES ASSUME NEW o \in Zone, At(o, "addmake") PROVE FALSE
            BY DEF Making
          <5>1. ~Idle(o)
            BY TaskReads DEF At, Thread, Types
          <5>2. o = t
            BY <1>1, <5>1, Alone DEF Zoned
          <5> QED
            BY <1>1, <5>2 DEF At
        <4>3. Deleting(q) => Deleting(q)'
          BY <1>1, <2>10 DEF Deleting
        <4> QED
          BY <4>1, <4>2, <4>3 DEF Zoned, Exact
      <3> QED
        BY <3>1, <3>2
    <2> QED
      BY <2>11, <2>12, <2>13, <2>14, <2>15, <2>16 DEF Zoned
  <1> QED
    BY <1>4, <1>5, <1>6

-----------------------------------------------------------------------------
(***************************************************************************)
(* One zone: users and parties agree.                                      *)
(***************************************************************************)
LEMMA InitZoned == Init => Zoned
  <1> SUFFICES ASSUME Init PROVE Zoned
    OBVIOUS
  <1>1. /\ \A p \in Party, i \in Place : slot[p][i] = NoOne
        /\ used = {} /\ \A u \in User : party[u] = NoOne
        /\ \A t \in Thread : Idle(t)
    BY DEF Init, Idle
  <1>2. "sql" \in Thread /\ Zone \subseteq Thread
    BY DEF Thread
  <1> QED
    BY <1>1, <1>2 DEF Zoned, Counted, Placed, Found, ZoneTasks, SqlTasks, Exact, IsHere

LEMMA NextZoned ==
    ASSUME OneZone, Types, Zoned, [Next]_vars
    PROVE  Zoned'
  <1>1. ASSUME UNCHANGED vars PROVE Zoned'
    BY <1>1 DEF vars, users, parties, locks, Zoned, Counted, Placed, Found, ZoneTasks, SqlTasks,
                Exact, IsHere, TakenOut, ZoneTask, SqlTask, Making, Deleting, At, Idle
  <1>2. ASSUME NEW u \in User, NEW v \in User,
               AcceptMake(u, v) \/ AcceptJoin(u, v) \/ Ban(u, v) \/ GiveOwner(u, v)
        PROVE  Zoned'
    BY <1>2, RequestZoned
  <1>3. ASSUME NEW u \in User, Leave(u) \/ Quit(u) \/ Drop(u) \/ Save(u) PROVE Zoned'
    BY <1>3, RequestZoned, StatusZoned, SaveZoned
  <1>4. ASSUME NEW t \in Thread, Step(t) PROVE Zoned'
    BY <1>4, CreateZoned, CheckOwnerZoned, AddZoned, KickMemberZoned, SubZoned, CountLeftZoned,
       LockPoolZoned, ClearZoned, HandOverZoned DEF Step
  <1>5. CASE OnDisconnect
    BY <1>5, OnDisconnectZoned
  <1> QED
    BY <1>1, <1>2, <1>3, <1>4, <1>5 DEF Next

LEMMA AlwaysZoned == ASSUME OneZone PROVE Spec => [](Types /\ Zoned)
  <1>1. Init => Types /\ Zoned
    BY InitTypes, InitZoned
  <1>2. Types /\ Zoned /\ [Next]_vars => (Types /\ Zoned)'
    BY NextTypes, NextZoned
  <1> QED
    BY <1>1, <1>2, PTL DEF Spec

\* In one zone, whoever is cut off and whoever quits: between two requests a user that is
\* still there and its place agree, and a party's members stand without gaps in as many
\* places as m_nMemberCNT says.
THEOREM PartiesAgreeSafety == ASSUME OneZone PROVE Spec => []PartiesAgree
  <1>1. ASSUME Types, Zoned PROVE PartiesAgree
    <2> SUFFICES ASSUME NEW u \in User, NEW p \in Party, NEW i \in Place, status[u] = "zone"
                 PROVE  slot[p][i] = Here(u) <=> party[u] = p /\ pos[u] = i
      BY <1>1 DEF PartiesAgree, Zoned, Counted, Types, Parties
    <2>1. ASSUME slot[p][i] = Here(u) PROVE party[u] = p /\ pos[u] = i
      <3>1. IsHere(p, i) /\ slot[p][i].user = u
        BY <2>1, HereIs DEF IsHere
      <3> QED
        BY <1>1, <3>1 DEF Zoned, Placed
    <2>2. ASSUME party[u] = p, pos[u] = i PROVE slot[p][i] = Here(u)
      <3>1. party[u] # NoOne
        BY <2>2, PartyAssumption
      <3> QED
        BY <1>1, <2>2, <3>1, InPlace
    <2> QED
      BY <2>1, <2>2
  <1> QED
    BY <1>1, AlwaysZoned, PTL

\* In one zone: between two requests a party that is in use has two members at least, so
\* that no way of leaving forgets to delete it, and one that is back in the pool is empty.
THEOREM PoolExactSafety == ASSUME OneZone PROVE Spec => []PoolExact
  <1>1. ASSUME Types, Zoned, AtRest, NEW p \in Party
        PROVE  IF p \in used THEN count[p] >= 2 ELSE \A i \in Place : slot[p][i] = NoOne
    <2>1. \A t \in Thread : task[t].at = "idle"
      BY <1>1, TaskReads DEF AtRest, Types
    <2>2. ~Making(p) /\ ~Deleting(p)
      BY <2>1 DEF Making, Deleting, At, Thread
    <2> QED
      BY <1>1, <2>2 DEF Zoned, Exact, Counted
  <1>2. Types /\ Zoned => PoolExact
    BY <1>1 DEF PoolExact
  <1> QED
    BY <1>2, AlwaysZoned, PTL

-----------------------------------------------------------------------------
(***************************************************************************)
(* One zone, and nobody is cut off: what the zone's thread has looked up   *)
(* stays as it was found.                                                  *)
(***************************************************************************)
\* The thread that is in the middle of something is the only one.
LEMMA CalmThread ==
    ASSUME OneZone, Types, Zoned, Calm, NEW t \in Thread, ~Idle(t)
    PROVE  /\ t \in Zone /\ t # "sql" /\ Sure(t) /\ ZoneTask(t)
           /\ task[t] \in Dealing \cup Leaving
           /\ task[t].me \in User /\ task[t].with \in User
           /\ \A o \in Thread : o # t => Idle(o)
  <1>1. t \in Zone /\ t # "sql"
    BY DEF Calm, Thread
  <1>2. Sure(t) /\ ZoneTask(t) /\ task[t] \in Dealing \cup Leaving
    BY <1>1, ZoneThread DEF Calm, Zoned
  <1>3. task[t].me \in User /\ task[t].with \in User
    BY <1>2, TaskForms
  <1>4. \A o \in Thread : o # t => Idle(o)
    BY <1>1, Alone DEF Calm, Zoned, Thread
  <1> QED
    BY <1>1, <1>2, <1>3, <1>4

\* It goes on, and nothing else changes.
LEMMA TaskCalm ==
    ASSUME Types, Calm, NEW t \in Zone, \A o \in Zone : o # t => Idle(o),
           NEW x, Goes(t, x), x = NoTask \/ Sure(t)', UNCHANGED <<users, parties, crashed>>
    PROVE  Calm'
  <1>1. t # "sql" /\ t \in Thread /\ "sql" \in Thread /\ Zone \subseteq Thread
    BY PartyAssumption DEF Thread
  <1>2. task'[t] = x /\ \A o \in Thread : o # t => task'[o] = task[o]
    BY <1>1 DEF Goes, Types, Tasks
  <1>3. Idle("sql")' /\ \A o \in Zone : o # t => Idle(o)'
    BY <1>1, <1>2 DEF Calm, Idle
  <1>4. ~Idle(t)' => Sure(t)'
    BY <1>2 DEF Idle
  <1>5. UNCHANGED <<status, party, slot, crashed>>
    BY DEF users, parties
  <1> QED
    BY <1>3, <1>4, <1>5 DEF Calm, IsHere

LEMMA BeginsCalm ==
    ASSUME OneZone, Types, Zoned, Calm, NEW u \in User, CanAct(u), NEW x, Begins(u, x),
           x.at \in {"make", "addmake", "add"} => party[x.with] # NoOne,
           x.at \in {"ban", "owner"} => party[x.me] # NoOne,
           x.at = "sub" => /\ slot[x.p][x.n] = Here(x.with)
                           /\ x.then = "quit" => x.me = x.with,
           x.at \notin {"count", "delete", "clear"}
    PROVE  Calm'
  <1>1. PICK t \in Zone : t = Home[u] /\ t \in Thread
    BY PartyAssumption DEF Thread
  <1>2. \A o \in Zone : Idle(o)
    BY NobodyActs DEF Zoned
  <1>3. Goes(t, x) /\ task'[t] = x /\ UNCHANGED <<users, parties, crashed>>
    BY <1>1 DEF Begins, Goes, Types, Tasks
  <1>4. Sure(t)'
    BY <1>3 DEF Sure, At, users, parties
  <1> QED
    BY <1>2, <1>3, <1>4, TaskCalm

LEMMA RequestCalm ==
    ASSUME OneZone, Types, Zoned, Calm, NEW u \in User
    PROVE  /\ \A v \in User : AcceptMake(u, v) \/ AcceptJoin(u, v) \/ Ban(u, v) \/ GiveOwner(u, v)
                                  => Calm'
           /\ Leave(u) \/ Quit(u) => Calm'
  <1>1. ASSUME NEW v \in User, AcceptMake(u, v) PROVE Calm'
    <2>1. PICK x : /\ Begins(u, x)
                   /\ x = [at |-> IF party[v] = NoOne THEN "create" ELSE "make",
                           me |-> u, with |-> v]
      BY <1>1 DEF AcceptMake
    <2> QED
      BY <1>1, <2>1, BeginsCalm DEF AcceptMake
  <1>2. ASSUME NEW v \in User, AcceptJoin(u, v) PROVE Calm'
    <2>1. PICK x : Begins(u, x) /\ x = [at |-> "join", me |-> u, with |-> v]
      BY <1>2 DEF AcceptJoin
    <2> QED
      BY <1>2, <2>1, BeginsCalm DEF AcceptJoin
  <1>3. ASSUME NEW v \in User, Ban(u, v) PROVE Calm'
    <2>1. PICK x : Begins(u, x) /\ x = [at |-> "ban", me |-> u, with |-> v]
      BY <1>3 DEF Ban
    <2> QED
      BY <1>3, <2>1, BeginsCalm DEF Ban
  <1>4. ASSUME NEW v \in User, GiveOwner(u, v) PROVE Calm'
    <2>1. PICK x : Begins(u, x) /\ x = [at |-> "owner", me |-> u, with |-> v]
      BY <1>4 DEF GiveOwner
    <2> QED
      BY <1>4, <2>1, BeginsCalm DEF GiveOwner
  <1>5. ASSUME CanAct(u), party[u] # NoOne, NEW s,
               Begins(u, Removal(u, u, party[u], pos[u], s))
        PROVE  Calm'
    <2>1. PICK x : Begins(u, x) /\ x = Removal(u, u, party[u], pos[u], s)
      BY <1>5
    <2>2. x.at = "sub" /\ x.me = u /\ x.with = u /\ x.p = party[u] /\ x.n = pos[u]
      BY <2>1 DEF Removal
    <2>3. slot[party[u]][pos[u]] = Here(u)
      BY <1>5, InPlace DEF CanAct
    <2> QED
      BY <1>5, <2>1, <2>2, <2>3, BeginsCalm
  <1>6. ASSUME party[u] = NoOne, status' = [status EXCEPT ![u] = "quit"],
               UNCHANGED <<party, pos, parties, task, crashed>>
        PROVE  Calm'
    <2>1. \A w \in User : status'[w] = IF w = u THEN "quit" ELSE status[w]
      BY <1>6 DEF Types, Users
    <2>2. \A o \in Thread : Sure(o) => Sure(o)'
      BY <1>6 DEF Sure, At, parties
    <2> QED
      BY <1>6, <2>1, <2>2 DEF Calm, Idle, IsHere, parties, Thread
  <1> QED
    BY <1>1, <1>2, <1>3, <1>4, <1>5, <1>6 DEF Leave, Quit

LEMMA SaveCalm ==
    ASSUME Types, Calm, NEW u \in User, Save(u)
    PROVE  Calm'
  <1>1. status[u] = "quit"
    BY DEF Save, Calm
  <1>2. status' = [status EXCEPT ![u] = "gone"] /\ UNCHANGED <<task, party, slot, crashed>>
    BY <1>1 DEF Save, parties
  <1>3. \A w \in User : status'[w] = IF w = u THEN "gone" ELSE status[w]
    BY <1>2 DEF Types, Users
  <1>4. party[u] = NoOne
    BY <1>1 DEF Calm
  <1>5. \A o \in Thread : Sure(o) => Sure(o)'
    BY <1>2 DEF Sure, At
  <1> QED
    BY <1>2, <1>3, <1>4, <1>5 DEF Calm, Idle, IsHere, Thread

\* It goes on, and its users and places stay in order.
LEMMA StepCalm ==
    ASSUME Types, Calm, NEW t \in Zone, \A o \in Zone : o # t => Idle(o),
           NEW x, Goes(t, x), x = NoTask \/ Sure(t)', UNCHANGED crashed,
           \A u \in User : /\ status'[u] \in {"zone", "quit", "gone"}
                           /\ status'[u] # "zone" => party'[u] = NoOne,
           \A p \in Party, i \in Place : slot'[p][i] # NoOne => slot'[p][i].here
    PROVE  Calm'
  <1>1. t # "sql" /\ t \in Thread /\ "sql" \in Thread /\ Zone \subseteq Thread
    BY PartyAssumption DEF Thread
  <1>2. task'[t] = x /\ \A o \in Thread : o # t => task'[o] = task[o]
    BY <1>1 DEF Goes, Types, Tasks
  <1>3. Idle("sql")' /\ \A o \in Zone : o # t => Idle(o)'
    BY <1>1, <1>2 DEF Calm, Idle
  <1>4. ~Idle(t)' => Sure(t)'
    BY <1>2 DEF Idle
  <1> QED
    BY <1>3, <1>4 DEF Calm, IsHere

LEMMA CreateCalm ==
    ASSUME OneZone, Types, Zoned, Calm, NEW t \in Thread, Create(t)
    PROVE  Calm'
  <1>1. ~Idle(t) /\ task[t].at = "create"
    BY TaskReads DEF Create, At, Types
  <1>2. /\ t \in Zone /\ ZoneTask(t) /\ task[t] \in Dealing \cup Leaving
        /\ task[t].with \in User
        /\ \A o \in Thread : o # t => Idle(o)
    BY <1>1, CalmThread
  <1>3. PICK v \in User : v = task[t].with /\ status[v] = "zone"
    BY <1>1, <1>2 DEF ZoneTask
  <1>4. task[t] \in Dealing
    BY <1>1, <1>2 DEF Leaving
  <1>5. \A o \in Zone : o # t => Idle(o)
    BY <1>2 DEF Thread
  <1>6. CASE Goes(t, NoTask) /\ UNCHANGED <<users, parties>>
    BY <1>2, <1>5, <1>6, TaskCalm DEF Create
  <1>7. ASSUME NEW p \in Party \ used,
               slot' = [slot EXCEPT ![p] = [i \in Place |-> IF i = 0 THEN Here(v) ELSE NoOne]],
               party' = [party EXCEPT ![v] = p],
               Goes(t, [task[t] EXCEPT !.at = "addmake"]),
               UNCHANGED status
        PROVE  Calm'
    <2>1. \A u \in User : party'[u] = IF u = v THEN p ELSE party[u]
      BY <1>7 DEF Types, Users
    <2>2. \A q \in Party, i \in Place :
             slot'[q][i] = IF q = p THEN IF i = 0 THEN Here(v) ELSE NoOne ELSE slot[q][i]
      BY <1>7 DEF Types, Parties
    <2>3. PICK x : x = [task[t] EXCEPT !.at = "addmake"]
      OBVIOUS
    <2>4. x.at = "addmake" /\ x.with = v
      BY <1>3, <1>4, <2>3 DEF Dealing
    <2>5. task'[t] = x /\ Goes(t, x)
      BY <1>7, <2>3 DEF Goes, Types, Tasks
    <2>6. Sure(t)'
      BY <2>1, <2>4, <2>5, PartyAssumption DEF Sure, At
    <2>7. \A q \in Party, i \in Place : slot'[q][i] # NoOne => slot'[q][i].here
      BY <2>2, HereIs DEF Calm, IsHere
    <2>8. \A u \in User : /\ status'[u] \in {"zone", "quit", "gone"}
                          /\ status'[u] # "zone" => party'[u] = NoOne
      BY <1>3, <1>7, <2>1 DEF Calm
    <2>9. UNCHANGED crashed
      BY DEF Create
    <2> QED
      BY <1>2, <1>5, <2>5, <2>6, <2>7, <2>8, <2>9, StepCalm
  <1> QED
    BY <1>3, <1>6, <1>7 DEF Create

LEMMA CheckOwnerCalm ==
    ASSUME OneZone, Types, Zoned, Calm, NEW t \in Thread, CheckOwner(t)
    PROVE  Calm'
  <1>1. ~Idle(t) /\ task[t].at \in {"make", "join"}
    BY TaskReads DEF CheckOwner, At, Types
  <1>2. /\ t \in Zone /\ Sure(t) /\ task[t] \in Dealing \cup Leaving
        /\ task[t].with \in User
        /\ \A o \in Thread : o # t => Idle(o)
    BY <1>1, CalmThread
  <1>3. PICK v \in User : v = task[t].with
    BY <1>2
  <1>4. task[t] \in Dealing
    BY <1>1, <1>2 DEF Leaving
  <1>5. \A o \in Zone : o # t => Idle(o)
    BY <1>2 DEF Thread
  <1>6. CASE Goes(t, NoTask) /\ UNCHANGED <<users, parties, locks, crashed>>
    BY <1>2, <1>5, <1>6, TaskCalm
  <1>7. ASSUME party[v] # NoOne, NEW a \in {"addmake", "add"},
               Goes(t, [task[t] EXCEPT !.at = a]), UNCHANGED <<users, parties, locks, crashed>>
        PROVE  Calm'
    <2>1. PICK x : x = [task[t] EXCEPT !.at = a]
      OBVIOUS
    <2>2. x.at = a /\ x.with = v
      BY <1>3, <1>4, <2>1 DEF Dealing
    <2>3. task'[t] = x /\ Goes(t, x)
      BY <1>7, <2>1 DEF Goes, Types, Tasks
    <2>4. Sure(t)'
      BY <1>7, <2>2, <2>3 DEF Sure, At, users
    <2> QED
      BY <1>2, <1>5, <1>7, <2>3, <2>4, TaskCalm
  <1>8. CASE party[v] = NoOne
    <2>1. task[t].at = "join"
      BY <1>1, <1>2, <1>3, <1>8 DEF Sure
    <2> QED
      BY <1>3, <1>6, <1>8, <2>1 DEF CheckOwner, At
  <1>9. CASE party[v] # NoOne
    BY <1>3, <1>6, <1>7, <1>9 DEF CheckOwner
  <1> QED
    BY <1>8, <1>9

LEMMA AddCalm ==
    ASSUME OneZone, Types, Zoned, Calm, NEW t \in Thread, Add(t)
    PROVE  Calm'
  <1>1. ~Idle(t) /\ task[t].at \in {"add", "addmake"}
    BY TaskReads DEF Add, At, Types
  <1>2. /\ t \in Zone /\ Sure(t) /\ ZoneTask(t) /\ task[t] \in Dealing \cup Leaving
        /\ task[t].me \in User /\ task[t].with \in User
        /\ \A o \in Thread : o # t => Idle(o)
    BY <1>1, CalmThread
  <1>3. PICK u \in User, v \in User : u = task[t].me /\ v = task[t].with
    BY <1>2
  <1>4. status[u] = "zone" /\ task[t] \in Dealing
    BY <1>1, <1>2, <1>3 DEF ZoneTask, Leaving
  <1>5. \A o \in Zone : o # t => Idle(o)
    BY <1>2 DEF Thread
  <1>6. PICK p \in Party : p = party[v] /\ p # NoOne
    BY <1>1, <1>2, <1>3 DEF Sure, Types, Users
  <1>7. PICK x : x = IF At(t, "addmake") THEN [task[t] EXCEPT !.at = "join"] ELSE NoTask
    OBVIOUS
  <1>8. Goes(t, x) /\ UNCHANGED crashed
    BY <1>3, <1>6, <1>7 DEF Add
  <1>9. x = NoTask \/ Sure(t)'
    <2>1. CASE At(t, "addmake")
      <3>1. x.at = "join"
        BY <1>4, <1>7, <2>1 DEF Dealing
      <3>2. task'[t] = x
        BY <1>8 DEF Goes, Types, Tasks
      <3> QED
        BY <3>1, <3>2 DEF Sure, At
    <2> QED
      BY <1>7, <2>1
  <1>10. CASE UNCHANGED <<users, parties>>
    BY <1>2, <1>5, <1>8, <1>9, <1>10, TaskCalm
  <1>11. CASE HasRoom(p)
    <2>1. PICK c \in Place : c = count[p]
      BY <1>11, Places DEF HasRoom, Types, Parties
    <2>2. /\ slot' = [slot EXCEPT ![p][c] = Here(u)]
          /\ party' = [party EXCEPT ![u] = p]
          /\ UNCHANGED status
      BY <1>3, <1>6, <1>11, <2>1 DEF Add
    <2>3. \A q \in Party, i \in Place :
             slot'[q][i] = IF q = p /\ i = c THEN Here(u) ELSE slot[q][i]
      <3>1. slot[p] \in Slots
        BY DEF Types, Parties
      <3> QED
        BY <2>2, <3>1 DEF Slots, Types, Parties
    <2>4. \A q \in Party, i \in Place : slot'[q][i] # NoOne => slot'[q][i].here
      BY <2>3, HereIs DEF Calm, IsHere
    <2>5. \A w \in User : party'[w] = IF w = u THEN p ELSE party[w]
      BY <2>2 DEF Types, Users
    <2>6. \A w \in User : /\ status'[w] \in {"zone", "quit", "gone"}
                          /\ status'[w] # "zone" => party'[w] = NoOne
      BY <1>4, <2>2, <2>5 DEF Calm
    <2> QED
      BY <1>2, <1>5, <1>8, <1>9, <2>4, <2>6, StepCalm
  <1> QED
    BY <1>3, <1>6, <1>10, <1>11 DEF Add

LEMMA KickMemberCalm ==
    ASSUME OneZone, Types, Zoned, Calm, NEW t \in Thread, KickMember(t)
    PROVE  Calm'
  <1>1. ~Idle(t) /\ task[t].at = "ban"
    BY TaskReads DEF KickMember, At, Types
  <1>2. /\ t \in Zone /\ Sure(t) /\ task[t].me \in User /\ task[t].with \in User
        /\ \A o \in Thread : o # t => Idle(o)
    BY <1>1, CalmThread
  <1>3. PICK u \in User, v \in User : u = task[t].me /\ v = task[t].with
    BY <1>2
  <1>4. \A o \in Zone : o # t => Idle(o)
    BY <1>2 DEF Thread
  <1>5. PICK p \in Party : p = party[u] /\ p # NoOne
    BY <1>1, <1>2, <1>3 DEF Sure, Types, Users
  <1>6. PICK found : found = {i \in 1 .. count[p] - 1 : slot[p][i] # NoOne /\ slot[p][i].user = v}
    OBVIOUS
  <1>7. UNCHANGED <<users, parties, crashed>>
    BY <1>3, <1>5 DEF KickMember
  <1>8. CASE Goes(t, NoTask)
    BY <1>2, <1>4, <1>7, <1>8, TaskCalm
  <1>9. CASE found # {} /\ Goes(t, Removal(u, v, p, LeastOf(found), "zone"))
    <2>1. PICK n \in found : n = LeastOf(found)
      <3>1. found \in SUBSET Nat
        BY <1>6
      <3>2. \E i \in found : \A j \in found : i <= j
        BY <1>9, <3>1, LeastNumber
      <3> QED
        BY <3>2 DEF LeastOf
    <2>2. n \in Place /\ slot[p][n] # NoOne /\ slot[p][n].user = v
      BY <1>6, <2>1, Places DEF Types, Parties
    <2>3. slot[p][n] = Here(v)
      <3>1. slot[p][n] \in Member /\ slot[p][n].here
        BY <2>2 DEF Calm, IsHere, Types, Parties, Slots
      <3> QED
        BY <2>2, <3>1 DEF Member, Here
    <2>4. PICK x : x = Removal(u, v, p, n, "zone")
      OBVIOUS
    <2>5. x.at = "sub" /\ x.me = u /\ x.with = v /\ x.p = p /\ x.n = n /\ x.then = "zone"
      BY <2>4 DEF Removal
    <2>6. Goes(t, x) /\ task'[t] = x
      BY <1>9, <2>1, <2>4 DEF Goes, Types, Tasks
    <2>7. Sure(t)'
      BY <1>7, <2>3, <2>5, <2>6 DEF Sure, At, parties
    <2> QED
      BY <1>2, <1>4, <1>7, <2>6, <2>7, TaskCalm
  <1> QED
    BY <1>3, <1>5, <1>6, <1>8, <1>9 DEF KickMember

LEMMA HandOverCalm ==
    ASSUME OneZone, Types, Zoned, Calm, NEW t \in Thread, HandOver(t)
    PROVE  Calm'
  <1>1. ~Idle(t) /\ task[t].at = "owner"
    BY TaskReads DEF HandOver, At, Types
  <1>2. /\ t \in Zone /\ Sure(t) /\ task[t].me \in User /\ task[t].with \in User
        /\ \A o \in Thread : o # t => Idle(o)
    BY <1>1, CalmThread
  <1>3. PICK u \in User, v \in User : u = task[t].me /\ v = task[t].with
    BY <1>2
  <1>4. \A o \in Zone : o # t => Idle(o)
    BY <1>2 DEF Thread
  <1>5. PICK p \in Party : p = party[u] /\ p # NoOne
    BY <1>1, <1>2, <1>3 DEF Sure, Types, Users
  <1>6. ChangeOwner(p, v, slot[p]) /\ Goes(t, NoTask) /\ UNCHANGED <<status, party, crashed>>
    BY <1>3, <1>5 DEF HandOver
  <1>7. PICK n \in Place : n = pos[v]
    BY DEF Types, Users
  <1>8. PICK new : new = [slot[p] EXCEPT ![0] = slot[p][n], ![n] = slot[p][0]]
    OBVIOUS
  <1>9. \A i \in Place : \E k \in Place : new[i] = slot[p][k]
    BY <1>8, Places DEF Types, Parties, Slots
  <1>10. slot' = [slot EXCEPT ![p] = new]
    BY <1>6, <1>7, <1>8 DEF ChangeOwner
  <1>11. slot'[p] = new /\ \A q \in Party : q # p => slot'[q] = slot[q]
    BY <1>10 DEF Types, Parties
  <1>12. \A q \in Party, i \in Place : slot'[q][i] # NoOne => slot'[q][i].here
    BY <1>9, <1>11 DEF Calm, IsHere
  <1>13. \A w \in User : /\ status'[w] \in {"zone", "quit", "gone"}
                         /\ status'[w] # "zone" => party'[w] = NoOne
    BY <1>6 DEF Calm
  <1> QED
    BY <1>2, <1>4, <1>6, <1>12, <1>13, StepCalm

\* The member is out, and the thread is done.
LEMMA FinishCalm ==
    ASSUME OneZone, Types, Zoned, Calm, NEW t \in Thread, ~Idle(t),
           task[t].at \in {"count", "delete", "clear"},
           NEW p \in Party, Finish(t, p), UNCHANGED crashed,
           \A w \in User : party'[w] \in {party[w], NoOne},
           \A q \in Party, i \in Place : slot'[q][i] # NoOne => slot'[q][i] = slot[q][i]
    PROVE  Calm'
  <1>1. /\ t \in Zone /\ Sure(t) /\ task[t].me \in User
        /\ task[t] \in Dealing \cup Leaving
        /\ \A o \in Thread : o # t => Idle(o)
    BY CalmThread
  <1>2. PICK u \in User, s \in {"zone", "quit"} : u = task[t].me /\ s = task[t].then
    BY <1>1, TaskForms DEF Dealing
  <1>3. s = "quit" => party[u] = NoOne
    BY <1>1, <1>2 DEF Sure
  <1>4. \A w \in User : status'[w] = IF w = u THEN s ELSE status[w]
    BY <1>2 DEF Finish, Types, Users
  <1>5. \A w \in User : /\ status'[w] \in {"zone", "quit", "gone"}
                        /\ status'[w] # "zone" => party'[w] = NoOne
    BY <1>3, <1>4 DEF Calm
  <1>6. \A q \in Party, i \in Place : slot'[q][i] # NoOne => slot'[q][i].here
    BY DEF Calm, IsHere
  <1>7. Goes(t, NoTask) /\ \A o \in Zone : o # t => Idle(o)
    BY <1>1 DEF Finish, Thread
  <1> QED
    BY <1>1, <1>5, <1>6, <1>7, StepCalm

\* It goes on to the next step of leaving.
LEMMA OnCalm ==
    ASSUME OneZone, Types, Zoned, Calm, NEW t \in Thread, ~Idle(t),
           task[t].at \in {"count", "delete"}, NEW a \in {"delete", "clear"},
           Goes(t, [task[t] EXCEPT !.at = a]), UNCHANGED <<users, parties, crashed>>
    PROVE  Calm'
  <1>1. /\ t \in Zone /\ Sure(t) /\ task[t] \in Dealing \cup Leaving
        /\ \A o \in Thread : o # t => Idle(o)
    BY CalmThread
  <1>2. PICK x : x = [task[t] EXCEPT !.at = a]
    OBVIOUS
  <1>3. x.at = a /\ x.then = task[t].then /\ x.me = task[t].me
    BY <1>1, <1>2 DEF Dealing, Leaving
  <1>4. Goes(t, x) /\ task'[t] = x
    BY <1>2 DEF Goes, Types, Tasks
  <1>5. Sure(t)'
    BY <1>1, <1>3, <1>4 DEF Sure, At, users
  <1>6. \A o \in Zone : o # t => Idle(o)
    BY <1>1 DEF Thread
  <1> QED
    BY <1>1, <1>4, <1>5, <1>6, TaskCalm

LEMMA CountLeftCalm ==
    ASSUME OneZone, Types, Zoned, Calm, NEW t \in Thread, CountLeft(t)
    PROVE  Calm'
  <1>1. ~Idle(t) /\ task[t].at = "count"
    BY TaskReads DEF CountLeft, At, Types
  <1>2. CASE TooSmall(task[t].p)
    <2>1. Goes(t, [task[t] EXCEPT !.at = "delete"]) /\ UNCHANGED <<users, parties, crashed>>
      BY <1>2 DEF CountLeft, users
    <2> QED
      BY <1>1, <2>1, OnCalm
  <1>3. CASE ~TooSmall(task[t].p)
    <2>1. Finish(t, task[t].p) /\ UNCHANGED <<party, slot, crashed>>
      BY <1>3 DEF CountLeft, parties
    <2>2. task[t].p \in Party
      BY <1>1, TaskReads, TaskForms DEF Types
    <2> QED
      BY <1>1, <2>1, <2>2, FinishCalm
  <1> QED
    BY <1>2, <1>3

LEMMA LockPoolCalm ==
    ASSUME OneZone, Types, Zoned, Calm, NEW t \in Thread, LockPool(t)
    PROVE  Calm'
  <1>1. ~Idle(t) /\ task[t].at = "delete"
    BY TaskReads DEF LockPool, At, Types
  <1>2. CASE task[t].p \in used
    <2>1. Goes(t, [task[t] EXCEPT !.at = "clear"]) /\ UNCHANGED <<users, parties, crashed>>
      BY <1>2 DEF LockPool, users
    <2> QED
      BY <1>1, <2>1, OnCalm
  <1>3. CASE task[t].p \notin used
    <2>1. Finish(t, task[t].p) /\ UNCHANGED <<party, slot, crashed>>
      BY <1>3 DEF LockPool, parties
    <2>2. task[t].p \in Party
      BY <1>1, TaskReads, TaskForms DEF Types
    <2> QED
      BY <1>1, <2>1, <2>2, FinishCalm
  <1> QED
    BY <1>2, <1>3

LEMMA ClearCalm ==
    ASSUME OneZone, Types, Zoned, Calm, NEW t \in Thread, Clear(t)
    PROVE  Calm'
  <1>1. ~Idle(t) /\ task[t].at = "clear"
    BY TaskReads DEF Clear, At, Types
  <1>2. PICK p \in Party : p = task[t].p
    BY <1>1, TaskReads, TaskForms DEF Types
  <1>3. PICK places : places = {i \in Place : i < count[p]}
    OBVIOUS
  <1>4. /\ Finish(t, p) /\ UNCHANGED crashed
        /\ slot' = [slot EXCEPT ![p] = [i \in Place |-> IF i \in places THEN NoOne ELSE @[i]]]
        /\ party' = [w \in User |->
                        IF \E i \in places : slot[p][i] = Here(w) THEN NoOne ELSE party[w]]
    BY <1>2, <1>3 DEF Clear
  <1>5. \A w \in User : party'[w] \in {party[w], NoOne}
    BY <1>4
  <1>6. PICK new : new = [i \in Place |-> IF i \in places THEN NoOne ELSE slot[p][i]]
    OBVIOUS
  <1>7. slot' = [slot EXCEPT ![p] = new]
    BY <1>4, <1>6
  <1>8. \A q \in Party, i \in Place : slot'[q][i] # NoOne => slot'[q][i] = slot[q][i]
    BY <1>6, <1>7 DEF Types, Parties
  <1> QED
    BY <1>1, <1>4, <1>5, <1>8, FinishCalm

\* A party that somebody leaves has two members: the one who moves up to the head exists.
LEMMA SubCalm ==
    ASSUME OneZone, Types, Zoned, Calm, NEW t \in Thread, Sub(t)
    PROVE  Calm'
  <1>1. ~Idle(t) /\ task[t].at = "sub" /\ At(t, "sub")
    BY TaskReads DEF Sub, At, Types
  <1>2. /\ t \in Zone /\ Sure(t) /\ task[t] \in Dealing \cup Leaving
        /\ task[t].with \in User
        /\ \A o \in Thread : o # t => Idle(o)
    BY <1>1, CalmThread
  <1>3. task[t] \in Leaving
    BY <1>1, <1>2 DEF Dealing
  <1>4. PICK p \in Party, n \in Place, v \in User : p = task[t].p /\ n = task[t].n /\ v = task[t].with
    BY <1>2, <1>3, TaskForms
  <1>5. slot[p][n] = Here(v) /\ slot[p][n] # NoOne /\ slot[p][n].here /\ slot[p][n].user = v
    <2>1. slot[p][n] = Here(v)
      BY <1>1, <1>2, <1>4 DEF Sure
    <2> QED
      BY <2>1, HereIs
  <1>6. PICK after, moved : after = Closed(p, n) /\ moved = n .. count[p] - 2
    OBVIOUS
  <1>7. p \in used /\ n < count[p] /\ count[p] \in Nat /\ n \in Nat /\ count[p] <= Capacity
    BY <1>5, Places DEF Zoned, Counted, Types, Parties
  <1>8. count[p] >= 2
    <2>1. \A o \in Thread : o # t => task[o].at = "idle"
      BY <1>2, TaskReads DEF Types
    <2>2. ~Making(p) /\ ~Deleting(p)
      BY <1>1, <2>1 DEF Making, Deleting, At, Thread
    <2> QED
      BY <1>7, <2>2 DEF Zoned, Exact
  <1>9. \A i \in moved \cup {0} : after[i] # NoOne
    <2> SUFFICES ASSUME NEW i \in moved \cup {0} PROVE after[i] # NoOne
      OBVIOUS
    <2>1. i \in Nat /\ i < count[p] - 1 /\ i \in Place
      BY <1>6, <1>7, <1>8, Places
    <2>2. CASE i < n
      <3>1. after[i] = slot[p][i] /\ i < count[p]
        BY <1>6, <1>7, <2>1, <2>2 DEF Closed
      <3> QED
        BY <1>7, <2>1, <3>1 DEF Zoned, Counted
    <2>3. CASE ~ (i < n)
      <3>1. after[i] = slot[p][i + 1]
        BY <1>6, <2>1, <2>3 DEF Closed
      <3>2. i + 1 \in Place /\ i + 1 < count[p]
        BY <1>7, <2>1, Places
      <3> QED
        BY <1>7, <3>1, <3>2 DEF Zoned, Counted
    <2> QED
      BY <2>2, <2>3
  <1>10. /\ slot' = [slot EXCEPT ![p] = after]
         /\ party' = [party EXCEPT ![v] = NoOne]
         /\ Goes(t, [task[t] EXCEPT !.at = "count"])
         /\ UNCHANGED <<status, crashed>>
    BY <1>4, <1>5, <1>6, <1>9 DEF Sub
  <1>11. PICK x : x = [task[t] EXCEPT !.at = "count"]
    OBVIOUS
  <1>12. x.at = "count" /\ x.then = task[t].then /\ x.me = task[t].me
    BY <1>3, <1>11 DEF Leaving
  <1>13. Goes(t, x) /\ task'[t] = x
    BY <1>10, <1>11 DEF Goes, Types, Tasks
  <1>14. \A w \in User : party'[w] = IF w = v THEN NoOne ELSE party[w]
    BY <1>10 DEF Types, Users
  <1>15. Sure(t)'
    <2>1. task[t].then = "quit" => task[t].me = v
      BY <1>1, <1>2, <1>4 DEF Sure
    <2> QED
      BY <1>12, <1>13, <1>14, <2>1 DEF Sure, At
  <1>16. \A q \in Party, i \in Place : slot'[q][i] # NoOne => slot'[q][i].here
    <2> SUFFICES ASSUME NEW q \in Party, NEW i \in Place, slot'[q][i] # NoOne
                 PROVE  slot'[q][i].here
      OBVIOUS
    <2>1. CASE q # p
      BY <1>10, <2>1 DEF Calm, IsHere, Types, Parties
    <2>2. CASE q = p
      <3>1. slot'[q][i] = after[i]
        BY <1>10, <2>2 DEF Types, Parties
      <3>2. \E k \in Place : after[i] = slot[p][k]
        <4>1. CASE i < n
          BY <1>6, <4>1 DEF Closed
        <4>2. CASE ~ (i < n)
          <5>1. i < count[p] - 1 /\ after[i] = slot[p][i + 1]
            BY <1>6, <3>1, <4>2 DEF Closed
          <5>2. i + 1 \in Place
            BY <1>7, <5>1, Places
          <5> QED
            BY <5>1, <5>2
        <4> QED
          BY <4>1, <4>2
      <3> QED
        BY <3>1, <3>2 DEF Calm, IsHere
    <2> QED
      BY <2>1, <2>2
  <1>17. \A w \in User : /\ status'[w] \in {"zone", "quit", "gone"}
                         /\ status'[w] # "zone" => party'[w] = NoOne
    BY <1>10, <1>14 DEF Calm
  <1>18. \A o \in Zone : o # t => Idle(o)
    BY <1>2 DEF Thread
  <1> QED
    BY <1>2, <1>10, <1>13, <1>15, <1>16, <1>17, <1>18, StepCalm

LEMMA AlwaysCalm == ASSUME OneZone, CanDrop = {} PROVE Spec => [](Types /\ Zoned /\ Calm)
  <1>1. Init => Calm
    <2> SUFFICES ASSUME Init PROVE Calm
      OBVIOUS
    <2>1. /\ \A p \in Party, i \in Place : slot[p][i] = NoOne
          /\ \A u \in User : status[u] = "zone"
          /\ \A t \in Thread : Idle(t)
          /\ ~crashed
      BY DEF Init, Idle
    <2> QED
      BY <2>1 DEF Calm, Thread
  <1>2. ASSUME Types, Zoned, Calm, [Next]_vars PROVE Calm'
    <2>1. CASE UNCHANGED vars
      BY <1>2, <2>1 DEF vars, users, parties, Calm, Idle, IsHere, Sure, At
    <2>2. ASSUME NEW u \in User, NEW v \in User,
                 AcceptMake(u, v) \/ AcceptJoin(u, v) \/ Ban(u, v) \/ GiveOwner(u, v)
          PROVE  Calm'
      BY <1>2, <2>2, RequestCalm
    <2>3. ASSUME NEW u \in User, Leave(u) \/ Quit(u) \/ Drop(u) \/ Save(u) PROVE Calm'
      BY <1>2, <2>3, RequestCalm, SaveCalm DEF Drop
    <2>4. ASSUME NEW t \in Thread, Step(t) PROVE Calm'
      BY <1>2, <2>4, CreateCalm, CheckOwnerCalm, AddCalm, KickMemberCalm, SubCalm, CountLeftCalm,
         LockPoolCalm, ClearCalm, HandOverCalm DEF Step
    <2>5. ~OnDisconnect
      <3>1. task["sql"].at = "idle"
        BY <1>2, TaskReads DEF Calm, Types, Thread
      <3> QED
        BY <3>1 DEF OnDisconnect, At
    <2> QED
      BY <1>2, <2>1, <2>2, <2>3, <2>4, <2>5 DEF Next
  <1>3. Types /\ Zoned /\ Calm /\ [Next]_vars => Calm'
    BY <1>2
  <1> QED
    BY <1>1, <1>3, AlwaysZoned, PTL DEF Spec

\* In one zone where nobody is cut off, no handler goes through a null pointer: not
\* Sub_PartyUSER, which looks at those who move up and at the new head, nor one that tests
\* a user's party a step before it uses it.
THEOREM NoCrashSafety == ASSUME OneZone, CanDrop = {} PROVE Spec => []NoCrash
  <1>1. Calm => NoCrash
    BY DEF Calm, NoCrash
  <1> QED
    BY <1>1, AlwaysCalm, PTL

\* In one zone where nobody is cut off, a place that was read before the party was locked
\* is still that of the one who leaves, goes to the character list, or is banned.
THEOREM RightOneOutSafety == ASSUME OneZone, CanDrop = {} PROVE Spec => RightOneOut
  <1>1. ASSUME Types, Zoned, Calm, NEW t \in Thread, At(t, "sub")
        PROVE  slot[task[t].p][task[t].n].user = task[t].with
    <2>1. ~Idle(t)
      BY <1>1, TaskReads DEF At, Types
    <2>2. task[t].with \in User /\ Sure(t)
      BY <1>1, <2>1, CalmThread
    <2>3. slot[task[t].p][task[t].n] = Here(task[t].with)
      BY <1>1, <2>2 DEF Sure
    <2> QED
      BY <2>2, <2>3, HereIs
  <1>2. Types /\ Zoned /\ Calm =>
           [\A t \in Thread : At(t, "sub") /\ task'[t].at = "count"
                => slot[task[t].p][task[t].n].user = task[t].with]_vars
    BY <1>1
  <1> QED
    BY <1>2, AlwaysCalm, PTL DEF RightOneOut

-----------------------------------------------------------------------------
(***************************************************************************)
(* One zone, and nobody goes back to the character list: nobody who is     *)
(* here has been freed.                                                    *)

\* How the zone's thread goes on.
LEMMA StepTask ==
    ASSUME Types, Alive, NEW t \in Zone, t \in Thread, t # "sql", Step(t)
    PROVE  \/ Crash
           \/ \E x : Goes(t, x) /\ (x = NoTask \/ x \in Dealing \/ x.then = "zone")
  <1>1. CASE Create(t) \/ CheckOwner(t) \/ Add(t)
    <2>1. task[t] \in Dealing
      BY <1>1, TaskReads DEF Create, CheckOwner, Add, At, Types
    <2>2. \A a \in {"join", "addmake", "add"} : [task[t] EXCEPT !.at = a] \in Dealing
      BY <2>1, TaskForms
    <2>3. CASE Create(t)
      <3>1. Goes(t, NoTask) \/ Goes(t, [task[t] EXCEPT !.at = "addmake"])
        BY <2>3 DEF Create
      <3> QED
        BY <2>2, <3>1
    <2>4. CASE CheckOwner(t)
      <3>1. \/ Crash \/ Goes(t, NoTask)
            \/ Goes(t, [task[t] EXCEPT !.at = "addmake"]) \/ Goes(t, [task[t] EXCEPT !.at = "add"])
        BY <2>4 DEF CheckOwner
      <3> QED
        BY <2>2, <3>1
    <2>5. CASE Add(t)
      <3>1. Crash \/ Goes(t, NoTask) \/ Goes(t, [task[t] EXCEPT !.at = "join"])
        BY <2>5 DEF Add
      <3> QED
        BY <2>2, <3>1
    <2> QED
      BY <1>1, <2>3, <2>4, <2>5
  <1>2. CASE KickMember(t)
    <2>1. \/ Crash \/ Goes(t, NoTask)
          \/ \E v, p, n : Goes(t, Removal(task[t].me, v, p, n, "zone"))
      BY <1>2 DEF KickMember
    <2>2. \A v, p, n : Removal(task[t].me, v, p, n, "zone").then = "zone"
      BY DEF Removal
    <2> QED
      BY <2>1, <2>2
  <1>3. CASE Sub(t) \/ CountLeft(t) \/ LockPool(t) \/ Clear(t)
    <2>1. task[t].at \in {"sub", "count", "delete", "clear"}
      BY <1>3 DEF Sub, CountLeft, LockPool, Clear, At
    <2>2. task[t] \in Leaving /\ ~Idle(t)
      BY <2>1, TaskReads DEF Types, At
    <2>3. task[t].then = "zone"
      BY <2>1, <2>2 DEF Alive, Dealing
    <2>4. \A a \in {"count", "delete", "clear"} : [task[t] EXCEPT !.at = a].then = "zone"
      BY <2>2, <2>3 DEF Leaving
    <2>5. \/ Crash \/ Goes(t, NoTask)
          \/ \E a \in {"count", "delete", "clear"} : Goes(t, [task[t] EXCEPT !.at = a])
      <3>1. CASE Sub(t)
        BY <3>1 DEF Sub, Finish
      <3>2. CASE CountLeft(t)
        BY <3>2 DEF CountLeft, Finish
      <3>3. CASE LockPool(t)
        BY <3>3 DEF LockPool, Finish
      <3>4. CASE Clear(t)
        BY <3>4 DEF Clear, Finish
      <3> QED
        BY <1>3, <3>1, <3>2, <3>3, <3>4
    <2> QED
      BY <2>4, <2>5
  <1>4. CASE HandOver(t)
    BY <1>4 DEF HandOver
  <1> QED
    BY <1>1, <1>2, <1>3, <1>4 DEF Step

\* Where the members of a party come from.
LEMMA StepMembers ==
    ASSUME OneZone, Types, Zoned, NEW t \in Thread, Step(t),
           NEW q \in Party, NEW j \in Place, IsHere(q, j)'
    PROVE  \/ \E k \in Place : slot'[q][j] = slot[q][k]
           \/ status[slot'[q][j].user] = "zone" /\ UNCHANGED status
  <1>1. CASE UNCHANGED slot
    BY <1>1
  <1>2. CASE Create(t) \/ Add(t)
    <2>1. task[t] \in Dealing /\ t \in Zone /\ ~Idle(t)
      BY <1>2, TaskReads DEF Create, Add, At, Types
    <2>2. PICK u \in User, v \in User : u = task[t].me /\ v = task[t].with
      BY <2>1, TaskForms
    <2>3. status[u] = "zone" /\ status[v] = "zone"
      BY <1>2, <2>1, <2>2 DEF Zoned, ZoneTasks, ZoneTask, Create, Add, At
    <2>4. ASSUME NEW w \in User, status[w] = "zone", UNCHANGED status, NEW p \in Party,
                 \A i \in Place : slot'[p][i] \in {NoOne, Here(w), slot[p][i]},
                 \A r \in Party : r # p => slot'[r] = slot[r]
          PROVE  \/ \E k \in Place : slot'[q][j] = slot[q][k]
                 \/ status[slot'[q][j].user] = "zone" /\ UNCHANGED status
      BY <2>4, HereIs DEF IsHere
    <2>5. CASE Create(t) /\ slot' # slot
      <3>1. PICK p \in Party \ used :
               /\ slot' = [slot EXCEPT ![p] = [i \in Place |-> IF i = 0 THEN Here(v) ELSE NoOne]]
               /\ UNCHANGED status
        BY <2>2, <2>5 DEF Create, parties
      <3>2. \A i \in Place : slot'[p][i] \in {NoOne, Here(v), slot[p][i]}
        BY <3>1 DEF Types, Parties
      <3>3. \A r \in Party : r # p => slot'[r] = slot[r]
        BY <3>1 DEF Types, Parties
      <3> QED
        BY <2>3, <2>4, <3>1, <3>2, <3>3
    <2>6. CASE Add(t) /\ slot' # slot
      <3>1. PICK p \in Party : p = party[v]
        BY <2>2, <2>6 DEF Add, Crash, parties, Types, Users
      <3>2. /\ slot' = [slot EXCEPT ![p][count[p]] = Here(u)]
            /\ UNCHANGED status
        BY <2>2, <2>6, <3>1, PartyAssumption DEF Add, parties, Crash
      <3>3. /\ \A i \in Place : slot'[p][i] \in {NoOne, Here(u), slot[p][i]}
            /\ \A r \in Party : r # p => slot'[r] = slot[r]
        <4>1. slot[p] \in Slots
          BY DEF Types, Parties
        <4> QED
          BY <3>2, <4>1 DEF Slots, Types, Parties
      <3> QED
        BY <2>3, <2>4, <3>2, <3>3
    <2> QED
      BY <1>1, <1>2, <2>5, <2>6
  <1>3. CASE Sub(t) /\ slot' # slot
    <2>1. task[t] \in Leaving
      BY <1>3, TaskReads DEF Sub, At, Types
    <2>2. PICK p \in Party, n \in Place : p = task[t].p /\ n = task[t].n
      BY <2>1, TaskForms
    <2>3. slot[p][n] # NoOne /\ slot' = [slot EXCEPT ![p] = Closed(p, n)]
      BY <1>3, <2>2 DEF Sub, parties, Crash
    <2>4. CASE q # p
      BY <2>3, <2>4 DEF Types, Parties
    <2>5. CASE q = p
      <3>1. slot'[q][j] = Closed(p, n)[j] /\ Closed(p, n)[j] # NoOne
        BY <2>3, <2>5 DEF IsHere, Types, Parties
      <3>2. CASE j < n
        BY <2>5, <3>1, <3>2 DEF Closed
      <3>3. CASE ~ (j < n)
        <4>1. j < count[p] - 1 /\ Closed(p, n)[j] = slot[p][j + 1]
          BY <3>1, <3>3 DEF Closed
        <4>2. j + 1 \in Place
          BY <4>1, Places DEF Types, Parties
        <4> QED
          BY <2>5, <3>1, <4>1, <4>2
      <3> QED
        BY <3>2, <3>3
    <2> QED
      BY <2>4, <2>5
  <1>4. CASE Clear(t)
    <2>1. task[t].p \in Party
      BY <1>4, TaskReads, TaskForms DEF Clear, At, Types
    <2>2. PICK p \in Party : p = task[t].p
      BY <2>1
    <2>3. PICK places : places = {i \in Place : i < count[p]}
      OBVIOUS
    <2>4. slot' = [slot EXCEPT ![p] = [i \in Place |-> IF i \in places THEN NoOne ELSE @[i]]]
      BY <1>4, <2>2, <2>3 DEF Clear
    <2>5. PICK empty : empty = [i \in Place |-> IF i \in places THEN NoOne ELSE slot[p][i]]
      OBVIOUS
    <2>6. slot' = [slot EXCEPT ![p] = empty]
      BY <2>4, <2>5
    <2> QED
      BY <2>5, <2>6 DEF IsHere, Types, Parties
  <1>5. CASE HandOver(t) /\ slot' # slot
    <2>1. task[t] \in Dealing
      BY <1>5, TaskReads DEF HandOver, At, Types
    <2>2. PICK u \in User, v \in User : u = task[t].me /\ v = task[t].with
      BY <2>1, TaskForms
    <2>3. PICK p \in Party, n \in Place : p = party[u] /\ n = pos[v]
      BY <1>5, <2>2 DEF HandOver, Crash, parties, Types, Users
    <2>4. PICK new : new = [slot[p] EXCEPT ![0] = slot[p][n], ![n] = slot[p][0]]
      OBVIOUS
    <2>5. slot' = [slot EXCEPT ![p] = new]
      BY <1>5, <2>2, <2>3, <2>4, PartyAssumption DEF HandOver, ChangeOwner, Crash, parties
    <2>6. \A i \in Place : \E k \in Place : new[i] = slot[p][k]
      BY <2>4, Places DEF Types, Parties, Slots
    <2> QED
      BY <2>5, <2>6 DEF Types, Parties
  <1>6. CASE CheckOwner(t) \/ KickMember(t) \/ CountLeft(t) \/ LockPool(t)
    <2>1. UNCHANGED slot
      BY <1>6 DEF CheckOwner, KickMember, CountLeft, LockPool, Crash, parties
    <2> QED
      BY <2>1
  <1> QED
    BY <1>1, <1>2, <1>3, <1>4, <1>5, <1>6 DEF Step

\* Who is freed or goes to the character list.
LEMMA StepStatus ==
    ASSUME Types, NEW t \in Thread, Step(t)
    PROVE  \/ UNCHANGED status
           \/ /\ task[t].at \in {"sub", "count", "delete", "clear"}
              /\ task[t].me \in User /\ task[t].p \in Party
              /\ \A w \in User : status'[w] = IF w = task[t].me THEN task[t].then ELSE status[w]
  <1>1. CASE \/ Create(t) \/ CheckOwner(t) \/ Add(t) \/ KickMember(t) \/ HandOver(t)
    BY <1>1 DEF Create, CheckOwner, Add, KickMember, HandOver, Crash, users
  <1>2. CASE Sub(t) \/ CountLeft(t) \/ LockPool(t) \/ Clear(t)
    <2>1. task[t].at \in {"sub", "count", "delete", "clear"}
      BY <1>2 DEF Sub, CountLeft, LockPool, Clear, At
    <2>2. task[t] \in Leaving \cup Saving
      BY <2>1, TaskReads DEF Types, At
    <2>3. task[t].me \in User /\ task[t].p \in Party
      BY <2>2, TaskForms
    <2>4. UNCHANGED status \/ status' = [status EXCEPT ![task[t].me] = task[t].then]
      <3>1. CASE Sub(t)
        BY <3>1 DEF Sub, Finish, Crash, users
      <3>2. CASE CountLeft(t)
        BY <3>2 DEF CountLeft, Finish
      <3>3. CASE LockPool(t)
        BY <3>3 DEF LockPool, Finish
      <3>4. CASE Clear(t)
        BY <3>4 DEF Clear, Finish
      <3> QED
        BY <1>2, <3>1, <3>2, <3>3, <3>4
    <2> QED
      BY <2>1, <2>3, <2>4 DEF Types, Users
  <1> QED
    BY <1>1, <1>2 DEF Step

\* The tasks of the zone's thread never end in the character list.
LEMMA AliveTasks ==
    ASSUME Types, NEW t \in Thread, NEW x, Goes(t, x),
           \A o \in Zone : ~Idle(o) => task[o] \in Dealing \/ task[o].then = "zone",
           t = "sql" \/ x = NoTask \/ x \in Dealing \/ x.then = "zone"
    PROVE  \A o \in Zone : ~Idle(o)' => task'[o] \in Dealing \/ task'[o].then = "zone"
  <1>1. task'[t] = x /\ \A o \in Thread : o # t => task'[o] = task[o]
    BY DEF Goes, Types, Tasks
  <1>2. \A o \in Zone : o \in Thread /\ o # "sql"
    BY PartyAssumption DEF Thread
  <1> QED
    BY <1>1, <1>2 DEF Idle

LEMMA StepAlive ==
    ASSUME OneZone, Types, Zoned, Alive, NEW t \in Thread, Step(t)
    PROVE  Alive'
  <1>1. \A o \in Zone : ~Idle(o)' => task'[o] \in Dealing \/ task'[o].then = "zone"
    <2>1. CASE t # "sql"
      <3>1. \/ Crash
            \/ \E x : Goes(t, x) /\ (x = NoTask \/ x \in Dealing \/ x.then = "zone")
        BY <2>1, StepTask DEF Thread
      <3> QED
        BY <3>1, AliveTasks DEF Alive, Crash, Idle
    <2>2. CASE t = "sql"
      <3>1. LockPool(t) \/ Clear(t)
        <4>1. task[t].at \in {"idle", "lock", "delete", "clear"}
          BY <2>2, TaskReads DEF Types, Saving
        <4> QED
          BY <4>1 DEF Step, Create, CheckOwner, Add, KickMember, Sub, CountLeft, HandOver, At
      <3>2. PICK x : Goes(t, x)
        BY <3>1 DEF LockPool, Clear, Finish
      <3> QED
        BY <2>2, <3>2, AliveTasks DEF Alive
    <2> QED
      BY <2>1, <2>2
  <1>2. CASE UNCHANGED status
    <2>1. ASSUME NEW q \in Party, NEW j \in Place, IsHere(q, j)'
          PROVE  status'[slot'[q][j].user] # "gone"
      <3>1. CASE \E k \in Place : slot'[q][j] = slot[q][k]
        <4>1. PICK k \in Place : slot'[q][j] = slot[q][k]
          BY <3>1
        <4>2. IsHere(q, k)
          BY <2>1, <4>1 DEF IsHere
        <4> QED
          BY <1>2, <4>1, <4>2 DEF Alive
      <3>2. CASE status[slot'[q][j].user] = "zone"
        BY <1>2, <3>2
      <3> QED
        BY <2>1, <3>1, <3>2, StepMembers
    <2> QED
      BY <1>1, <1>2, <2>1 DEF Alive
  <1>3. CASE status' # status
    <2>1. /\ task[t].at \in {"sub", "count", "delete", "clear"}
          /\ task[t].me \in User
          /\ \A w \in User : status'[w] = IF w = task[t].me THEN task[t].then ELSE status[w]
      BY <1>3, StepStatus
    <2>2. PICK u \in User : u = task[t].me
      BY <2>1
    <2>3. ASSUME NEW q \in Party, NEW j \in Place, IsHere(q, j)'
          PROVE  \E k \in Place : slot'[q][j] = slot[q][k] /\ IsHere(q, k)
      <3>1. PICK k \in Place : slot'[q][j] = slot[q][k]
        BY <1>3, <2>3, StepMembers
      <3> QED
        BY <2>3, <3>1 DEF IsHere
    <2>4. CASE t # "sql"
      <3>1. t \in Zone /\ task[t] \in Leaving /\ ~Idle(t)
        BY <2>1, <2>4, TaskReads DEF Types, At
      <3>2. task[t].then = "zone"
        BY <2>1, <3>1 DEF Alive, Dealing
      <3>3. \A w \in User : status'[w] # "quit" /\ (status'[w] = "gone" => status[w] = "gone")
        BY <2>1, <3>2 DEF Alive
      <3>4. \A q \in Party, j \in Place : IsHere(q, j) => slot[q][j].user \in User
        BY DEF IsHere, Types, Parties, Slots, Member
      <3>5. \A q \in Party, j \in Place : IsHere(q, j)' => status'[slot'[q][j].user] # "gone"
        BY <2>3, <3>3, <3>4 DEF Alive
      <3> QED
        BY <1>1, <3>3, <3>5 DEF Alive
    <2>5. CASE t = "sql"
      <3>1. task[t] \in Saving /\ ~Idle(t) /\ task[t].at \in {"delete", "clear"}
        <4>1. task[t] \in Saving /\ ~Idle(t)
          BY <2>1, <2>5, TaskReads, PartyAssumption DEF Types, At
        <4> QED
          BY <2>1, <4>1 DEF Saving
      <3>2. task[t].then = "gone"
        BY <3>1, TaskForms
      <3>3. \A w \in User : status'[w] # "quit" /\ (w # u => status'[w] = status[w])
        BY <2>1, <2>2, <3>2 DEF Alive
      <3>4. \A p \in Party, i \in Place : slot[p][i] # Here(u)
        BY <2>2, <2>5, <3>1 DEF Zoned, SqlTasks, SqlTask
      <3>5. \A q \in Party, j \in Place : IsHere(q, j) =>
               slot[q][j].user \in User /\ slot[q][j] = Here(slot[q][j].user)
        <4> SUFFICES ASSUME NEW q \in Party, NEW j \in Place, IsHere(q, j)
                     PROVE  slot[q][j].user \in User /\ slot[q][j] = Here(slot[q][j].user)
          OBVIOUS
        <4>1. slot[q][j] \in Member /\ slot[q][j].here
          BY DEF IsHere, Types, Parties, Slots
        <4> QED
          BY <4>1 DEF Member, Here
      <3>6. \A q \in Party, j \in Place : IsHere(q, j)' => status'[slot'[q][j].user] # "gone"
        BY <2>3, <3>3, <3>4, <3>5 DEF Alive
      <3> QED
        BY <1>1, <3>3, <3>6 DEF Alive
    <2> QED
      BY <2>4, <2>5
  <1> QED
    BY <1>2, <1>3

LEMMA RequestAlive ==
    ASSUME Types, Alive, NEW u \in User
    PROVE  /\ \A v \in User : AcceptMake(u, v) \/ AcceptJoin(u, v) \/ Ban(u, v) \/ GiveOwner(u, v)
                                  => Alive'
           /\ Leave(u) => Alive'
  <1>1. ASSUME NEW x, Begins(u, x), x \in Dealing \/ x.then = "zone" PROVE Alive'
    <2>1. Home[u] \in Thread
      BY PartyAssumption DEF Thread
    <2>2. \A o \in Zone : ~Idle(o)' => task'[o] \in Dealing \/ task'[o].then = "zone"
      BY <1>1, <2>1, AliveTasks DEF Begins, Alive
    <2> QED
      BY <1>1, <2>2 DEF Begins, Alive, IsHere, users, parties
  <1>2. ASSUME NEW v \in User, AcceptMake(u, v) \/ AcceptJoin(u, v) \/ Ban(u, v) \/ GiveOwner(u, v)
        PROVE  Alive'
    <2>1. PICK a \in {"create", "make", "join", "ban", "owner"} :
             Begins(u, [at |-> a, me |-> u, with |-> v])
      BY <1>2 DEF AcceptMake, AcceptJoin, Ban, GiveOwner
    <2>2. [at |-> a, me |-> u, with |-> v] \in Dealing
      BY TaskForms
    <2> QED
      BY <1>1, <2>1, <2>2
  <1>3. ASSUME Leave(u) PROVE Alive'
    <2>1. Removal(u, u, party[u], pos[u], "zone").then = "zone"
      BY DEF Removal
    <2> QED
      BY <1>1, <1>3, <2>1 DEF Leave
  <1> QED
    BY <1>2, <1>3

LEMMA SqlAlive ==
    ASSUME OneZone, Types, Zoned, Alive
    PROVE  /\ \A u \in User : Drop(u) \/ Save(u) => Alive'
           /\ OnDisconnect => Alive'
  <1>1. ASSUME NEW u \in User, Drop(u) PROVE Alive'
    <2>1. \A w \in User : status'[w] = IF w = u THEN "cut" ELSE status[w]
      BY <1>1 DEF Drop, Types, Users
    <2>2. \A q \in Party, j \in Place : IsHere(q, j) => slot[q][j].user \in User
      BY DEF IsHere, Types, Parties, Slots, Member
    <2> QED
      BY <1>1, <2>1, <2>2 DEF Drop, Alive, IsHere, Idle, parties
  <1>2. ASSUME NEW u \in User, Save(u) PROVE Alive'
    <2>1. "sql" \in Thread /\ status[u] = "cut" /\ UNCHANGED slot
      BY <1>2 DEF Save, Thread, Alive, parties
    <2>2. CASE party[u] = NoOne
      <3>1. status' = [status EXCEPT ![u] = "gone"] /\ UNCHANGED task
        BY <1>2, <2>2 DEF Save
      <3>2. \A w \in User : status'[w] = IF w = u THEN "gone" ELSE status[w]
        BY <3>1 DEF Types, Users
      <3>3. \A q \in Party, j \in Place : IsHere(q, j) =>
               slot[q][j].user \in User /\ slot[q][j].user # u
        BY <2>2, PartyAssumption DEF IsHere, Types, Parties, Slots, Member, Zoned, Placed
      <3> QED
        BY <2>1, <3>1, <3>2, <3>3 DEF Alive, IsHere, Idle
    <2>3. CASE party[u] # NoOne
      <3>1. PICK x : Goes("sql", x) /\ UNCHANGED status
        BY <1>2, <2>1, <2>3 DEF Save
      <3>2. \A o \in Zone : ~Idle(o)' => task'[o] \in Dealing \/ task'[o].then = "zone"
        BY <2>1, <3>1, AliveTasks DEF Alive
      <3> QED
        BY <2>1, <3>1, <3>2 DEF Alive, IsHere
    <2> QED
      BY <2>2, <2>3
  <1>3. ASSUME OnDisconnect PROVE Alive'
    <2>1. CASE Crash
      BY <2>1 DEF Crash, Alive, IsHere, Idle, users, parties
    <2>2. CASE ~Crash
      <3>1. "sql" \in Thread /\ task["sql"] \in Saving
        BY <1>3, TaskReads DEF OnDisconnect, At, Types, Thread
      <3>2. PICK u \in User : u = task["sql"].me
        BY <3>1, TaskForms
      <3>3. \A q \in Party, j \in Place : IsHere(q, j)' =>
               /\ \E k \in Place : slot'[q][j] = slot[q][k]
               /\ slot'[q][j].user # u
        BY <1>3, <2>2, <3>2, OnDisconnectZoned
      <3>4. PICK x : Goes("sql", x)
        BY <1>3, <2>2 DEF OnDisconnect
      <3>5. \A o \in Zone : ~Idle(o)' => task'[o] \in Dealing \/ task'[o].then = "zone"
        BY <3>1, <3>4, AliveTasks DEF Alive
      <3>6. UNCHANGED status \/ status' = [status EXCEPT ![u] = "gone"]
        BY <1>3, <2>2, <3>2 DEF OnDisconnect, users
      <3>7. \A w \in User : status'[w] = status[w] \/ (w = u /\ status'[w] = "gone")
        BY <3>6 DEF Types, Users
      <3>8. ASSUME NEW q \in Party, NEW j \in Place, IsHere(q, j)'
            PROVE  status'[slot'[q][j].user] # "gone"
        <4>1. PICK k \in Place : slot'[q][j] = slot[q][k] /\ slot[q][k].user # u
          BY <3>3, <3>8
        <4>2. IsHere(q, k)
          BY <3>8, <4>1 DEF IsHere
        <4>3. slot[q][k].user \in User /\ status[slot[q][k].user] # "gone"
          BY <4>2 DEF Alive, IsHere, Types, Parties, Slots, Member
        <4> QED
          BY <3>7, <4>1, <4>3
      <3> QED
        BY <3>5, <3>7, <3>8 DEF Alive
    <2> QED
      BY <2>1, <2>2
  <1> QED
    BY <1>1, <1>2, <1>3

LEMMA AlwaysAlive == ASSUME OneZone, CanQuit = {} PROVE Spec => []Alive
  <1>1. Init => Alive
    <2> SUFFICES ASSUME Init PROVE Alive
      OBVIOUS
    <2>1. /\ \A p \in Party, i \in Place : slot[p][i] = NoOne
          /\ \A u \in User : status[u] = "zone"
          /\ \A t \in Zone : Idle(t)
      BY DEF Init, Idle, Thread
    <2> QED
      BY <2>1 DEF Alive, IsHere
  <1>2. ASSUME Types, Zoned, Alive, [Next]_vars PROVE Alive'
    <2>1. CASE UNCHANGED vars
      BY <1>2, <2>1 DEF vars, users, parties, Alive, Idle, IsHere
    <2>2. ASSUME NEW u \in User, NEW v \in User,
                 AcceptMake(u, v) \/ AcceptJoin(u, v) \/ Ban(u, v) \/ GiveOwner(u, v)
          PROVE  Alive'
      BY <1>2, <2>2, RequestAlive
    <2>3. ASSUME NEW u \in User, Leave(u) \/ Quit(u) \/ Drop(u) \/ Save(u) PROVE Alive'
      BY <1>2, <2>3, RequestAlive, SqlAlive DEF Quit
    <2>4. ASSUME NEW t \in Thread, Step(t) PROVE Alive'
      BY <1>2, <2>4, StepAlive
    <2>5. CASE OnDisconnect
      BY <1>2, <2>5, SqlAlive
    <2> QED
      BY <1>2, <2>1, <2>2, <2>3, <2>4, <2>5 DEF Next
  <1>3. Types /\ Zoned /\ Alive /\ [Next]_vars => Alive'
    BY <1>2
  <1> QED
    BY <1>1, <1>3, AlwaysZoned, PTL DEF Spec

\* In one zone, where users are cut off or go back to the character list, but not both: no
\* party keeps the pointer to a user whose object the SQL thread has freed, whichever way
\* its save, its removal and the zone's thread interleave.
THEOREM NoDanglingSafety ==
    ASSUME OneZone, CanDrop = {} \/ CanQuit = {} PROVE Spec => []NoDangling
  <1>1. CASE CanDrop = {}
    <2>1. ASSUME Types, Zoned, Calm PROVE NoDangling
      <3> SUFFICES ASSUME NEW p \in Party, NEW i \in Place, slot[p][i] # NoOne, slot[p][i].here
                   PROVE  status[slot[p][i].user] # "gone"
        BY DEF NoDangling
      <3>1. IsHere(p, i) /\ slot[p][i].user \in User
        BY <2>1 DEF IsHere, Types, Parties, Slots, Member
      <3>2. party[slot[p][i].user] # NoOne
        BY <2>1, <3>1, PartyAssumption DEF Zoned, Placed
      <3> QED
        BY <2>1, <3>1, <3>2 DEF Calm
    <2>2. Types /\ Zoned /\ Calm => NoDangling
      BY <2>1
    <2>3. Spec => [](Types /\ Zoned /\ Calm)
      BY <1>1, AlwaysCalm
    <2> QED
      BY <2>2, <2>3, PTL
  <1>2. CASE CanQuit = {}
    <2>1. Alive => NoDangling
      BY DEF Alive, IsHere, NoDangling
    <2>2. Spec => []Alive
      BY <1>2, AlwaysAlive
    <2> QED
      BY <2>1, <2>2, PTL
  <1> QED
    BY <1>1, <1>2
=============================================================================
