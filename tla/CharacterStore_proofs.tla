----------------------- MODULE CharacterStore_proofs -----------------------
(***************************************************************************)
(* Theorems about CharacterStore, for any number of characters, items and  *)
(* slots: every row names an item that exists; as long as no save fails    *)
(* for another reason than a torn read, the server does not crash, no      *)
(* storage is listed twice and no stack is divided, no item is ever in two *)
(* places, and items are lost in the known ways only; items keep their     *)
(* options if no slot is changed while it is read either; and the server   *)
(* implements ItemHome.                                                    *)
(***************************************************************************)
EXTENDS CharacterStore, SequenceTheorems, TLAPS

-----------------------------------------------------------------------------
(***************************************************************************)
(* The inductive invariant.                                                *)
(***************************************************************************)

\* A slot that is not kept in memory is empty there.
Absent ==
    \A c \in Char, s \in Slot : ~InMemory(c, s) => mem[c][s] = null

\* Only users that are there are waiting to be saved; the save of a user that
\* leaves is its last one.
Pending ==
    /\ \A c \in Char : requests[c] > 0 => online[c] = "in"
    /\ \A i \in 1 .. Len(users) :
          /\ online[users[i].char] # "out"
          /\ users[i].logout =>
                /\ online[users[i].char] = "leaving"
                /\ \A j \in 1 .. Len(users) : users[j].char = users[i].char => j <= i

\* The same of the save that is being made.
Saving ==
    /\ save.char = null => save.logout = FALSE
    /\ save.char # null => online[save.char] # "out"
    /\ save.logout =>
          /\ online[save.char] = "leaving"
          /\ \A j \in 1 .. Len(users) : users[j].char # save.char

\* What has been read: nothing where nothing is kept in memory and, of a user
\* that leaves, what is still there.
ReadSoFar ==
    save.char # null =>
        \A s \in Slot : s < save.next =>
            /\ ~InMemory(save.char, s) => save.slots[s] = null
            /\ save.logout => save.slots[s] = mem[save.char][s]

\* What the rows will name gets a statement of its own first or is sought in the
\* table; what a leaving user has is not changed any more, so that nothing of it is
\* sought.
Collected ==
    /\ ItemsIn(save.slots) \subseteq save.items \cup save.sought
    /\ save.logout => save.sought = {}

Inv ==
    TypeOK /\ RowsRefer /\ Absent /\ Pending /\ Saving /\ ReadSoFar /\ Collected

\* What TypeOK says of save.
SaveRecord ==
    [char : Char \cup {null}, logout : BOOLEAN, next : 1 .. NInv + NBank + 1,
     valid : SUBSET Item, items : SUBSET Item, stat : SUBSET Item,
     sought : SUBSET Item, slots : [Slot -> Item \cup {null}]]

-----------------------------------------------------------------------------
LEMMA SlotFacts ==
    /\ Slot = InvSlot \cup BankSlot
    /\ InvSlot \cap BankSlot = {}
    /\ Slot \subseteq Nat
    /\ \A n \in 1 .. NInv + NBank + 1 : n \notin Slot => \A s \in Slot : s < n
    /\ 1 \in 1 .. NInv + NBank + 1
    /\ \A s \in Slot : s + 1 \in 1 .. NInv + NBank + 1
  BY StoreAssumption DEF Slot, InvSlot, BankSlot

LEMMA NoItemsType == NoItems \in [Slot -> Item \cup {null}]
  BY DEF NoItems

LEMMA IdleType ==
    /\ Idle \in SaveRecord
    /\ Idle.char = null /\ Idle.logout = FALSE /\ Idle.next = 1
    /\ ItemsIn(Idle.slots) = {} /\ Idle.stat = {} /\ Idle.items = {} /\ Idle.sought = {}
  <1>1. ItemsIn(NoItems) = {}
    BY DEF ItemsIn, NoItems
  <1> QED
    BY <1>1, NoItemsType, SlotFacts DEF Idle, SaveRecord

\* The items that a row of slots names.
LEMMA ItemsInFacts ==
    ASSUME NEW r \in [Slot -> Item \cup {null}]
    PROVE  /\ ItemsIn(r) \subseteq Item
           /\ \A i : i \in ItemsIn(r) <=> i # null /\ \E s \in Slot : r[s] = i
  BY DEF ItemsIn

\* One slot of one character is set.
LEMMA SetSlot ==
    ASSUME NEW S, NEW f \in [Char -> [Slot -> S]], NEW d \in Char, NEW t \in Slot,
           NEW v \in S
    PROVE  /\ [f EXCEPT ![d][t] = v] \in [Char -> [Slot -> S]]
           /\ \A e \in Char, u \in Slot :
                 [f EXCEPT ![d][t] = v][e][u] = IF e = d /\ u = t THEN v ELSE f[e][u]
  <1>1. [f[d] EXCEPT ![t] = v] \in [Slot -> S]
    OBVIOUS
  <1>2. [f EXCEPT ![d][t] = v] \in [Char -> [Slot -> S]]
    BY <1>1
  <1>3. ASSUME NEW e \in Char, NEW u \in Slot
        PROVE  [f EXCEPT ![d][t] = v][e][u] = IF e = d /\ u = t THEN v ELSE f[e][u]
    <2>1. CASE e = d
      BY <2>1
    <2>2. CASE e # d
      BY <2>2
    <2> QED
      BY <2>1, <2>2
  <1> QED
    BY <1>2, <1>3

\* One slot of memory is emptied and another one takes what it held.
Moved(c, s, d, t) == [mem EXCEPT ![c][s] = null, ![d][t] = mem[c][s]]

LEMMA MoveMem ==
    ASSUME TypeOK, NEW c \in Char, NEW d \in Char, NEW s \in Slot, NEW t \in Slot,
           mem' = Moved(c, s, d, t)
    PROVE  /\ mem' \in [Char -> [Slot -> Item \cup {null}]]
           /\ \A e \in Char, u \in Slot :
                 mem'[e][u] = IF e = d /\ u = t THEN mem[c][s]
                              ELSE IF e = c /\ u = s THEN null
                              ELSE mem[e][u]
  <1>1. PICK S : S = Item \cup {null}
    OBVIOUS
  <1>2. mem \in [Char -> [Slot -> S]] /\ mem[c][s] \in S /\ null \in S
    BY <1>1 DEF TypeOK
  <1>3. PICK v \in S : v = mem[c][s]
    BY <1>2
  <1>4. PICK m : m = [mem EXCEPT ![c][s] = null]
    OBVIOUS
  <1>5. /\ m \in [Char -> [Slot -> S]]
        /\ \A e \in Char, u \in Slot :
              m[e][u] = IF e = c /\ u = s THEN null ELSE mem[e][u]
    BY <1>2, <1>4, SetSlot
  <1>6. PICK g : g = [m EXCEPT ![d][t] = v]
    OBVIOUS
  <1>7. /\ g \in [Char -> [Slot -> S]]
        /\ \A e \in Char, u \in Slot : g[e][u] = IF e = d /\ u = t THEN v ELSE m[e][u]
    BY <1>3, <1>5, <1>6, SetSlot
  <1>8. mem' = g
    BY <1>3, <1>4, <1>6 DEF Moved
  <1>9. mem' \in [Char -> [Slot -> Item \cup {null}]]
    BY <1>1, <1>7, <1>8
  <1>10. ASSUME NEW e \in Char, NEW u \in Slot
         PROVE  mem'[e][u] = IF e = d /\ u = t THEN mem[c][s]
                             ELSE IF e = c /\ u = s THEN null
                             ELSE mem[e][u]
    <2>1. mem'[e][u] = IF e = d /\ u = t THEN v ELSE m[e][u]
      BY <1>7, <1>8
    <2>2. m[e][u] = IF e = c /\ u = s THEN null ELSE mem[e][u]
      BY <1>5
    <2> QED
      BY <1>3, <2>1, <2>2
  <1> QED
    BY <1>9, <1>10

LEMMA ReleaseFacts ==
    ASSUME TypeOK, save.char \in Char, Release
    PROVE  /\ online' \in [Char -> {"out", "in", "leaving"}]
           /\ mem' \in [Char -> [Slot -> Item \cup {null}]]
           /\ memstat' \in [Char -> SUBSET Item]
           /\ loaded' \in [Char -> BOOLEAN]
           /\ save.logout => /\ online'[save.char] = "out"
                             /\ mem'[save.char] = NoItems
                             /\ ~loaded'[save.char]
           /\ \A c \in Char : c # save.char \/ ~save.logout =>
                 /\ online'[c] = online[c]
                 /\ mem'[c] = mem[c]
                 /\ loaded'[c] = loaded[c]
  <1>1. CASE save.logout
    BY <1>1, NoItemsType DEF Release, TypeOK
  <1>2. CASE ~save.logout
    BY <1>2 DEF Release, TypeOK
  <1> QED
    BY <1>1, <1>2

\* The statements of a save.
LEMMA CommitFacts ==
    ASSUME TypeOK, RowsRefer, Collected, save.char \in Char, Resolved,
           rows' = [Cascaded(Deleted) EXCEPT ![save.char] = save.slots],
           item' = (item \ Deleted) \cup save.items,
           stat' = StatRows
    PROVE  /\ rows' \in [Char -> [Slot -> Item \cup {null}]]
           /\ item' \subseteq Item
           /\ stat' \subseteq item'
           /\ rows'[save.char] = save.slots
           /\ Deleted \subseteq ItemsIn(rows[save.char]) \ save.valid
           /\ \A c \in Char \ {save.char}, s \in Slot :
                 rows'[c][s] = IF rows[c][s] \in Deleted THEN null ELSE rows[c][s]
           /\ RowsRefer'
  <1>1. save.slots \in [Slot -> Item \cup {null}]
    BY DEF TypeOK
  <1>2. save.items \subseteq Item /\ save.stat \subseteq save.items
    BY DEF TypeOK
  <1>3. Cascaded(Deleted) \in [Char -> [Slot -> Item \cup {null}]]
    BY DEF Cascaded, TypeOK
  <1>4. rows' \in [Char -> [Slot -> Item \cup {null}]] /\ rows'[save.char] = save.slots
    BY <1>1, <1>3
  <1>5. item' \subseteq Item /\ stat' \subseteq item'
    BY <1>2 DEF TypeOK, StatRows
  <1>6. Deleted \subseteq ItemsIn(rows[save.char]) \ save.valid
    BY DEF Deleted
  <1>7. \A c \in Char \ {save.char}, s \in Slot :
           rows'[c][s] = IF rows[c][s] \in Deleted THEN null ELSE rows[c][s]
    BY DEF Cascaded, TypeOK
  <1>8. ASSUME NEW c \in Char
        PROVE  ItemsIn(rows'[c]) \subseteq item'
    <2>1. CASE c = save.char
      <3>1. ItemsIn(save.slots) \subseteq save.items \cup (item \ Deleted)
        BY DEF Collected, Resolved
      <3> QED
        BY <1>4, <2>1, <3>1
    <2>2. CASE c # save.char
      <3>1. ASSUME NEW i \in ItemsIn(rows'[c]) PROVE i \in item'
        <4>1. PICK s \in Slot : rows'[c][s] = i /\ i # null
          BY <1>4, <3>1, ItemsInFacts
        <4>2. rows[c][s] = i /\ i \notin Deleted
          BY <1>7, <2>2, <4>1
        <4>3. i \in item
          BY <4>1, <4>2, ItemsInFacts DEF RowsRefer, TypeOK
        <4> QED
          BY <4>2, <4>3
      <3> QED
        BY <3>1
    <2> QED
      BY <2>1, <2>2
  <1> QED
    BY <1>4, <1>5, <1>6, <1>7, <1>8 DEF RowsRefer

-----------------------------------------------------------------------------
(***************************************************************************)
(* The invariant holds at first and every action keeps it.                 *)
(***************************************************************************)
LEMMA InvInit == Init => Inv
  <1> SUFFICES ASSUME Init PROVE Inv
    OBVIOUS
  <1>1. TypeOK
    <2>1. users \in Seq([char : Char, logout : BOOLEAN])
      BY DEF Init
    <2>2. \A c \in Char : ItemsIn(rows[c]) \subseteq Item
      BY ItemsInFacts DEF Init
    <2>3. item \subseteq Item
      BY <2>2 DEF Init
    <2>4. /\ 0 \in 0 .. MaxRequests /\ 0 \in Nat
          /\ 0 \in Nat /\ 0 \in Nat
      BY StoreAssumption
    <2>5. mem \in [Char -> [Slot -> Item \cup {null}]]
      BY NoItemsType DEF Init
    <2>6. rows \in [Char -> [Slot -> Item \cup {null}]] /\ stat \subseteq item
      BY DEF Init
    <2>7. /\ online \in [Char -> {"out", "in", "leaving"}]
          /\ memstat \in [Char -> SUBSET Item]
          /\ loaded \in [Char -> BOOLEAN]
          /\ requests \in [Char -> 0 .. MaxRequests]
      BY <2>4 DEF Init
    <2>8. /\ copied \in BOOLEAN /\ gifts \in Nat /\ faults \in Nat
          /\ torn \in Nat
          /\ save \in SaveRecord /\ save.stat \subseteq save.items
      BY <2>4, IdleType DEF Init
    <2> QED
      BY <2>1, <2>3, <2>5, <2>6, <2>7, <2>8 DEF TypeOK, SaveRecord
  <1>2. RowsRefer
    BY DEF Init, RowsRefer
  <1>3. Absent
    BY DEF Init, Absent, NoItems
  <1>4. Pending
    BY DEF Init, Pending
  <1>5. Saving /\ ReadSoFar /\ Collected
    BY IdleType DEF Init, Saving, ReadSoFar, Collected
  <1> QED
    BY <1>1, <1>2, <1>3, <1>4, <1>5 DEF Inv

LEMMA BankListReqInv ==
    ASSUME Inv, NEW c \in Char, BankListReq(c)
    PROVE  Inv'
  <1>1. TypeOK'
    BY StoreAssumption DEF Inv, TypeOK, BankListReq, db
  <1>2. RowsRefer'
    BY DEF Inv, RowsRefer, BankListReq, db, ItemsIn
  <1>3. Absent'
    BY DEF Inv, Absent, InMemory, BankListReq
  <1>4. Pending'
    BY DEF Inv, Pending, TypeOK, BankListReq
  <1>5. Saving' /\ ReadSoFar' /\ Collected'
    BY DEF Inv, Saving, ReadSoFar, Collected, ItemsIn, InMemory, BankListReq
  <1> QED
    BY <1>1, <1>2, <1>3, <1>4, <1>5 DEF Inv

LEMMA MoveItemInv ==
    ASSUME Inv, NEW c \in Char, NEW s \in Slot, NEW t \in Slot, MoveItem(c, s, t)
    PROVE  Inv'
  <1>1. /\ mem' \in [Char -> [Slot -> Item \cup {null}]]
        /\ \A e \in Char, u \in Slot :
              mem'[e][u] = IF e = c /\ u = t THEN mem[c][s]
                           ELSE IF e = c /\ u = s THEN null
                           ELSE mem[e][u]
    <2>1. mem' = Moved(c, s, c, t)
      BY DEF MoveItem, Moved
    <2>2. TypeOK
      BY DEF Inv
    <2> QED
      BY <2>1, <2>2, MoveMem
  <1>2. TypeOK'
    BY <1>1 DEF Inv, TypeOK, MoveItem, db
  <1>3. RowsRefer'
    BY DEF Inv, RowsRefer, MoveItem, db, ItemsIn
  <1>4. Absent'
    BY <1>1 DEF Inv, Absent, InMemory, MoveItem
  <1>5. Pending' /\ Saving'
    BY DEF Inv, Pending, Saving, MoveItem
  <1>6. ReadSoFar' /\ Collected'
    BY <1>1 DEF Inv, TypeOK, Saving, ReadSoFar, Collected, ItemsIn, InMemory, MoveItem
  <1> QED
    BY <1>2, <1>3, <1>4, <1>5, <1>6 DEF Inv

LEMMA GiveInv ==
    ASSUME Inv, NEW c \in Char, NEW s \in InvSlot, NEW d \in Char, NEW t \in InvSlot,
           Give(c, s, d, t)
    PROVE  Inv'
  <1>1. s \in Slot /\ t \in Slot
    BY SlotFacts
  <1>2. /\ mem' \in [Char -> [Slot -> Item \cup {null}]]
        /\ \A e \in Char, u \in Slot :
              mem'[e][u] = IF e = d /\ u = t THEN mem[c][s]
                           ELSE IF e = c /\ u = s THEN null
                           ELSE mem[e][u]
    <2>1. mem' = Moved(c, s, d, t)
      BY DEF Give, Moved
    <2>2. TypeOK
      BY DEF Inv
    <2> QED
      BY <1>1, <2>1, <2>2, MoveMem
  <1>3. memstat' \in [Char -> SUBSET Item]
    BY DEF Inv, TypeOK, Give
  <1>4. TypeOK'
    <2>1. gifts' \in Nat
      BY StoreAssumption DEF Inv, TypeOK, Give
    <2>2. UNCHANGED <<rows, item, stat, online, loaded, requests, users, save, copied,
                      faults, torn>>
      BY DEF Give, db
    <2> QED
      BY <1>2, <1>3, <2>1, <2>2 DEF Inv, TypeOK
  <1>5. RowsRefer'
    BY DEF Inv, RowsRefer, Give, db, ItemsIn
  <1>6. Absent'
    <2> SUFFICES ASSUME NEW e \in Char, NEW u \in Slot, ~InMemory(e, u)'
                 PROVE  mem'[e][u] = null
      BY DEF Absent
    <2>1. ~InMemory(e, u)
      BY DEF InMemory, Give
    <2>2. mem[e][u] = null
      BY <2>1 DEF Inv, Absent
    <2>3. ~(e = d /\ u = t)
      BY <2>1 DEF InMemory, Give
    <2> QED
      BY <1>2, <2>2, <2>3
  <1>7. Pending' /\ Saving'
    BY DEF Inv, Pending, Saving, Give
  <1>8. ReadSoFar'
    BY <1>2 DEF Inv, TypeOK, Saving, ReadSoFar, InMemory, Give
  <1>9. Collected'
    BY DEF Inv, Collected, ItemsIn, Give
  <1> QED
    BY <1>4, <1>5, <1>6, <1>7, <1>8, <1>9 DEF Inv

\* A part of a stack is put into an empty slot that is kept in memory.
LEMMA DivideInv ==
    ASSUME Inv, NEW c \in Char, NEW s \in Slot, NEW d \in Char, NEW t \in Slot,
           Divide(c, s, d, t)
    PROVE  Inv'
  <1>1. /\ mem' \in [Char -> [Slot -> Item \cup {null}]]
        /\ \A e \in Char, u \in Slot :
              mem'[e][u] = IF e = d /\ u = t THEN mem[c][s] ELSE mem[e][u]
    <2>1. PICK S : S = Item \cup {null}
      OBVIOUS
    <2>2. mem \in [Char -> [Slot -> S]] /\ mem[c][s] \in S
      BY <2>1 DEF Inv, TypeOK
    <2>3. PICK v \in S : v = mem[c][s]
      BY <2>2
    <2>4. mem' = [mem EXCEPT ![d][t] = v]
      BY <2>3 DEF Divide
    <2> QED
      BY <2>1, <2>2, <2>3, <2>4, SetSlot
  <1>2. TypeOK'
    <2>1. gifts' \in Nat /\ copied' \in BOOLEAN
      BY StoreAssumption DEF Inv, TypeOK, Divide
    <2>2. UNCHANGED <<rows, item, stat, online, memstat, loaded, requests, users, save,
                      faults, torn>>
      BY DEF Divide, db
    <2> QED
      BY <1>1, <2>1, <2>2 DEF Inv, TypeOK
  <1>3. RowsRefer'
    BY DEF Inv, RowsRefer, Divide, db, ItemsIn
  <1>4. Absent'
    <2> SUFFICES ASSUME NEW e \in Char, NEW u \in Slot, ~InMemory(e, u)'
                 PROVE  mem'[e][u] = null
      BY DEF Absent
    <2>1. ~InMemory(e, u)
      BY DEF InMemory, Divide
    <2>2. mem[e][u] = null
      BY <2>1 DEF Inv, Absent
    <2>3. ~(e = d /\ u = t)
      BY <2>1 DEF InMemory, Divide
    <2> QED
      BY <1>1, <2>2, <2>3
  <1>5. Pending' /\ Saving'
    BY DEF Inv, Pending, Saving, Divide
  <1>6. ReadSoFar' /\ Collected'
    BY <1>1 DEF Inv, TypeOK, Saving, ReadSoFar, Collected, ItemsIn, InMemory, Divide
  <1> QED
    BY <1>2, <1>3, <1>4, <1>5, <1>6 DEF Inv

\* A slot of an inventory is emptied.
LEMMA Emptied ==
    ASSUME TypeOK, NEW c \in Char, NEW s \in Slot, mem' = [mem EXCEPT ![c][s] = null]
    PROVE  /\ mem' \in [Char -> [Slot -> Item \cup {null}]]
           /\ \A e \in Char, u \in Slot :
                 mem'[e][u] = IF e = c /\ u = s THEN null ELSE mem[e][u]
  <1>1. PICK S : S = Item \cup {null}
    OBVIOUS
  <1>2. mem \in [Char -> [Slot -> S]] /\ null \in S
    BY <1>1 DEF TypeOK
  <1> QED
    BY <1>1, <1>2, SetSlot

LEMMA UseUpInv ==
    ASSUME Inv, NEW c \in Char, NEW s \in InvSlot, UseUp(c, s)
    PROVE  Inv'
  <1>1. /\ mem' \in [Char -> [Slot -> Item \cup {null}]]
        /\ \A e \in Char, u \in Slot :
              mem'[e][u] = IF e = c /\ u = s THEN null ELSE mem[e][u]
    <2>1. TypeOK /\ s \in Slot /\ mem' = [mem EXCEPT ![c][s] = null]
      BY SlotFacts DEF UseUp, Inv
    <2> QED
      BY <2>1, Emptied
  <1>2. TypeOK'
    <2>1. memstat' \in [Char -> SUBSET Item]
      BY DEF Inv, TypeOK, UseUp
    <2> QED
      BY <1>1, <2>1 DEF Inv, TypeOK, UseUp, db
  <1>3. RowsRefer'
    BY DEF Inv, RowsRefer, UseUp, db, ItemsIn
  <1>4. Absent'
    BY <1>1 DEF Inv, Absent, InMemory, UseUp
  <1>5. Pending' /\ Saving'
    BY DEF Inv, Pending, Saving, UseUp
  <1>6. ReadSoFar' /\ Collected'
    BY <1>1 DEF Inv, TypeOK, Saving, ReadSoFar, Collected, ItemsIn, InMemory, UseUp
  <1> QED
    BY <1>2, <1>3, <1>4, <1>5, <1>6 DEF Inv

\* A user is handed over to be saved.
LEMMA AppendUser ==
    ASSUME TypeOK, NEW u \in [char : Char, logout : BOOLEAN], users' = Append(users, u)
    PROVE  /\ users' \in Seq([char : Char, logout : BOOLEAN])
           /\ Len(users') = Len(users) + 1 /\ Len(users) \in Nat
           /\ users'[Len(users) + 1] = u
           /\ \A i \in 1 .. Len(users) : users'[i] = users[i] /\ users[i].char \in Char
           /\ \A i \in 1 .. Len(users') : i \in 1 .. Len(users) \/ i = Len(users) + 1
  <1> DEFINE U == [char : Char, logout : BOOLEAN]
  <1>1. users \in Seq(U) /\ u \in U /\ \A v \in U : v.char \in Char
    BY DEF TypeOK
  <1> HIDE DEF U
  <1>2. /\ users' \in Seq(U) /\ Len(users') = Len(users) + 1 /\ Len(users) \in Nat
        /\ users'[Len(users) + 1] = u
        /\ \A i \in 1 .. Len(users) : users'[i] = users[i] /\ users[i] \in U
    BY <1>1
  <1>3. \A i \in 1 .. Len(users') : i \in 1 .. Len(users) \/ i = Len(users) + 1
    BY <1>2
  <1> QED
    BY <1>1, <1>2, <1>3 DEF U

LEMMA BackupInv ==
    ASSUME Inv, NEW c \in Char, Backup(c)
    PROVE  Inv'
  <1> DEFINE u == [char |-> c, logout |-> FALSE]
  <1>1. u \in [char : Char, logout : BOOLEAN] /\ u.char = c /\ u.logout = FALSE
    OBVIOUS
  <1>2. users' = Append(users, u)
    BY DEF Backup
  <1> HIDE DEF u
  <1>3. /\ users' \in Seq([char : Char, logout : BOOLEAN])
        /\ Len(users') = Len(users) + 1 /\ Len(users) \in Nat
        /\ users'[Len(users) + 1] = u
        /\ \A i \in 1 .. Len(users) : users'[i] = users[i] /\ users[i].char \in Char
        /\ \A i \in 1 .. Len(users') : i \in 1 .. Len(users) \/ i = Len(users) + 1
    BY <1>1, <1>2, AppendUser DEF Inv
  <1>4. online[c] = "in" /\ save.char # c
    BY DEF Backup
  <1>5. UNCHANGED <<db, online, mem, memstat, loaded, requests, save, copied, gifts,
                    faults, torn>>
    BY DEF Backup
  <1>6. TypeOK'
    BY <1>3, <1>5 DEF Inv, TypeOK, db
  <1>7. RowsRefer' /\ Absent' /\ ReadSoFar' /\ Collected'
    BY <1>5 DEF Inv, RowsRefer, Absent, ReadSoFar, Collected, InMemory, db, ItemsIn
  <1>8. Pending'
    BY <1>1, <1>3, <1>4, <1>5 DEF Inv, Pending
  <1>9. Saving'
    BY <1>1, <1>3, <1>4, <1>5 DEF Inv, Saving
  <1> QED
    BY <1>6, <1>7, <1>8, <1>9 DEF Inv

LEMMA LogoutInv ==
    ASSUME Inv, NEW c \in Char, Logout(c)
    PROVE  Inv'
  <1> DEFINE u == [char |-> c, logout |-> TRUE]
  <1>1. u \in [char : Char, logout : BOOLEAN] /\ u.char = c /\ u.logout = TRUE
    OBVIOUS
  <1>2. users' = Append(users, u)
    BY DEF Logout
  <1> HIDE DEF u
  <1>3. /\ users' \in Seq([char : Char, logout : BOOLEAN])
        /\ Len(users') = Len(users) + 1 /\ Len(users) \in Nat
        /\ users'[Len(users) + 1] = u
        /\ \A i \in 1 .. Len(users) : users'[i] = users[i] /\ users[i].char \in Char
        /\ \A i \in 1 .. Len(users') : i \in 1 .. Len(users) \/ i = Len(users) + 1
    BY <1>1, <1>2, AppendUser DEF Inv
  <1>4. /\ online[c] = "in" /\ online' = [online EXCEPT ![c] = "leaving"]
        /\ requests' = [requests EXCEPT ![c] = 0]
    BY DEF Logout
  <1>5. UNCHANGED <<db, mem, memstat, loaded, save, copied, gifts, faults, torn>>
    BY DEF Logout
  <1>6. /\ online' \in [Char -> {"out", "in", "leaving"}] /\ online'[c] = "leaving"
        /\ \A d \in Char \ {c} : online'[d] = online[d]
        /\ requests' \in [Char -> 0 .. MaxRequests] /\ requests'[c] = 0
        /\ \A d \in Char \ {c} : requests'[d] = requests[d]
    BY <1>4, StoreAssumption DEF Inv, TypeOK
  <1>7. TypeOK'
    BY <1>3, <1>5, <1>6 DEF Inv, TypeOK, db
  <1>8. RowsRefer'
    BY <1>5 DEF Inv, RowsRefer, db, ItemsIn
  <1>9. \A d \in Char, s \in Slot : InMemory(d, s)' = InMemory(d, s)
    BY <1>4, <1>5, <1>6 DEF InMemory
  <1>10. Absent'
    BY <1>5, <1>9 DEF Inv, Absent
  <1>11. Pending'
    BY <1>1, <1>3, <1>4, <1>6 DEF Inv, Pending
  <1>12. Saving'
    <2>1. save.char # null => online[save.char] # "out" /\ save.char \in Char
      BY DEF Inv, Saving, TypeOK
    <2>2. save.char # null => online'[save.char] # "out"
      BY <1>6, <2>1
    <2>3. ASSUME save.logout
          PROVE  /\ online'[save.char] = "leaving"
                 /\ \A j \in 1 .. Len(users') : users'[j].char # save.char
      <3>1. /\ online[save.char] = "leaving" /\ save.char \in Char
            /\ \A j \in 1 .. Len(users) : users[j].char # save.char
        BY <2>1, <2>3 DEF Inv, Saving
      <3>2. save.char # c
        BY <1>4, <3>1
      <3> QED
        BY <1>1, <1>3, <1>6, <3>1, <3>2
    <2>4. save.char = null => save.logout = FALSE
      BY DEF Inv, Saving
    <2> QED
      BY <1>5, <2>2, <2>3, <2>4 DEF Saving
  <1>13. ReadSoFar' /\ Collected'
    BY <1>5, <1>9 DEF Inv, ReadSoFar, Collected, ItemsIn, TypeOK
  <1> QED
    BY <1>7, <1>8, <1>10, <1>11, <1>12, <1>13 DEF Inv

LEMMA UserType ==
    ASSUME TypeOK
    PROVE  \A i \in 1 .. Len(users) : users[i].char \in Char /\ users[i].logout \in BOOLEAN
  <1> DEFINE U == [char : Char, logout : BOOLEAN]
  <1>1. users \in Seq(U) /\ \A v \in U : v.char \in Char /\ v.logout \in BOOLEAN
    BY DEF TypeOK
  <1> HIDE DEF U
  <1> QED
    BY <1>1

LEMMA SelectCharInv ==
    ASSUME Inv, NEW c \in Char, SelectChar(c)
    PROVE  Inv'
  <1>1. /\ save = Idle /\ online[c] = "out"
        /\ online' = [online EXCEPT ![c] = "in"]
        /\ mem' = [mem EXCEPT ![c] = Loaded(c, InvSlot)]
        /\ loaded' = [loaded EXCEPT ![c] = FALSE]
        /\ UNCHANGED <<rows, item, stat, requests, users, save, copied, gifts, faults, torn>>
    BY DEF SelectChar, MaySelect, db
  <1>2. /\ Loaded(c, InvSlot) \in [Slot -> Item \cup {null}]
        /\ \A s \in Slot : s \notin InvSlot => Loaded(c, InvSlot)[s] = null
    BY DEF Loaded, Inv, TypeOK
  <1>3. OptionsLoaded(ItemsIn(Loaded(c, InvSlot))) \subseteq Item
    BY <1>2, ItemsInFacts DEF OptionsLoaded
  <1>4. memstat' \in [Char -> SUBSET Item]
    BY <1>3 DEF SelectChar, Inv, TypeOK
  <1>5. /\ online' \in [Char -> {"out", "in", "leaving"}] /\ online'[c] = "in"
        /\ mem' \in [Char -> [Slot -> Item \cup {null}]] /\ mem'[c] = Loaded(c, InvSlot)
        /\ loaded' \in [Char -> BOOLEAN] /\ loaded'[c] = FALSE
        /\ \A d \in Char \ {c} : /\ online'[d] = online[d]
                                 /\ mem'[d] = mem[d]
                                 /\ loaded'[d] = loaded[d]
    BY <1>1, <1>2 DEF Inv, TypeOK
  <1>6. TypeOK'
    BY <1>1, <1>4, <1>5 DEF Inv, TypeOK
  <1>7. RowsRefer'
    BY <1>1 DEF Inv, RowsRefer, ItemsIn
  <1>8. Absent'
    BY <1>2, <1>5 DEF Inv, Absent, InMemory
  <1>9. Pending'
    <2>1. \A i \in 1 .. Len(users) : users[i].char \in Char \ {c}
      <3>1. \A i \in 1 .. Len(users) : users[i].char \in Char
        BY UserType DEF Inv
      <3>2. \A i \in 1 .. Len(users) : online[users[i].char] # "out"
        BY DEF Inv, Pending
      <3> QED
        BY <1>1, <3>1, <3>2
    <2> QED
      BY <1>1, <1>5, <2>1 DEF Inv, Pending
  <1>10. Saving' /\ ReadSoFar' /\ Collected'
    BY <1>1, IdleType DEF Saving, ReadSoFar, Collected
  <1> QED
    BY <1>6, <1>7, <1>8, <1>9, <1>10 DEF Inv

LEMMA BankListInv ==
    ASSUME Inv, NEW c \in Char, BankList(c)
    PROVE  Inv'
  <1> DEFINE L == Loaded(c, BankSlot)
             m == [s \in Slot |-> IF L[s] # null THEN L[s] ELSE mem[c][s]]
  <1>1. /\ save = Idle /\ requests[c] > 0
        /\ requests' = [requests EXCEPT ![c] = @ - 1]
        /\ mem' = [mem EXCEPT ![c] = m]
        /\ loaded' = [loaded EXCEPT ![c] = TRUE]
        /\ copied' = (copied \/ loaded[c])
        /\ UNCHANGED <<rows, item, stat, online, users, save, gifts, faults, torn>>
    BY DEF BankList, db
  <1>2. L \in [Slot -> Item \cup {null}]
    BY DEF Loaded, Inv, TypeOK
  <1>3. m \in [Slot -> Item \cup {null}]
    BY <1>2 DEF Inv, TypeOK
  <1>4. memstat' \in [Char -> SUBSET Item]
    BY <1>2, ItemsInFacts DEF BankList, Inv, TypeOK
  <1> HIDE DEF L, m
  <1>5. /\ mem' \in [Char -> [Slot -> Item \cup {null}]]
        /\ loaded' \in [Char -> BOOLEAN] /\ loaded'[c] = TRUE
        /\ \A d \in Char \ {c} : mem'[d] = mem[d] /\ loaded'[d] = loaded[d]
    BY <1>1, <1>3 DEF Inv, TypeOK
  <1>6. /\ requests' \in [Char -> 0 .. MaxRequests]
        /\ \A d \in Char : requests'[d] > 0 => requests[d] > 0
    BY <1>1, StoreAssumption DEF Inv, TypeOK
  <1>7. copied' \in BOOLEAN
    BY <1>1 DEF Inv, TypeOK
  <1>8. TypeOK'
    BY <1>1, <1>4, <1>5, <1>6, <1>7 DEF Inv, TypeOK
  <1>9. RowsRefer'
    BY <1>1 DEF Inv, RowsRefer, ItemsIn
  <1>10. online[c] = "in"
    BY <1>1 DEF Inv, Pending
  <1>11. Absent'
    BY <1>1, <1>5, <1>10 DEF Inv, Absent, InMemory
  <1>12. Pending'
    BY <1>1, <1>6 DEF Inv, Pending
  <1>13. Saving' /\ ReadSoFar' /\ Collected'
    BY <1>1, IdleType DEF Saving, ReadSoFar, Collected
  <1> QED
    BY <1>8, <1>9, <1>11, <1>12, <1>13 DEF Inv

LEMMA BeginSaveInv ==
    ASSUME Inv, BeginSave
    PROVE  Inv'
  <1> DEFINE U == [char : Char, logout : BOOLEAN]
  <1>1. users \in Seq(U) /\ users # <<>> /\ users' = Tail(users)
    BY DEF BeginSave, Inv, TypeOK
  <1>2. \A v \in U : v.char \in Char /\ v.logout \in BOOLEAN
    OBVIOUS
  <1> HIDE DEF U
  <1>3. /\ users' \in Seq(U) /\ Len(users) \in Nat /\ 1 \in 1 .. Len(users)
        /\ Len(users') = Len(users) - 1
        /\ \A i \in 1 .. Len(users') : /\ i + 1 \in 1 .. Len(users)
                                       /\ users'[i] = users[i + 1]
        /\ Head(users) = users[1] /\ users[1] \in U
        /\ \A i \in 1 .. Len(users) : users[i] \in U
    BY <1>1
  <1>4. /\ save' = [Idle EXCEPT !.char = users[1].char, !.logout = users[1].logout]
        /\ UNCHANGED <<rows, item, stat, online, mem, memstat, loaded, requests, copied,
                       gifts, faults, torn>>
    BY <1>3 DEF BeginSave, db
  <1>5. /\ save' \in SaveRecord
        /\ save'.char = users[1].char /\ save'.char \in Char
        /\ save'.logout = users[1].logout /\ save'.next = 1
        /\ save'.stat = {} /\ save'.sought = {} /\ save'.slots = Idle.slots
    BY <1>2, <1>3, <1>4, IdleType DEF Idle, SaveRecord
  <1>6. TypeOK'
    BY <1>3, <1>4, <1>5 DEF Inv, TypeOK, U, SaveRecord
  <1>7. RowsRefer' /\ Absent'
    BY <1>4 DEF Inv, RowsRefer, Absent, InMemory, ItemsIn
  <1>8. Pending'
    <2>1. \A d \in Char : requests'[d] > 0 => online'[d] = "in"
      BY <1>4 DEF Inv, Pending
    <2>2. ASSUME NEW i \in 1 .. Len(users')
          PROVE  /\ online'[users'[i].char] # "out"
                 /\ users'[i].logout => online'[users'[i].char] = "leaving"
      BY <1>3, <1>4 DEF Inv, Pending
    <2>3. ASSUME NEW i \in 1 .. Len(users'), users'[i].logout,
                 NEW j \in 1 .. Len(users'), users'[j].char = users'[i].char
          PROVE  j <= i
      <3>1. j + 1 <= i + 1
        BY <1>3, <2>3 DEF Inv, Pending
      <3> QED
        BY <1>3, <3>1
    <2> QED
      BY <2>1, <2>2, <2>3 DEF Pending
  <1>9. Saving'
    <2>1. save'.char # null /\ online'[save'.char] # "out"
      BY <1>3, <1>4, <1>5, StoreAssumption DEF Inv, Pending
    <2>2. ASSUME save'.logout
          PROVE  /\ online'[save'.char] = "leaving"
                 /\ \A j \in 1 .. Len(users') : users'[j].char # save'.char
      <3>1. /\ online[users[1].char] = "leaving"
            /\ \A j \in 1 .. Len(users) : users[j].char = users[1].char => j <= 1
        BY <1>3, <1>5, <2>2 DEF Inv, Pending
      <3>2. ASSUME NEW j \in 1 .. Len(users') PROVE users'[j].char # users[1].char
        <4>1. users[j + 1].char = users[1].char => j + 1 <= 1
          BY <1>3, <3>1
        <4>2. ~(j + 1 <= 1)
          BY <1>3
        <4> QED
          BY <1>3, <4>1, <4>2
      <3> QED
        BY <1>4, <1>5, <3>1, <3>2
    <2> QED
      BY <2>1, <2>2 DEF Saving
  <1>10. ReadSoFar' /\ Collected'
    BY <1>5, IdleType DEF ReadSoFar, Collected, Slot
  <1> QED
    BY <1>6, <1>7, <1>8, <1>9, <1>10 DEF Inv

\* A slot has been read: what the rows will name there is what it holds, or it is kept
\* in memory and nobody has left.
LEMMA ReadInv ==
    ASSUME Inv, save.char \in Char, save.char # null, save.next \in Slot,
           NEW i \in Item \cup {null},
           \/ i = mem[save.char][save.next]
           \/ InMemory(save.char, save.next) /\ online[save.char] = "in",
           save' \in SaveRecord,
           save'.char = save.char, save'.logout = save.logout,
           save'.next = save.next + 1,
           save'.slots = [save.slots EXCEPT ![save.next] = i],
           save'.stat \subseteq save'.items,
           save.items \cup ({i} \ {null}) \subseteq save'.items \cup save'.sought,
           save.sought \subseteq save'.sought,
           save'.sought = save.sought \/ online[save.char] = "in",
           torn' \in Nat,
           UNCHANGED <<rows, item, stat, online, mem, memstat, loaded, requests, users,
                       copied, gifts, faults>>
    PROVE  Inv'
  <1>1. TypeOK'
    BY DEF Inv, TypeOK, SaveRecord
  <1>2. RowsRefer' /\ Absent'
    BY DEF Inv, RowsRefer, Absent, InMemory, ItemsIn
  <1>3. Pending' /\ Saving'
    BY DEF Inv, Pending, Saving
  <1>4. save.logout => online[save.char] # "in"
    BY DEF Inv, Saving
  <1>5. ASSUME NEW s \in Slot, s < save'.next
        PROVE  /\ ~InMemory(save.char, s)' => save'.slots[s] = null
               /\ save'.logout => save'.slots[s] = mem'[save.char][s]
    <2>1. s = save.next \/ s < save.next
      BY <1>5, SlotFacts
    <2>2. InMemory(save.char, s)' = InMemory(save.char, s)
      BY DEF InMemory
    <2>3. CASE s = save.next
      <3>1. save'.slots[s] = i
        BY <2>3 DEF Inv, TypeOK
      <3>2. i = mem[save.char][s] \/ (InMemory(save.char, s) /\ ~save.logout)
        BY <1>4, <2>3
      <3>3. ~InMemory(save.char, s) => mem[save.char][s] = null
        BY DEF Inv, Absent
      <3> QED
        BY <2>2, <3>1, <3>2, <3>3
    <2>4. CASE s < save.next /\ s # save.next
      <3>1. save'.slots[s] = save.slots[s]
        BY <2>4 DEF Inv, TypeOK
      <3> QED
        BY <2>2, <2>4, <3>1 DEF Inv, ReadSoFar
    <2> QED
      BY <2>1, <2>3, <2>4
  <1>6. ReadSoFar'
    BY <1>5 DEF ReadSoFar
  <1>7. ItemsIn(save'.slots) \subseteq ItemsIn(save.slots) \cup ({i} \ {null})
    BY DEF ItemsIn, Inv, TypeOK
  <1>8. Collected'
    BY <1>4, <1>7 DEF Inv, Collected
  <1> QED
    BY <1>1, <1>2, <1>3, <1>6, <1>8 DEF Inv

LEMMA ReadSlotInv ==
    ASSUME Inv, ReadSlot
    PROVE  Inv'
  <1>1. save.char \in Char /\ save.next \in Slot /\ save.char # null
    BY DEF ReadSlot, Inv, TypeOK
  <1>2. PICK i \in Item \cup {null} : i = mem[save.char][save.next]
    BY <1>1 DEF Inv, TypeOK
  <1>3. PICK found : found = {i} \ {null}
    OBVIOUS
  <1>4. /\ save' = [save EXCEPT
                       !.valid = @ \cup found, !.items = @ \cup found,
                       !.stat = (@ \ found) \cup (memstat[save.char] \cap found),
                       !.slots[save.next] = i, !.next = @ + 1]
        /\ UNCHANGED <<rows, item, stat, online, mem, memstat, loaded, requests, users,
                       copied, gifts, faults, torn>>
    BY <1>2, <1>3 DEF ReadSlot, db
  <1>5. save \in SaveRecord /\ save.stat \subseteq save.items /\ torn \in Nat
    BY DEF Inv, TypeOK, SaveRecord
  <1>6. [save.slots EXCEPT ![save.next] = i] \in [Slot -> Item \cup {null}]
    BY <1>1, <1>5 DEF SaveRecord
  <1>7. save.next + 1 \in 1 .. NInv + NBank + 1
    BY <1>1, SlotFacts
  <1>8. /\ save'.char = save.char /\ save'.logout = save.logout
        /\ save'.next = save.next + 1 /\ save'.sought = save.sought
        /\ save'.slots = [save.slots EXCEPT ![save.next] = i]
        /\ save'.items = save.items \cup found
        /\ save'.stat = (save.stat \ found) \cup (memstat[save.char] \cap found)
    BY <1>4, <1>5 DEF SaveRecord
  <1>9. save' \in SaveRecord
    BY <1>1, <1>3, <1>4, <1>5, <1>6, <1>7 DEF SaveRecord
  <1> QED
    BY <1>1, <1>2, <1>3, <1>4, <1>5, <1>8, <1>9, ReadInv

LEMMA ReadTornSlotInv ==
    ASSUME Inv, ReadTornSlot
    PROVE  Inv'
  <1>1. /\ save.char \in Char /\ save.next \in Slot /\ save.char # null
        /\ online[save.char] = "in" /\ InMemory(save.char, save.next)
    BY DEF ReadTornSlot, InMemory, Inv, TypeOK
  <1>2. PICK listed \in Item, written \in Item, named \in Item :
           \E option \in SUBSET {written} :
              save' = [save EXCEPT
                          !.valid = @ \cup {listed},
                          !.items = @ \cup {written},
                          !.stat = (@ \ {written}) \cup option,
                          !.sought = @ \cup ({named} \ (save.items \cup {written})),
                          !.slots[save.next] = named,
                          !.next = @ + 1]
    BY Zenon DEF ReadTornSlot
  <1>3. PICK option \in SUBSET {written} :
           save' = [save EXCEPT
                       !.valid = @ \cup {listed},
                       !.items = @ \cup {written},
                       !.stat = (@ \ {written}) \cup option,
                       !.sought = @ \cup ({named} \ (save.items \cup {written})),
                       !.slots[save.next] = named,
                       !.next = @ + 1]
    BY <1>2
  <1>4. UNCHANGED <<rows, item, stat, online, mem, memstat, loaded, requests, users,
                    copied, gifts, faults>>
    BY DEF ReadTornSlot, db
  <1>5. save \in SaveRecord /\ save.stat \subseteq save.items
    BY DEF Inv, TypeOK, SaveRecord
  <1>6. torn' \in Nat
    BY StoreAssumption DEF ReadTornSlot, Inv, TypeOK
  <1>7. [save.slots EXCEPT ![save.next] = named] \in [Slot -> Item \cup {null}]
    BY <1>1, <1>5 DEF SaveRecord
  <1>8. save.next + 1 \in 1 .. NInv + NBank + 1
    BY <1>1, SlotFacts
  <1>9. /\ save'.char = save.char /\ save'.logout = save.logout
        /\ save'.next = save.next + 1
        /\ save'.sought = save.sought \cup ({named} \ (save.items \cup {written}))
        /\ save'.slots = [save.slots EXCEPT ![save.next] = named]
        /\ save'.items = save.items \cup {written}
        /\ save'.stat = (save.stat \ {written}) \cup option
    BY <1>3, <1>5 DEF SaveRecord
  <1>10. save' \in SaveRecord
    BY <1>1, <1>3, <1>5, <1>7, <1>8 DEF SaveRecord
  <1>11. /\ save'.stat \subseteq save'.items
         /\ save.items \cup ({named} \ {null}) \subseteq save'.items \cup save'.sought
         /\ save.sought \subseteq save'.sought
    BY <1>5, <1>9
  <1> QED
    BY <1>1, <1>4, <1>6, <1>9, <1>10, <1>11, ReadInv

\* The end of a save, whether the batch is committed or rolled back.
LEMMA EndOfSaveInv ==
    ASSUME Inv, EndOfSave
    PROVE  /\ save.char \in Char /\ save.char # null
           /\ Absent' /\ Pending' /\ Saving' /\ ReadSoFar' /\ Collected'
           /\ online' \in [Char -> {"out", "in", "leaving"}]
           /\ mem' \in [Char -> [Slot -> Item \cup {null}]]
           /\ memstat' \in [Char -> SUBSET Item]
           /\ loaded' \in [Char -> BOOLEAN]
           /\ save' = Idle
           /\ UNCHANGED <<requests, users, copied, gifts, torn>>
  <1>1. /\ save.char \in Char /\ save.char # null /\ Release /\ save' = Idle
        /\ UNCHANGED <<requests, users, copied, gifts, torn>>
    BY DEF EndOfSave, Inv, TypeOK
  <1>2. TypeOK
    BY DEF Inv
  <1>3. /\ online' \in [Char -> {"out", "in", "leaving"}]
        /\ mem' \in [Char -> [Slot -> Item \cup {null}]]
        /\ memstat' \in [Char -> SUBSET Item]
        /\ loaded' \in [Char -> BOOLEAN]
        /\ save.logout => /\ online'[save.char] = "out"
                          /\ mem'[save.char] = NoItems
                          /\ ~loaded'[save.char]
        /\ \A c \in Char : c # save.char \/ ~save.logout =>
              /\ online'[c] = online[c]
              /\ mem'[c] = mem[c]
              /\ loaded'[c] = loaded[c]
    BY <1>1, <1>2, ReleaseFacts
  <1>4. Absent'
    <2> SUFFICES ASSUME NEW c \in Char, NEW s \in Slot, ~InMemory(c, s)'
                 PROVE  mem'[c][s] = null
      BY DEF Absent
    <2>1. CASE c = save.char /\ save.logout
      BY <1>3, <2>1 DEF NoItems
    <2>2. CASE c # save.char \/ ~save.logout
      BY <1>3, <2>2 DEF Inv, Absent, InMemory
    <2> QED
      BY <2>1, <2>2
  <1>5. Pending'
    <2>1. ASSUME NEW c \in Char, requests[c] > 0 PROVE online'[c] = "in"
      <3>1. online[c] = "in"
        BY <2>1 DEF Inv, Pending
      <3>2. c # save.char \/ ~save.logout
        BY <3>1 DEF Inv, Saving
      <3> QED
        BY <1>3, <3>1, <3>2
    <2>2. ASSUME NEW i \in 1 .. Len(users)
          PROVE  online'[users[i].char] = online[users[i].char]
      <3>1. users[i].char \in Char
        BY <1>2, UserType
      <3>2. users[i].char # save.char \/ ~save.logout
        BY <1>2, UserType DEF Inv, Saving
      <3> QED
        BY <1>3, <3>1, <3>2
    <2> QED
      BY <1>1, <2>1, <2>2 DEF Inv, Pending
  <1>6. Saving' /\ ReadSoFar' /\ Collected'
    BY <1>1, IdleType DEF Saving, ReadSoFar, Collected
  <1> QED
    BY <1>1, <1>3, <1>4, <1>5, <1>6

LEMMA CommitSaveInv ==
    ASSUME Inv, CommitSave
    PROVE  Inv'
  <1>1. /\ EndOfSave /\ Resolved
        /\ rows' = [Cascaded(Deleted) EXCEPT ![save.char] = save.slots]
        /\ item' = (item \ Deleted) \cup save.items
        /\ stat' = StatRows
        /\ UNCHANGED faults
    BY DEF CommitSave
  <1>2. /\ save.char \in Char
        /\ Absent' /\ Pending' /\ Saving' /\ ReadSoFar' /\ Collected'
        /\ online' \in [Char -> {"out", "in", "leaving"}]
        /\ mem' \in [Char -> [Slot -> Item \cup {null}]]
        /\ memstat' \in [Char -> SUBSET Item]
        /\ loaded' \in [Char -> BOOLEAN]
        /\ save' = Idle
        /\ UNCHANGED <<requests, users, copied, gifts, torn>>
    BY <1>1, EndOfSaveInv
  <1>3. /\ rows' \in [Char -> [Slot -> Item \cup {null}]]
        /\ item' \subseteq Item /\ stat' \subseteq item' /\ RowsRefer'
    BY <1>1, <1>2, CommitFacts DEF Inv
  <1>4. TypeOK'
    BY <1>1, <1>2, <1>3, IdleType DEF Inv, TypeOK, SaveRecord
  <1> QED
    BY <1>2, <1>3, <1>4 DEF Inv

LEMMA FailSaveInv ==
    ASSUME Inv, FailSave
    PROVE  Inv'
  <1>1. EndOfSave /\ UNCHANGED <<rows, item, stat>> /\ faults' \in Nat
    BY StoreAssumption DEF FailSave, db, Inv, TypeOK
  <1>2. /\ Absent' /\ Pending' /\ Saving' /\ ReadSoFar' /\ Collected'
        /\ online' \in [Char -> {"out", "in", "leaving"}]
        /\ mem' \in [Char -> [Slot -> Item \cup {null}]]
        /\ memstat' \in [Char -> SUBSET Item]
        /\ loaded' \in [Char -> BOOLEAN]
        /\ save' = Idle
        /\ UNCHANGED <<requests, users, copied, gifts, torn>>
    BY <1>1, EndOfSaveInv
  <1>3. TypeOK'
    BY <1>1, <1>2, IdleType DEF Inv, TypeOK, SaveRecord
  <1>4. RowsRefer'
    BY <1>1 DEF Inv, RowsRefer, ItemsIn
  <1> QED
    BY <1>2, <1>3, <1>4 DEF Inv

LEMMA CrashInv ==
    ASSUME Inv, Crash
    PROVE  Inv'
  <1>1. users' \in Seq([char : Char, logout : BOOLEAN]) /\ Len(users') = 0
    BY DEF Crash
  <1>2. /\ online' \in [Char -> {"out", "in", "leaving"}]
        /\ memstat' \in [Char -> SUBSET Item]
        /\ loaded' \in [Char -> BOOLEAN]
        /\ requests' \in [Char -> 0 .. MaxRequests] /\ \A c \in Char : requests'[c] = 0
        /\ faults' \in Nat
    BY StoreAssumption DEF Crash, Inv, TypeOK
  <1>3. mem' = [c \in Char |-> NoItems] /\ mem' \in [Char -> [Slot -> Item \cup {null}]]
    BY NoItemsType DEF Crash
  <1>4. save' = Idle /\ UNCHANGED <<rows, item, stat, copied, gifts, torn>>
    BY DEF Crash, db
  <1>5. TypeOK'
    BY <1>1, <1>2, <1>3, <1>4, IdleType DEF Inv, TypeOK, SaveRecord
  <1>6. RowsRefer'
    BY <1>4 DEF Inv, RowsRefer, ItemsIn
  <1>7. Absent'
    BY <1>3 DEF Absent, NoItems
  <1>8. Pending'
    BY <1>1, <1>2 DEF Pending
  <1>9. Saving' /\ ReadSoFar' /\ Collected'
    BY <1>4, IdleType DEF Saving, ReadSoFar, Collected
  <1> QED
    BY <1>5, <1>6, <1>7, <1>8, <1>9 DEF Inv

LEMMA StutterInv == ASSUME Inv, UNCHANGED vars PROVE Inv'
  <1>1. UNCHANGED <<rows, item, stat, online, mem, memstat, loaded, requests, users, save,
                    copied, gifts, faults, torn>>
    BY DEF vars
  <1>2. TypeOK' /\ RowsRefer'
    BY <1>1 DEF Inv, TypeOK, RowsRefer, ItemsIn
  <1>3. Absent' /\ Pending' /\ Saving' /\ ReadSoFar' /\ Collected'
    BY <1>1 DEF Inv, Absent, Pending, Saving, ReadSoFar, Collected, ItemsIn, InMemory
  <1> QED
    BY <1>2, <1>3 DEF Inv

\* The steps of the specification, each an action of its own.
LEMMA Steps ==
    ASSUME Next
    PROVE  \/ \E c \in Char : \/ BankListReq(c) \/ Backup(c) \/ Logout(c)
                              \/ SelectChar(c) \/ BankList(c)
           \/ \E c \in Char, s, t \in Slot : MoveItem(c, s, t)
           \/ \E c, d \in Char, s, t \in InvSlot : Give(c, s, d, t)
           \/ \E c, d \in Char, s, t \in Slot : Divide(c, s, d, t)
           \/ \E c \in Char, s \in InvSlot : UseUp(c, s)
           \/ BeginSave \/ ReadSlot \/ ReadTornSlot \/ CommitSave \/ FailSave \/ Crash
  BY DEF Next, UserStep, SqlStep

LEMMA InvStep == Inv /\ [Next]_vars => Inv'
  <1> SUFFICES ASSUME Inv, [Next]_vars PROVE Inv'
    OBVIOUS
  <1>1. CASE UNCHANGED vars
    BY <1>1, StutterInv
  <1>2. ASSUME NEW c \in Char,
               \/ BankListReq(c) \/ Backup(c) \/ Logout(c) \/ SelectChar(c) \/ BankList(c)
        PROVE  Inv'
    BY <1>2, BankListReqInv, BackupInv, LogoutInv, SelectCharInv, BankListInv
  <1>3. ASSUME NEW c \in Char, NEW s \in Slot, NEW t \in Slot, MoveItem(c, s, t)
        PROVE  Inv'
    BY <1>3, MoveItemInv
  <1>4. ASSUME NEW c \in Char, NEW d \in Char, NEW s \in InvSlot, NEW t \in InvSlot,
               Give(c, s, d, t)
        PROVE  Inv'
    BY <1>4, GiveInv
  <1>5. CASE BeginSave \/ ReadSlot \/ ReadTornSlot \/ CommitSave \/ FailSave \/ Crash
    BY <1>5, BeginSaveInv, ReadSlotInv, ReadTornSlotInv, CommitSaveInv, FailSaveInv, CrashInv
  <1>6. ASSUME NEW c \in Char, NEW d \in Char, NEW s \in Slot, NEW t \in Slot,
               Divide(c, s, d, t)
        PROVE  Inv'
    BY <1>6, DivideInv
  <1>7. ASSUME NEW c \in Char, NEW s \in InvSlot, UseUp(c, s)
        PROVE  Inv'
    BY <1>7, UseUpInv
  <1> QED
    BY <1>1, <1>2, <1>3, <1>4, <1>5, <1>6, <1>7, Steps

\* In every state: types and foreign keys; what is not kept in memory is empty there;
\* who waits to be saved; what a save has read so far and what its rows will name.
THEOREM Invariance == Spec => []Inv
  BY InvInit, InvStep, PTL DEF Spec

\* The variables keep to their types.
THEOREM TypeCorrect == Spec => []TypeOK
  <1>1. Inv => TypeOK
    BY DEF Inv
  <1> QED
    BY <1>1, Invariance, PTL

\* The rows of inventories and storages name items that are in the table.
THEOREM RowsReferSafety == Spec => []RowsRefer
  <1>1. Inv => RowsRefer
    BY DEF Inv
  <1> QED
    BY <1>1, Invariance, PTL

\* The rows of a character change by its own save only, or lose an item that
\* another owner's save finds gone.
THEOREM RowsChange == Spec => RowsChangeBySave
  <1> DEFINE P ==
         \A c \in Char :
             rows'[c] # rows[c] /\ save.char # c =>
                 \A s \in Slot : rows'[c][s] # rows[c][s] =>
                     /\ rows'[c][s] = null
                     /\ rows[c][s] \in ItemsIn(rows[save.char]) \ save.valid
  <1>1. Inv /\ [Next]_vars => [P]_vars
    <2> SUFFICES ASSUME Inv, Next PROVE P
      OBVIOUS
    <2>1. CASE CommitSave
      <3>1. /\ save.char \in Char /\ Resolved
            /\ rows' = [Cascaded(Deleted) EXCEPT ![save.char] = save.slots]
            /\ item' = (item \ Deleted) \cup save.items
            /\ stat' = StatRows
        BY <2>1 DEF CommitSave, EndOfSave, Inv, TypeOK
      <3>2. /\ Deleted \subseteq ItemsIn(rows[save.char]) \ save.valid
            /\ \A c \in Char \ {save.char}, s \in Slot :
                  rows'[c][s] = IF rows[c][s] \in Deleted THEN null ELSE rows[c][s]
        BY <3>1, CommitFacts DEF Inv
      <3> QED
        BY <3>2
    <2>2. CASE ~CommitSave
      <3>1. UNCHANGED rows
        <4>1. ASSUME NEW c \in Char,
                     \/ BankListReq(c) \/ Backup(c) \/ Logout(c) \/ SelectChar(c)
                     \/ BankList(c)
              PROVE  UNCHANGED rows
          BY <4>1 DEF BankListReq, Backup, Logout, SelectChar, BankList, db
        <4>2. ASSUME NEW c \in Char, NEW s \in Slot, NEW t \in Slot, MoveItem(c, s, t)
              PROVE  UNCHANGED rows
          BY <4>2 DEF MoveItem, db
        <4>3. ASSUME NEW c \in Char, NEW d \in Char, NEW s \in InvSlot, NEW t \in InvSlot,
                     Give(c, s, d, t)
              PROVE  UNCHANGED rows
          BY <4>3 DEF Give, db
        <4>4. CASE BeginSave \/ ReadSlot \/ ReadTornSlot \/ FailSave \/ Crash
          BY <4>4 DEF BeginSave, ReadSlot, ReadTornSlot, FailSave, Crash, db
        <4>5. ASSUME NEW c \in Char, NEW d \in Char, NEW s \in Slot, NEW t \in Slot,
                     Divide(c, s, d, t) \/ (s \in InvSlot /\ UseUp(c, s))
              PROVE  UNCHANGED rows
          BY <4>5 DEF Divide, UseUp, db
        <4> QED
          BY <2>2, <4>1, <4>2, <4>3, <4>4, <4>5, Steps, SlotFacts
      <3> QED
        BY <3>1
    <2> QED
      BY <2>1, <2>2
  <1> QED
    BY <1>1, Invariance, PTL DEF Spec, RowsChangeBySave

-----------------------------------------------------------------------------
(***************************************************************************)
(* The server implements ItemHome.                                         *)
(***************************************************************************)
LEMMA HomeFacts ==
    ASSUME TypeOK
    PROVE  /\ Home \in [Char -> [Slot -> Item \cup {null}]]
           /\ \A c \in Char, s \in Slot :
                 Home[c][s] = IF InMemory(c, s) THEN mem[c][s] ELSE rows[c][s]
  BY DEF Home, Held, TypeOK

LEMMA HomeFactsNext ==
    ASSUME TypeOK'
    PROVE  /\ Home' \in [Char -> [Slot -> Item \cup {null}]]
           /\ \A c \in Char, s \in Slot :
                 Home'[c][s] = IF InMemory(c, s)' THEN mem'[c][s] ELSE rows'[c][s]
  BY DEF Home, Held, TypeOK

LEMMA SameHome ==
    ASSUME TypeOK, TypeOK',
           \A c \in Char, s \in Slot : Home'[c][s] = Home[c][s]
    PROVE  Home' = Home
  <1>1. /\ Home \in [Char -> [Slot -> Item \cup {null}]]
        /\ Home' \in [Char -> [Slot -> Item \cup {null}]]
    BY HomeFacts, HomeFactsNext
  <1>2. \A c \in Char : Home'[c] = Home[c]
    BY <1>1
  <1> QED
    BY <1>1, <1>2

\* Two slots of a function from characters to slots are set.
TwoSet(f, c, s, n, d, t, v) == [f EXCEPT ![c][s] = n, ![d][t] = v]

LEMMA MovedHome ==
    ASSUME NEW S, NEW f \in [Char -> [Slot -> S]], NEW g \in [Char -> [Slot -> S]],
           NEW c \in Char, NEW d \in Char, NEW s \in Slot, NEW t \in Slot,
           NEW n \in S, NEW v \in S,
           \A e \in Char, u \in Slot :
               g[e][u] = IF e = d /\ u = t THEN v ELSE IF e = c /\ u = s THEN n ELSE f[e][u]
    PROVE  g = TwoSet(f, c, s, n, d, t, v)
  <1>1. PICK m : m = [f EXCEPT ![c][s] = n]
    OBVIOUS
  <1>2. m \in [Char -> [Slot -> S]]
    BY <1>1, SetSlot
  <1>3. \A e \in Char, u \in Slot : m[e][u] = IF e = c /\ u = s THEN n ELSE f[e][u]
    BY <1>1, SetSlot
  <1>4. PICK h : h = [m EXCEPT ![d][t] = v]
    OBVIOUS
  <1>5. /\ h \in [Char -> [Slot -> S]]
        /\ \A e \in Char, u \in Slot : h[e][u] = IF e = d /\ u = t THEN v ELSE m[e][u]
    BY <1>2, <1>3, <1>4, SetSlot, SMTT(30)
  <1>6. TwoSet(f, c, s, n, d, t, v) = h
    BY <1>1, <1>4 DEF TwoSet
  <1>7. ASSUME NEW e \in Char PROVE g[e] = h[e]
    <2>1. g[e] \in [Slot -> S] /\ h[e] \in [Slot -> S]
      BY <1>5
    <2>2. \A u \in Slot : g[e][u] = h[e][u]
      BY <1>3, <1>5
    <2> QED
      BY <2>1, <2>2
  <1>8. g = h
    BY <1>5, <1>7
  <1> QED
    BY <1>6, <1>8

\* What a step may do to the items, as ItemHome says it.
HomeMoved(c, s, d, t) ==
    /\ Home[c][s] # null /\ Home[d][t] = null
    /\ Home' = [Home EXCEPT ![c][s] = null, ![d][t] = Home[c][s]]

HomeLost ==
    /\ Home' \in [Char -> [Slot -> Item \cup {null}]]
    /\ \A c \in Char, s \in Slot : Home'[c][s] \in {Home[c][s], null}

LEMMA HomeKept ==
    ASSUME Inv, TypeOK', NEW c \in Char,
           BankListReq(c) \/ Backup(c) \/ Logout(c)
    PROVE  Home' = Home /\ UNCHANGED <<copied, faults>>
  <1>1. UNCHANGED <<rows, mem, loaded, copied, faults>>
    BY DEF BankListReq, Backup, Logout, db
  <1>2. \A d \in Char : online'[d] = "out" <=> online[d] = "out"
    BY DEF BankListReq, Backup, Logout, Inv, TypeOK
  <1>3. \A d \in Char, s \in Slot : InMemory(d, s)' <=> InMemory(d, s)
    BY <1>1, <1>2 DEF InMemory
  <1>4. \A d \in Char, s \in Slot : Home'[d][s] = Home[d][s]
    BY <1>1, <1>3, HomeFacts, HomeFactsNext DEF Inv
  <1> QED
    BY <1>1, <1>4, SameHome DEF Inv

LEMMA HomeRead ==
    ASSUME Inv, TypeOK', BeginSave \/ ReadSlot \/ ReadTornSlot
    PROVE  Home' = Home /\ UNCHANGED <<copied, faults>>
  <1>1. UNCHANGED <<rows, online, mem, loaded, copied, faults>>
    BY DEF BeginSave, ReadSlot, ReadTornSlot, db
  <1>2. \A d \in Char, s \in Slot : InMemory(d, s)' <=> InMemory(d, s)
    BY <1>1 DEF InMemory
  <1>3. \A d \in Char, s \in Slot : Home'[d][s] = Home[d][s]
    BY <1>1, <1>2, HomeFacts, HomeFactsNext DEF Inv
  <1> QED
    BY <1>1, <1>3, SameHome DEF Inv

LEMMA HomeSelected ==
    ASSUME Inv, TypeOK', NEW c \in Char, SelectChar(c)
    PROVE  Home' = Home /\ UNCHANGED <<copied, faults>>
  <1>1. /\ online[c] = "out"
        /\ online' = [online EXCEPT ![c] = "in"]
        /\ mem' = [mem EXCEPT ![c] = Loaded(c, InvSlot)]
        /\ loaded' = [loaded EXCEPT ![c] = FALSE]
        /\ UNCHANGED <<rows, copied, faults>>
    BY DEF SelectChar, MaySelect, db
  <1>2. /\ online'[c] = "in" /\ mem'[c] = Loaded(c, InvSlot) /\ loaded'[c] = FALSE
        /\ \A d \in Char \ {c} : /\ online'[d] = online[d]
                                 /\ mem'[d] = mem[d]
                                 /\ loaded'[d] = loaded[d]
    BY <1>1 DEF Inv, TypeOK
  <1>3. \A s \in InvSlot : Loaded(c, InvSlot)[s] = rows[c][s]
    BY SlotFacts DEF Loaded
  <1>4. ASSUME NEW d \in Char, NEW s \in Slot PROVE Home'[d][s] = Home[d][s]
    <2>1. CASE d = c
      <3>1. ~InMemory(c, s) /\ (InMemory(c, s)' <=> s \in InvSlot)
        BY <1>1, <1>2 DEF InMemory
      <3> QED
        BY <1>1, <1>2, <1>3, <2>1, <3>1, HomeFacts, HomeFactsNext DEF Inv
    <2>2. CASE d # c
      <3>1. InMemory(d, s)' <=> InMemory(d, s)
        BY <1>2, <2>2 DEF InMemory
      <3> QED
        BY <1>1, <1>2, <2>2, <3>1, HomeFacts, HomeFactsNext DEF Inv
    <2> QED
      BY <2>1, <2>2
  <1> QED
    BY <1>1, <1>4, SameHome DEF Inv

LEMMA HomeListed ==
    ASSUME Inv, TypeOK', NEW c \in Char, BankList(c), ~loaded[c]
    PROVE  Home' = Home /\ UNCHANGED <<copied, faults>>
  <1>1. /\ requests[c] > 0
        /\ mem' = [mem EXCEPT ![c] = [s \in Slot |->
                      IF Loaded(c, BankSlot)[s] # null
                      THEN Loaded(c, BankSlot)[s] ELSE mem[c][s]]]
        /\ loaded' = [loaded EXCEPT ![c] = TRUE]
        /\ UNCHANGED <<rows, online, faults>>
    BY DEF BankList, db
  <1>2. UNCHANGED copied
    BY DEF BankList, Inv, TypeOK
  <1>3. online[c] = "in"
    BY <1>1 DEF Inv, Pending
  <1>4. /\ \A s \in Slot : mem'[c][s] = IF Loaded(c, BankSlot)[s] # null
                                        THEN Loaded(c, BankSlot)[s] ELSE mem[c][s]
        /\ loaded'[c] = TRUE
        /\ \A d \in Char \ {c} : mem'[d] = mem[d] /\ loaded'[d] = loaded[d]
    BY <1>1 DEF Inv, TypeOK
  <1>5. \A s \in Slot : Loaded(c, BankSlot)[s] = IF s \in BankSlot THEN rows[c][s] ELSE null
    BY DEF Loaded
  <1>6. ASSUME NEW d \in Char, NEW s \in Slot PROVE Home'[d][s] = Home[d][s]
    <2>1. CASE d = c /\ s \in InvSlot
      <3>1. InMemory(c, s) /\ InMemory(c, s)' /\ s \notin BankSlot
        BY <1>1, <1>3, <2>1, SlotFacts DEF InMemory
      <3> QED
        BY <1>4, <1>5, <2>1, <3>1, HomeFacts, HomeFactsNext DEF Inv
    <2>2. CASE d = c /\ s \notin InvSlot
      <3>1. ~InMemory(c, s) /\ InMemory(c, s)' /\ s \in BankSlot
        BY <1>1, <1>3, <1>4, <2>2, SlotFacts DEF InMemory
      <3>2. mem[c][s] = null
        BY <3>1 DEF Inv, Absent
      <3> QED
        BY <1>1, <1>4, <1>5, <2>2, <3>1, <3>2, HomeFacts, HomeFactsNext DEF Inv
    <2>3. CASE d # c
      <3>1. InMemory(d, s)' <=> InMemory(d, s)
        BY <1>1, <1>4, <2>3 DEF InMemory
      <3> QED
        BY <1>1, <1>4, <2>3, <3>1, HomeFacts, HomeFactsNext DEF Inv
    <2> QED
      BY <2>1, <2>2, <2>3
  <1> QED
    BY <1>1, <1>2, <1>6, SameHome DEF Inv

\* Items move between slots that are kept in memory.
LEMMA HomeMoves ==
    ASSUME Inv, TypeOK', NEW c \in Char, NEW d \in Char, NEW s \in Slot, NEW t \in Slot,
           InMemory(c, s), InMemory(d, t), mem[c][s] # null, mem[d][t] = null,
           mem' = Moved(c, s, d, t), UNCHANGED <<rows, online, loaded>>
    PROVE  HomeMoved(c, s, d, t)
  <1>1. \A e \in Char, u \in Slot :
           mem'[e][u] = IF e = d /\ u = t THEN mem[c][s]
                        ELSE IF e = c /\ u = s THEN null
                        ELSE mem[e][u]
    BY MoveMem DEF Inv
  <1>2. Home[c][s] = mem[c][s] /\ Home[d][t] = mem[d][t]
    BY HomeFacts DEF Inv
  <1>3. ASSUME NEW e \in Char, NEW u \in Slot
        PROVE  Home'[e][u] = IF e = d /\ u = t THEN Home[c][s]
                             ELSE IF e = c /\ u = s THEN null
                             ELSE Home[e][u]
    <2>1. InMemory(e, u)' <=> InMemory(e, u)
      BY DEF InMemory
    <2>2. Home[e][u] = IF InMemory(e, u) THEN mem[e][u] ELSE rows[e][u]
      BY HomeFacts DEF Inv
    <2>3. Home'[e][u] = IF InMemory(e, u) THEN mem'[e][u] ELSE rows[e][u]
      BY <2>1, HomeFactsNext
    <2>4. CASE e = d /\ u = t
      BY <1>1, <1>2, <2>3, <2>4
    <2>5. CASE e = c /\ u = s /\ ~(e = d /\ u = t)
      BY <1>1, <2>3, <2>5
    <2>6. CASE ~(e = c /\ u = s) /\ ~(e = d /\ u = t)
      BY <1>1, <2>2, <2>3, <2>6
    <2> QED
      BY <2>4, <2>5, <2>6
  <1>4. PICK S : S = Item \cup {null}
    OBVIOUS
  <1>5. /\ Home \in [Char -> [Slot -> S]] /\ Home' \in [Char -> [Slot -> S]]
        /\ Home[c][s] \in S /\ null \in S
    BY <1>4, HomeFacts, HomeFactsNext DEF Inv
  <1>6. PICK f, g, v : f = Home /\ g = Home' /\ v = Home[c][s]
    OBVIOUS
  <1>7. g = TwoSet(f, c, s, null, d, t, v)
    <2>1. /\ f \in [Char -> [Slot -> S]] /\ g \in [Char -> [Slot -> S]]
          /\ v \in S /\ null \in S
      BY <1>5, <1>6
    <2>2. \A e \in Char, u \in Slot :
             g[e][u] = IF e = d /\ u = t THEN v ELSE IF e = c /\ u = s THEN null ELSE f[e][u]
      BY <1>3, <1>6
    <2> QED
      BY <2>1, <2>2, MovedHome
  <1> QED
    BY <1>2, <1>6, <1>7 DEF HomeMoved, TwoSet

LEMMA HomeMoveItem ==
    ASSUME Inv, TypeOK', NEW c \in Char, NEW s \in Slot, NEW t \in Slot, MoveItem(c, s, t)
    PROVE  HomeMoved(c, s, c, t) /\ UNCHANGED <<copied, faults>>
  <1>1. InMemory(c, s) /\ InMemory(c, t)
    BY DEF MoveItem, InMemory
  <1>2. mem[c][s] # null /\ mem[c][t] = null /\ UNCHANGED <<copied, faults>>
    BY DEF MoveItem
  <1>3. mem' = Moved(c, s, c, t) /\ UNCHANGED <<rows, online, loaded>>
    BY DEF MoveItem, Moved, db
  <1> QED
    BY <1>1, <1>2, <1>3, HomeMoves

LEMMA HomeGive ==
    ASSUME Inv, TypeOK', NEW c \in Char, NEW s \in InvSlot, NEW d \in Char,
           NEW t \in InvSlot, Give(c, s, d, t)
    PROVE  HomeMoved(c, s, d, t) /\ UNCHANGED <<copied, faults>>
  <1>1. InMemory(c, s) /\ InMemory(d, t) /\ s \in Slot /\ t \in Slot
    BY SlotFacts DEF Give, InMemory
  <1>2. mem[c][s] # null /\ mem[d][t] = null /\ UNCHANGED <<copied, faults>>
    BY DEF Give
  <1>3. mem' = Moved(c, s, d, t) /\ UNCHANGED <<rows, online, loaded>>
    BY DEF Give, Moved, db
  <1> QED
    BY <1>1, <1>2, <1>3, HomeMoves

LEMMA HomeUseUp ==
    ASSUME Inv, TypeOK', NEW c \in Char, NEW s \in InvSlot, UseUp(c, s)
    PROVE  HomeLost /\ UNCHANGED <<copied, faults>>
  <1>1. UNCHANGED <<rows, online, loaded, copied, faults>>
    BY DEF UseUp, db
  <1>2. \A e \in Char, u \in Slot :
           mem'[e][u] = IF e = c /\ u = s THEN null ELSE mem[e][u]
    <2>1. TypeOK /\ s \in Slot /\ mem' = [mem EXCEPT ![c][s] = null]
      BY SlotFacts DEF UseUp, Inv
    <2> QED
      BY <2>1, Emptied
  <1>3. \A e \in Char, u \in Slot : InMemory(e, u)' <=> InMemory(e, u)
    BY <1>1 DEF InMemory
  <1>4. \A e \in Char, u \in Slot : Home'[e][u] \in {Home[e][u], null}
    BY <1>1, <1>2, <1>3, HomeFacts, HomeFactsNext DEF Inv
  <1> QED
    BY <1>1, <1>4, HomeFactsNext DEF HomeLost

\* What a save writes is what the user still has, where it is given back; where a
\* slot is not in memory, it is nothing.
LEMMA HomeCommitted ==
    ASSUME Inv, TypeOK', CommitSave
    PROVE  HomeLost /\ UNCHANGED <<copied, faults>>
  <1>1. /\ rows' = [Cascaded(Deleted) EXCEPT ![save.char] = save.slots]
        /\ item' = (item \ Deleted) \cup save.items
        /\ stat' = StatRows
        /\ save.char \in Char /\ save.char # null /\ save.next \notin Slot /\ Resolved
        /\ Release
        /\ UNCHANGED <<copied, faults>>
    BY DEF CommitSave, EndOfSave, Inv, TypeOK
  <1>2. TypeOK /\ RowsRefer /\ Collected
    BY DEF Inv
  <1>3. /\ rows'[save.char] = save.slots
        /\ \A c \in Char \ {save.char}, s \in Slot : rows'[c][s] \in {rows[c][s], null}
    BY <1>1, <1>2, CommitFacts
  <1>4. /\ save.logout => online'[save.char] = "out" /\ ~loaded'[save.char]
        /\ \A c \in Char : c # save.char \/ ~save.logout =>
              /\ online'[c] = online[c]
              /\ mem'[c] = mem[c]
              /\ loaded'[c] = loaded[c]
    BY <1>1, <1>2, ReleaseFacts
  <1>5. ASSUME NEW s \in Slot
        PROVE  /\ ~InMemory(save.char, s) => save.slots[s] = null
               /\ save.logout => save.slots[s] = mem[save.char][s]
    <2>1. save.next \in 1 .. NInv + NBank + 1
      BY <1>2 DEF TypeOK
    <2>2. s < save.next
      BY <1>1, <2>1, SlotFacts
    <2> QED
      BY <1>1, <2>2 DEF Inv, ReadSoFar, Collected
  <1>6. ASSUME NEW c \in Char, NEW s \in Slot
        PROVE  Home'[c][s] \in {Home[c][s], null}
    <2>1. Home[c][s] = IF InMemory(c, s) THEN mem[c][s] ELSE rows[c][s]
      BY <1>2, HomeFacts
    <2>2. Home'[c][s] = IF InMemory(c, s)' THEN mem'[c][s] ELSE rows'[c][s]
      BY HomeFactsNext
    <2>3. CASE c = save.char /\ save.logout
      <3>1. ~InMemory(c, s)'
        BY <1>4, <2>3 DEF InMemory
      <3> QED
        BY <1>3, <1>5, <2>1, <2>2, <2>3, <3>1
    <2>4. CASE c = save.char /\ ~save.logout
      <3>1. InMemory(c, s)' <=> InMemory(c, s)
        BY <1>4, <2>4 DEF InMemory
      <3> QED
        BY <1>3, <1>4, <1>5, <2>1, <2>2, <2>4, <3>1
    <2>5. CASE c # save.char
      <3>1. InMemory(c, s)' <=> InMemory(c, s)
        BY <1>4, <2>5 DEF InMemory
      <3> QED
        BY <1>3, <1>4, <2>1, <2>2, <2>5, <3>1
    <2> QED
      BY <2>3, <2>4, <2>5
  <1>7. Home' \in [Char -> [Slot -> Item \cup {null}]]
    BY HomeFactsNext
  <1> QED
    BY <1>1, <1>6, <1>7 DEF HomeLost

\* A save that the database refuses leaves the user where it was: a torn read is not of
\* a user that leaves.
LEMMA Refused ==
    ASSUME Inv, FailSave, faults' = faults
    PROVE  /\ save' = Idle
           /\ UNCHANGED <<rows, item, stat, online, mem, memstat, loaded, copied>>
  <1>1. faults \in Nat /\ EndOfSave /\ UNCHANGED <<rows, item, stat>>
    BY StoreAssumption DEF FailSave, db, Inv, TypeOK
  <1>2. ~Resolved
    BY <1>1 DEF FailSave
  <1>3. ~save.logout
    BY <1>2 DEF Inv, Collected, Resolved
  <1> QED
    BY <1>1, <1>3 DEF EndOfSave, Release

LEMMA HomeRefused ==
    ASSUME Inv, FailSave, faults' = faults
    PROVE  Home' = Home /\ UNCHANGED <<copied, faults>>
  BY Refused DEF Home, Held, InMemory

\* A fault, a storage that is listed again, or a stack that is divided ends what is
\* promised.
LEMMA HomeDisturbed ==
    ASSUME Inv, TypeOK',
           \/ (FailSave /\ faults' # faults) \/ Crash
           \/ \E c \in Char : BankList(c) /\ loaded[c]
           \/ \E c, d \in Char, s, t \in Slot : Divide(c, s, d, t)
    PROVE  ~Undisturbed'
  <1>1. CASE (FailSave /\ faults' # faults) \/ Crash
    <2>1. faults \in Nat /\ faults' = faults + 1
      BY <1>1, StoreAssumption DEF FailSave, Crash, Inv, TypeOK
    <2> QED
      BY <2>1 DEF Undisturbed
  <1>2. CASE \E c \in Char : BankList(c) /\ loaded[c]
    BY <1>2 DEF BankList, Undisturbed
  <1>3. CASE \E c, d \in Char, s, t \in Slot : Divide(c, s, d, t)
    BY <1>3 DEF Divide, Undisturbed
  <1> QED
    BY <1>1, <1>2, <1>3

\* Every step is one of ItemHome's, or leaves the items where they are.
LEMMA StepHome ==
    ASSUME Inv, TypeOK', [Next]_vars
    PROVE  \/ ~Undisturbed'
           \/ /\ \/ Home' = Home
                 \/ HomeLost
                 \/ \E c, d \in Char, s, t \in Slot : HomeMoved(c, s, d, t)
              /\ UNCHANGED <<copied, faults>>
  <1>1. CASE UNCHANGED vars
    <2>1. UNCHANGED <<rows, online, mem, loaded, copied, faults>>
      BY <1>1 DEF vars
    <2> QED
      BY <2>1 DEF Home, Held, InMemory
  <1>2. ASSUME NEW c \in Char, BankListReq(c) \/ Backup(c) \/ Logout(c)
        PROVE  Home' = Home /\ UNCHANGED <<copied, faults>>
    BY <1>2, HomeKept
  <1>3. ASSUME NEW c \in Char, SelectChar(c)
        PROVE  Home' = Home /\ UNCHANGED <<copied, faults>>
    BY <1>3, HomeSelected
  <1>4. ASSUME NEW c \in Char, BankList(c), ~loaded[c]
        PROVE  Home' = Home /\ UNCHANGED <<copied, faults>>
    BY <1>4, HomeListed
  <1>5. ASSUME NEW c \in Char, BankList(c), loaded[c]
        PROVE  ~Undisturbed'
    BY <1>5, HomeDisturbed
  <1>6. ASSUME NEW c \in Char, NEW s \in Slot, NEW t \in Slot, MoveItem(c, s, t)
        PROVE  HomeMoved(c, s, c, t) /\ UNCHANGED <<copied, faults>>
    BY <1>6, HomeMoveItem
  <1>7. ASSUME NEW c \in Char, NEW d \in Char, NEW s \in InvSlot, NEW t \in InvSlot,
               Give(c, s, d, t)
        PROVE  /\ HomeMoved(c, s, d, t) /\ UNCHANGED <<copied, faults>>
               /\ s \in Slot /\ t \in Slot
    BY <1>7, HomeGive, SlotFacts
  <1>8. CASE BeginSave \/ ReadSlot \/ ReadTornSlot
    BY <1>8, HomeRead
  <1>9. CASE CommitSave
    BY <1>9, HomeCommitted
  <1>10. CASE FailSave \/ Crash
    BY <1>10, HomeDisturbed, HomeRefused
  <1>11. CASE \E c \in Char : \/ BankListReq(c) \/ Backup(c) \/ Logout(c)
                              \/ SelectChar(c) \/ BankList(c)
    BY <1>2, <1>3, <1>4, <1>5, <1>11
  <1>12. CASE \E c \in Char, s, t \in Slot : MoveItem(c, s, t)
    BY <1>6, <1>12
  <1>13. CASE \E c, d \in Char, s, t \in InvSlot : Give(c, s, d, t)
    BY <1>7, <1>13
  <1>14. CASE \E c, d \in Char, s, t \in Slot : Divide(c, s, d, t)
    BY <1>14, HomeDisturbed
  <1>15. CASE \E c \in Char, s \in InvSlot : UseUp(c, s)
    BY <1>15, HomeUseUp
  <1> QED
    BY <1>1, <1>8, <1>9, <1>10, <1>11, <1>12, <1>13, <1>14, <1>15, Steps

-----------------------------------------------------------------------------
(***************************************************************************)
(* No item is in two places.                                               *)
(***************************************************************************)
LEMMA NoDuplicateInit == Init => NoDuplicate
  <1> SUFFICES ASSUME Init PROVE Injective(Home)
    BY DEF NoDuplicate
  <1>1. TypeOK
    BY InvInit DEF Inv
  <1>2. \A c \in Char, s \in Slot : Home[c][s] = rows[c][s]
    BY <1>1, HomeFacts DEF Init, InMemory
  <1> QED
    BY <1>2 DEF Init, Injective

\* Where the items are after a move.
LEMMA MovedSlots ==
    ASSUME TypeOK, NEW c \in Char, NEW d \in Char, NEW s \in Slot, NEW t \in Slot,
           HomeMoved(c, s, d, t)
    PROVE  \A e \in Char, u \in Slot :
              Home'[e][u] = IF e = d /\ u = t THEN Home[c][s]
                            ELSE IF e = c /\ u = s THEN null
                            ELSE Home[e][u]
  <1>1. PICK S : S = Item \cup {null}
    OBVIOUS
  <1>2. Home \in [Char -> [Slot -> S]] /\ null \in S /\ Home[c][s] \in S
    BY <1>1, HomeFacts
  <1>3. PICK f, v : f = Home /\ v = Home[c][s]
    OBVIOUS
  <1>4. PICK m : m = [f EXCEPT ![c][s] = null]
    OBVIOUS
  <1>5. /\ m \in [Char -> [Slot -> S]]
        /\ \A e \in Char, u \in Slot :
              m[e][u] = IF e = c /\ u = s THEN null ELSE f[e][u]
    BY <1>2, <1>3, <1>4, SetSlot
  <1>6. PICK h : h = [m EXCEPT ![d][t] = v]
    OBVIOUS
  <1>7. v \in S
    BY <1>2, <1>3
  <1>8. /\ h \in [Char -> [Slot -> S]]
        /\ \A e \in Char, u \in Slot :
              h[e][u] = IF e = d /\ u = t THEN v ELSE m[e][u]
    BY <1>5, <1>6, <1>7, SetSlot
  <1>9. Home' = h
    BY <1>3, <1>4, <1>6 DEF HomeMoved
  <1> QED
    BY <1>3, <1>5, <1>8, <1>9

LEMMA NoDuplicateStep ==
    Inv /\ Inv' /\ NoDuplicate /\ [Next]_vars => NoDuplicate'
  <1> SUFFICES ASSUME Inv, Inv', NoDuplicate, [Next]_vars, Undisturbed'
               PROVE  Injective(Home')
    BY DEF NoDuplicate, Injective
  <1>1. /\ \/ Home' = Home
           \/ HomeLost
           \/ \E c, d \in Char, s, t \in Slot : HomeMoved(c, s, d, t)
        /\ UNCHANGED <<copied, faults>>
    BY StepHome DEF Inv
  <1>2. Injective(Home)
    BY <1>1 DEF NoDuplicate, Undisturbed
  <1>3. CASE Home' = Home
    BY <1>2, <1>3
  <1>4. CASE HomeLost
    BY <1>2, <1>4 DEF HomeLost, Injective
  <1>5. ASSUME NEW c \in Char, NEW d \in Char, NEW s \in Slot, NEW t \in Slot,
               HomeMoved(c, s, d, t)
        PROVE  Injective(Home')
    <2>1. \A e \in Char, u \in Slot :
             Home'[e][u] = IF e = d /\ u = t THEN Home[c][s]
                           ELSE IF e = c /\ u = s THEN null
                           ELSE Home[e][u]
      BY <1>5, MovedSlots DEF Inv
    <2> QED
      BY <1>2, <2>1 DEF Injective
  <1> QED
    BY <1>1, <1>3, <1>4, <1>5

\* No item is in two slots as long as no transaction fails for another reason than a
\* torn read, the server does not crash, no storage is listed twice and no stack is
\* divided.
THEOREM NoDuplicateSafety == Spec => []NoDuplicate
  BY NoDuplicateInit, NoDuplicateStep, Invariance, PTL DEF Spec

\* The server implements ItemHome.
THEOREM Refinement == Spec => ImplementsItemHome
  <1>1. Init => Abstract!Init
    <2> SUFFICES ASSUME Init PROVE Abstract!Init
      OBVIOUS
    <2>1. Home \in [Char -> [Slot -> Item \cup {null}]]
      BY InvInit, HomeFacts DEF Inv
    <2>2. Undisturbed
      BY DEF Init, Undisturbed
    <2>3. Injective(Home)
      BY <2>2, NoDuplicateInit DEF NoDuplicate
    <2> QED
      BY <2>1, <2>2, <2>3 DEF Abstract!Init, Abstract!Homes, Abstract!Injective, Injective
  <1>2. Inv /\ Inv' /\ [Next]_vars => [Abstract!Next]_(Abstract!vars)
    <2> SUFFICES ASSUME Inv, Inv', [Next]_vars
                 PROVE  [Abstract!Next]_(Abstract!vars)
      OBVIOUS
    <2>1. CASE ~Undisturbed'
      <3>1. Home' \in Abstract!Homes
        BY HomeFactsNext DEF Inv, Abstract!Homes
      <3> QED
        BY <2>1, <3>1 DEF Abstract!Next, Abstract!Disturb
    <2>2. CASE /\ \/ Home' = Home
                  \/ HomeLost
                  \/ \E c, d \in Char, s, t \in Slot : HomeMoved(c, s, d, t)
               /\ UNCHANGED <<copied, faults>>
      <3>1. Undisturbed' = Undisturbed
        BY <2>2 DEF Undisturbed
      <3>2. CASE Home' = Home
        BY <3>1, <3>2 DEF Abstract!vars
      <3>3. CASE HomeLost
        BY <3>1, <3>3 DEF HomeLost, Abstract!Next, Abstract!Lose, Abstract!Homes
      <3>4. CASE \E c, d \in Char, s, t \in Slot : HomeMoved(c, s, d, t)
        BY <3>1, <3>4 DEF HomeMoved, Abstract!Next, Abstract!Move
      <3> QED
        BY <2>2, <3>2, <3>3, <3>4
    <2> QED
      BY <2>1, <2>2, StepHome DEF Inv
  <1> QED
    BY <1>1, <1>2, Invariance, PTL DEF Spec, ImplementsItemHome, Abstract!Spec

-----------------------------------------------------------------------------
(***************************************************************************)
(* Items keep their options.                                               *)
(***************************************************************************)
Plain == Item \ (Appraised \cup Stackable)

\* OptionsKept is about the database.  What the next save will write there is in
\* memory, or has been read from it; a torn read may lose its option.
Kept ==
    /\ item \cap Plain \subseteq stat
    /\ \A c \in Char : ItemsIn(mem[c]) \cap Plain \subseteq memstat[c]
    /\ save.items \cap Plain \subseteq save.stat

KeptSoFar == Undisturbed /\ torn = 0 => Kept

LEMMA NothingIn == ItemsIn(NoItems) = {}
  BY DEF ItemsIn, NoItems

LEMMA KeptInit == Init => KeptSoFar
  <1> SUFFICES ASSUME Init PROVE Kept
    BY DEF KeptSoFar
  <1>1. item \cap Plain \subseteq stat
    <2>1. item \subseteq Item
      BY InvInit DEF Inv, TypeOK
    <2> QED
      BY <2>1 DEF Init, Plain
  <1>2. \A c \in Char : ItemsIn(mem[c]) = {}
    BY NothingIn DEF Init
  <1>3. save.items = {}
    BY IdleType DEF Init
  <1> QED
    BY <1>1, <1>2, <1>3 DEF Kept

\* The items that are in memory stay the same, and so do their options.
LEMMA KeptSame ==
    ASSUME Kept, UNCHANGED <<item, stat, mem, memstat>>,
           save' = save \/ save'.items = {}
    PROVE  Kept'
  <1>1. /\ (item \cap Plain \subseteq stat)'
        /\ (\A c \in Char : ItemsIn(mem[c]) \cap Plain \subseteq memstat[c])'
    BY DEF Kept, ItemsIn
  <1>2. (save.items \cap Plain \subseteq save.stat)'
    BY DEF Kept, Plain
  <1> QED
    BY <1>1, <1>2 DEF Kept

\* An item that is in memory has one place there.
LEMMA OnePlace ==
    ASSUME Inv, Injective(Home), NEW c \in Char, NEW d \in Char,
           NEW s \in Slot, NEW t \in Slot,
           mem[c][s] = mem[d][t], mem[c][s] # null
    PROVE  c = d /\ s = t
  <1>1. InMemory(c, s) /\ InMemory(d, t)
    BY DEF Inv, Absent
  <1>2. Home[c][s] = mem[c][s] /\ Home[d][t] = mem[d][t]
    BY <1>1, HomeFacts DEF Inv
  <1> QED
    BY <1>2 DEF Injective

\* An item that leaves a slot leaves memory or arrives in another; the others keep
\* the place where their option is.
LEMMA KeptMoveItem ==
    ASSUME Inv, Kept, NEW c \in Char, NEW s \in Slot, NEW t \in Slot, MoveItem(c, s, t)
    PROVE  Kept'
  <1>1. /\ mem' \in [Char -> [Slot -> Item \cup {null}]]
        /\ \A e \in Char, u \in Slot :
              mem'[e][u] = IF e = c /\ u = t THEN mem[c][s]
                           ELSE IF e = c /\ u = s THEN null
                           ELSE mem[e][u]
    <2>1. mem' = Moved(c, s, c, t) /\ TypeOK
      BY DEF MoveItem, Moved, Inv
    <2> QED
      BY <2>1, MoveMem
  <1>2. UNCHANGED <<item, stat, memstat, save>>
    BY DEF MoveItem, db
  <1>3. \A e \in Char : ItemsIn(mem'[e]) \subseteq ItemsIn(mem[e])
    BY <1>1 DEF ItemsIn
  <1>4. (\A e \in Char : ItemsIn(mem[e]) \cap Plain \subseteq memstat[e])'
    BY <1>2, <1>3 DEF Kept, ItemsIn, Plain
  <1> QED
    BY <1>2, <1>4 DEF Kept, ItemsIn

LEMMA KeptGive ==
    ASSUME Inv, Injective(Home), Kept, NEW c \in Char, NEW s \in InvSlot,
           NEW d \in Char, NEW t \in InvSlot, Give(c, s, d, t)
    PROVE  Kept'
  <1>1. s \in Slot /\ t \in Slot
    BY SlotFacts
  <1>2. \A e \in Char, u \in Slot :
           mem'[e][u] = IF e = d /\ u = t THEN mem[c][s]
                        ELSE IF e = c /\ u = s THEN null
                        ELSE mem[e][u]
    <2>1. mem' = Moved(c, s, d, t) /\ TypeOK
      BY DEF Give, Moved, Inv
    <2> QED
      BY <1>1, <2>1, MoveMem
  <1>3. /\ c # d /\ mem[c][s] # null
        /\ memstat'[c] = memstat[c] \ {mem[c][s]}
        /\ memstat'[d] = memstat[d] \cup (memstat[c] \cap {mem[c][s]})
        /\ \A e \in Char : e # c /\ e # d => memstat'[e] = memstat[e]
    BY DEF Give, Inv, TypeOK
  <1>4. UNCHANGED <<item, stat, save>>
    BY DEF Give, db
  <1>5. ASSUME NEW e \in Char, NEW i \in ItemsIn(mem'[e]) \cap Plain
        PROVE  i \in memstat'[e]
    <2>1. PICK u \in Slot : mem'[e][u] = i /\ i # null
      BY <1>5 DEF ItemsIn
    <2>2. \A f \in Char, v \in Slot : mem[f][v] = i => i \in memstat[f]
      BY <1>5, <2>1 DEF Kept, ItemsIn
    <2>3. CASE e = d /\ u = t
      BY <1>1, <1>2, <1>3, <2>1, <2>2, <2>3
    <2>4. CASE ~(e = d /\ u = t)
      <3>1. mem[e][u] = i /\ ~(e = c /\ u = s)
        BY <1>2, <2>1, <2>4
      <3>2. i \in memstat[e]
        BY <2>2, <3>1
      <3>3. i # mem[c][s]
        BY <1>1, <1>3, <3>1, OnePlace
      <3> QED
        BY <1>3, <3>2, <3>3
    <2> QED
      BY <2>3, <2>4
  <1>6. (\A e \in Char : ItemsIn(mem[e]) \cap Plain \subseteq memstat[e])'
    BY <1>5 DEF ItemsIn, Plain
  <1> QED
    BY <1>4, <1>6 DEF Kept, ItemsIn

LEMMA KeptUseUp ==
    ASSUME Inv, Injective(Home), Kept, NEW c \in Char, NEW s \in InvSlot, UseUp(c, s)
    PROVE  Kept'
  <1>1. s \in Slot
    BY SlotFacts
  <1>2. \A e \in Char, u \in Slot :
           mem'[e][u] = IF e = c /\ u = s THEN null ELSE mem[e][u]
    <2>1. TypeOK /\ mem' = [mem EXCEPT ![c][s] = null]
      BY DEF UseUp, Inv
    <2> QED
      BY <1>1, <2>1, Emptied
  <1>3. /\ mem[c][s] # null
        /\ memstat'[c] = memstat[c] \ {mem[c][s]}
        /\ \A e \in Char : e # c => memstat'[e] = memstat[e]
    BY DEF UseUp, Inv, TypeOK
  <1>4. UNCHANGED <<item, stat, save>>
    BY DEF UseUp, db
  <1>5. ASSUME NEW e \in Char, NEW i \in ItemsIn(mem'[e]) \cap Plain
        PROVE  i \in memstat'[e]
    <2>1. PICK u \in Slot : mem'[e][u] = i /\ i # null
      BY <1>5 DEF ItemsIn
    <2>2. mem[e][u] = i /\ ~(e = c /\ u = s)
      BY <1>2, <2>1
    <2>3. i \in memstat[e]
      BY <1>5, <2>1, <2>2 DEF Kept, ItemsIn
    <2>4. i # mem[c][s]
      BY <1>1, <1>3, <2>2, OnePlace
    <2> QED
      BY <1>3, <2>3, <2>4
  <1>6. (\A e \in Char : ItemsIn(mem[e]) \cap Plain \subseteq memstat[e])'
    BY <1>5 DEF ItemsIn, Plain
  <1> QED
    BY <1>4, <1>6 DEF Kept, ItemsIn

\* What a load finds has its option in the database.
LEMMA KeptSelectChar ==
    ASSUME Inv, Kept, NEW c \in Char, SelectChar(c)
    PROVE  Kept'
  <1>1. /\ mem'[c] = Loaded(c, InvSlot)
        /\ memstat'[c] = OptionsLoaded(ItemsIn(Loaded(c, InvSlot)))
        /\ \A e \in Char : e # c => mem'[e] = mem[e] /\ memstat'[e] = memstat[e]
    BY DEF SelectChar, Inv, TypeOK
  <1>2. UNCHANGED <<item, stat, save>>
    BY DEF SelectChar, db
  <1>3. ItemsIn(Loaded(c, InvSlot)) \subseteq item
    BY DEF Inv, RowsRefer, ItemsIn, Loaded
  <1>4. ItemsIn(mem'[c]) \cap Plain \subseteq memstat'[c]
    BY <1>1, <1>3 DEF Kept, OptionsLoaded, Plain
  <1>5. ASSUME NEW e \in Char PROVE ItemsIn(mem'[e]) \cap Plain \subseteq memstat'[e]
    BY <1>1, <1>4 DEF Kept
  <1>6. (\A e \in Char : ItemsIn(mem[e]) \cap Plain \subseteq memstat[e])'
    BY <1>5 DEF ItemsIn, Plain
  <1> QED
    BY <1>2, <1>6 DEF Kept, ItemsIn

LEMMA KeptBankList ==
    ASSUME Inv, Kept, NEW c \in Char, BankList(c)
    PROVE  Kept'
  <1> DEFINE found == ItemsIn(Loaded(c, BankSlot))
  <1>1. /\ mem'[c] = [s \in Slot |-> IF Loaded(c, BankSlot)[s] # null
                                     THEN Loaded(c, BankSlot)[s] ELSE mem[c][s]]
        /\ memstat'[c] = (memstat[c] \ found) \cup (found \cap stat)
        /\ \A e \in Char : e # c => mem'[e] = mem[e] /\ memstat'[e] = memstat[e]
    BY DEF BankList, Inv, TypeOK
  <1>2. UNCHANGED <<item, stat, save>>
    BY DEF BankList, db
  <1>3. found \subseteq item
    BY DEF Inv, RowsRefer, ItemsIn, Loaded
  <1>4. ItemsIn(mem'[c]) \subseteq found \cup ItemsIn(mem[c])
    BY <1>1 DEF ItemsIn
  <1>5. ItemsIn(mem'[c]) \cap Plain \subseteq memstat'[c]
    BY <1>1, <1>3, <1>4 DEF Kept
  <1>6. ASSUME NEW e \in Char PROVE ItemsIn(mem'[e]) \cap Plain \subseteq memstat'[e]
    BY <1>1, <1>5 DEF Kept
  <1>7. (\A e \in Char : ItemsIn(mem[e]) \cap Plain \subseteq memstat[e])'
    BY <1>6 DEF ItemsIn, Plain
  <1> QED
    BY <1>2, <1>7 DEF Kept, ItemsIn

\* Of a slot that nobody changes a save reads the option with the item.
LEMMA KeptReadSlot ==
    ASSUME Inv, Kept, ReadSlot
    PROVE  Kept'
  <1>1. PICK found : found = {mem[save.char][save.next]} \ {null}
    OBVIOUS
  <1>2. /\ save.char \in Char /\ save.next \in Slot
        /\ save'.items = save.items \cup found
        /\ save'.stat = (save.stat \ found) \cup (memstat[save.char] \cap found)
        /\ UNCHANGED <<item, stat, mem, memstat>>
    BY <1>1 DEF ReadSlot, Inv, TypeOK, db
  <1>3. found \cap Plain \subseteq memstat[save.char]
    <2>1. found \subseteq ItemsIn(mem[save.char])
      BY <1>1, <1>2 DEF ItemsIn
    <2> QED
      BY <1>2, <2>1 DEF Kept
  <1>4. save'.items \cap Plain \subseteq save'.stat
    BY <1>2, <1>3 DEF Kept
  <1>5. (item \cap Plain \subseteq stat)' /\ (save.items \cap Plain \subseteq save.stat)'
    BY <1>2, <1>4 DEF Kept, Plain
  <1>6. (\A c \in Char : ItemsIn(mem[c]) \cap Plain \subseteq memstat[c])'
    BY <1>2 DEF Kept, ItemsIn, Plain
  <1> QED
    BY <1>5, <1>6 DEF Kept

\* ... and writes both.
LEMMA KeptCommitSave ==
    ASSUME Inv, Kept, CommitSave
    PROVE  Kept'
  <1>1. /\ save.char \in Char /\ save' = Idle
        /\ item' = (item \ Deleted) \cup save.items
        /\ stat' = (stat \ (Deleted \cup save.items)) \cup save.stat
        /\ Release
    BY DEF CommitSave, EndOfSave, StatRows, Inv, TypeOK
  <1>2. save.items \cap Plain \subseteq save.stat /\ item \cap Plain \subseteq stat
    BY DEF Kept
  <1>3. item' \cap Plain \subseteq stat'
    BY <1>1, <1>2
  <1>4. save'.items = {}
    BY <1>1, IdleType
  <1>5. ASSUME NEW c \in Char PROVE ItemsIn(mem'[c]) \cap Plain \subseteq memstat'[c]
    <2>1. CASE c = save.char /\ save.logout
      <3>1. mem'[c] = NoItems
        BY <1>1, <2>1 DEF Release, Inv, TypeOK
      <3> QED
        BY <3>1, NothingIn
    <2>2. CASE ~(c = save.char /\ save.logout)
      <3>1. mem'[c] = mem[c] /\ memstat'[c] = memstat[c]
        BY <1>1, <2>2 DEF Release, Inv, TypeOK
      <3> QED
        BY <3>1 DEF Kept
    <2> QED
      BY <2>1, <2>2
  <1>6. (\A c \in Char : ItemsIn(mem[c]) \cap Plain \subseteq memstat[c])'
    BY <1>5 DEF ItemsIn, Plain
  <1>7. (item \cap Plain \subseteq stat)' /\ (save.items \cap Plain \subseteq save.stat)'
    BY <1>3, <1>4 DEF Plain
  <1> QED
    BY <1>6, <1>7 DEF Kept

LEMMA KeptStep ==
    ASSUME Inv, Inv', NoDuplicate, KeptSoFar, [Next]_vars
    PROVE  KeptSoFar'
  <1> SUFFICES ASSUME Undisturbed', torn' = 0 PROVE Kept'
    BY DEF KeptSoFar
  <1>1. CASE ReadTornSlot
    <2>1. torn \in Nat /\ torn' = torn + 1
      BY <1>1, StoreAssumption DEF ReadTornSlot, Inv, TypeOK
    <2> QED
      BY <2>1
  <1>2. CASE ~ReadTornSlot
    <2>1. torn = 0
      <3>1. UNCHANGED torn
        BY <1>2, Steps DEF BankListReq, Backup, Logout, SelectChar, BankList, MoveItem,
              Give, Divide, UseUp, BeginSave, ReadSlot, CommitSave, FailSave, EndOfSave,
              Crash, vars
      <3> QED
        BY <3>1
    <2>2. Undisturbed
      BY StepHome DEF Inv, Undisturbed
    <2>3. Kept /\ Injective(Home)
      BY <2>1, <2>2 DEF KeptSoFar, NoDuplicate
    <2>4. CASE UNCHANGED vars
      BY <2>3, <2>4, KeptSame DEF vars
    <2>5. ASSUME NEW c \in Char, BankListReq(c) \/ Backup(c) \/ Logout(c)
          PROVE  Kept'
      <3>1. UNCHANGED <<item, stat, mem, memstat, save>>
        BY <2>5 DEF BankListReq, Backup, Logout, db
      <3> QED
        BY <2>3, <3>1, KeptSame
    <2>6. CASE BeginSave
      <3>1. UNCHANGED <<item, stat, mem, memstat>> /\ save'.items = {}
        BY <2>6, IdleType DEF BeginSave, Idle, db
      <3> QED
        BY <2>3, <3>1, KeptSame
    <2>7. CASE ReadSlot \/ CommitSave
      BY <2>3, <2>7, KeptReadSlot, KeptCommitSave
    <2>8. ASSUME NEW c \in Char, SelectChar(c) \/ BankList(c) PROVE Kept'
      BY <2>3, <2>8, KeptSelectChar, KeptBankList
    <2>9. CASE \E c \in Char, s, t \in Slot : MoveItem(c, s, t)
      BY <2>3, <2>9, KeptMoveItem
    <2>10. CASE \E c, d \in Char, s, t \in InvSlot : Give(c, s, d, t)
      BY <2>3, <2>10, KeptGive
    <2>11. CASE \E c \in Char, s \in InvSlot : UseUp(c, s)
      BY <2>3, <2>11, KeptUseUp
    <2>12. CASE FailSave
      <3>1. faults' = faults
        BY <2>12, HomeDisturbed DEF Inv
      <3>2. save' = Idle /\ UNCHANGED <<item, stat, mem, memstat>>
        BY <2>12, <3>1, Refused
      <3> QED
        BY <2>3, <3>2, IdleType, KeptSame
    <2>13. CASE Crash \/ \E c, d \in Char, s, t \in Slot : Divide(c, s, d, t)
      BY <2>13, HomeDisturbed DEF Inv
    <2> QED
      BY <1>2, <2>4, <2>5, <2>6, <2>7, <2>8, <2>9, <2>10, <2>11, <2>12, <2>13, Steps
  <1> QED
    BY <1>1, <1>2

\* While undisturbed, and as long as no slot was changed while a save was reading it,
\* an item that has not been appraised has its option in the database, whoever loaded,
\* traded and saved it.
THEOREM OptionsSafety == Spec => []OptionsKept
  <1>1. Inv => (KeptSoFar => OptionsKept)
    BY DEF Inv, TypeOK, KeptSoFar, Kept, Plain, OptionsKept
  <1> QED
    BY <1>1, KeptInit, KeptStep, Invariance, NoDuplicateSafety, PTL DEF Spec

-----------------------------------------------------------------------------
(***************************************************************************)
(* How items are lost.                                                     *)
(***************************************************************************)
\* The ways in which an item is lost, as LostOnlyBy names them.
Used(i) == \E c \in Char, s \in InvSlot : mem[c][s] = i /\ UseUp(c, s)

Erased(i) ==
    /\ save.char # null /\ save' = Idle
    /\ \E c \in Char, s \in Slot :
           /\ rows[c][s] = i /\ ~InMemory(c, s)
           /\ \/ c # save.char /\ i \in ItemsIn(rows[save.char]) \ save.valid
              \/ c = save.char /\ ~loaded[c]

LEMMA OwnedNow ==
    ASSUME NEW i \in Item
    PROVE  Owned(i) <=> \E c \in Char, s \in Slot : Home[c][s] = i
  BY DEF Owned, Home

LEMMA OwnedNext ==
    ASSUME NEW i \in Item
    PROVE  Owned(i)' <=> \E c \in Char, s \in Slot : Home'[c][s] = i
  BY DEF Owned, Home, Held, InMemory

LEMMA LostByUse ==
    ASSUME Inv, Inv', NEW i \in Item, Owned(i), ~Owned(i)',
           NEW c \in Char, NEW s \in InvSlot, UseUp(c, s)
    PROVE  Used(i)
  <1>1. PICK d \in Char, t \in Slot : Home[d][t] = i
    BY OwnedNow
  <1>2. Home'[d][t] # i
    BY OwnedNext
  <1>3. /\ UNCHANGED <<rows, online, loaded>>
        /\ \A e \in Char, u \in Slot :
              mem'[e][u] = IF e = c /\ u = s THEN null ELSE mem[e][u]
    <2>1. TypeOK /\ s \in Slot /\ mem' = [mem EXCEPT ![c][s] = null]
      BY SlotFacts DEF UseUp, Inv
    <2>2. UNCHANGED <<rows, online, loaded>>
      BY DEF UseUp, db
    <2> QED
      BY <2>1, <2>2, Emptied
  <1>4. InMemory(d, t)' <=> InMemory(d, t)
    BY <1>3 DEF InMemory
  <1>5. /\ Home[d][t] = IF InMemory(d, t) THEN mem[d][t] ELSE rows[d][t]
        /\ Home'[d][t] = IF InMemory(d, t)' THEN mem'[d][t] ELSE rows'[d][t]
    BY HomeFacts, HomeFactsNext DEF Inv
  <1>6. d = c /\ t = s /\ mem[c][s] = i
    BY <1>1, <1>2, <1>3, <1>4, <1>5
  <1> QED
    BY <1>6 DEF Used

LEMMA LostByMove ==
    ASSUME Inv, NEW i \in Item, Owned(i), NEW c \in Char, NEW d \in Char,
           NEW s \in Slot, NEW t \in Slot, HomeMoved(c, s, d, t)
    PROVE  Owned(i)'
  <1>1. PICK e \in Char, u \in Slot : Home[e][u] = i
    BY OwnedNow
  <1>2. /\ Home[d][t] = null
        /\ \A f \in Char, v \in Slot :
              Home'[f][v] = IF f = d /\ v = t THEN Home[c][s]
                            ELSE IF f = c /\ v = s THEN null
                            ELSE Home[f][v]
    <2>1. Home[d][t] = null
      BY DEF HomeMoved
    <2> QED
      BY <2>1, MovedSlots DEF Inv
  <1>3. i # null
    BY StoreAssumption
  <1>4. ~(e = d /\ u = t)
    BY <1>1, <1>2, <1>3
  <1>5. \E f \in Char, v \in Slot : Home'[f][v] = i
    <2>1. CASE e = c /\ u = s
      BY <1>1, <1>2, <2>1
    <2>2. CASE ~(e = c /\ u = s)
      BY <1>1, <1>2, <1>4, <2>2
    <2> QED
      BY <2>1, <2>2
  <1> QED
    BY <1>5, OwnedNext

\* A save loses what is in no memory: what is in the storage of its owner, who has not
\* opened it, or what its rows name although another one's name it too.
LEMMA LostBySave ==
    ASSUME Inv, Inv', NEW i \in Item, Owned(i), ~Owned(i)', CommitSave
    PROVE  Erased(i)
  <1>1. PICK c \in Char, s \in Slot : Home[c][s] = i
    BY OwnedNow
  <1>2. \A d \in Char, t \in Slot : Home'[d][t] # i
    BY OwnedNext
  <1>3. /\ rows' = [Cascaded(Deleted) EXCEPT ![save.char] = save.slots]
        /\ item' = (item \ Deleted) \cup save.items
        /\ stat' = StatRows
        /\ save.char \in Char /\ save.char # null /\ save.next \notin Slot /\ Resolved
        /\ save' = Idle
        /\ Release
    BY DEF CommitSave, EndOfSave, Inv, TypeOK
  <1>4. TypeOK /\ RowsRefer /\ Collected /\ i # null
    BY StoreAssumption DEF Inv
  <1>5. /\ rows'[save.char] = save.slots
        /\ Deleted \subseteq ItemsIn(rows[save.char]) \ save.valid
        /\ \A d \in Char \ {save.char}, t \in Slot :
              rows'[d][t] = IF rows[d][t] \in Deleted THEN null ELSE rows[d][t]
    BY <1>3, <1>4, CommitFacts
  <1>6. /\ save.logout => online'[save.char] = "out" /\ ~loaded'[save.char]
        /\ \A d \in Char : d # save.char \/ ~save.logout =>
              /\ online'[d] = online[d]
              /\ mem'[d] = mem[d]
              /\ loaded'[d] = loaded[d]
    BY <1>3, <1>4, ReleaseFacts
  <1>7. \A t \in Slot : /\ ~InMemory(save.char, t) => save.slots[t] = null
                        /\ save.logout => save.slots[t] = mem[save.char][t]
    <2>1. \A t \in Slot : t < save.next
      BY <1>3, <1>4, SlotFacts DEF TypeOK
    <2> QED
      BY <1>3, <2>1 DEF Inv, ReadSoFar, Collected
  <1>8. /\ Home[c][s] = IF InMemory(c, s) THEN mem[c][s] ELSE rows[c][s]
        /\ Home'[c][s] = IF InMemory(c, s)' THEN mem'[c][s] ELSE rows'[c][s]
    BY <1>4, HomeFacts, HomeFactsNext DEF Inv
  <1>9. ~InMemory(c, s)
    <2>1. SUFFICES ASSUME InMemory(c, s) PROVE FALSE
      OBVIOUS
    <2>2. CASE c = save.char /\ save.logout
      <3>1. ~InMemory(c, s)'
        BY <1>6, <2>2 DEF InMemory
      <3> QED
        BY <1>1, <1>2, <1>5, <1>7, <1>8, <2>1, <2>2, <3>1
    <2>3. CASE ~(c = save.char /\ save.logout)
      <3>1. InMemory(c, s)' /\ mem'[c] = mem[c]
        BY <1>6, <2>1, <2>3 DEF InMemory
      <3> QED
        BY <1>1, <1>2, <1>8, <2>1, <3>1
    <2> QED
      BY <2>2, <2>3
  <1>10. rows[c][s] = i
    BY <1>1, <1>8, <1>9
  <1>11. c # save.char => i \in ItemsIn(rows[save.char]) \ save.valid
    <2> SUFFICES ASSUME c # save.char
                 PROVE  i \in ItemsIn(rows[save.char]) \ save.valid
      OBVIOUS
    <2>1. ~InMemory(c, s)'
      BY <1>6, <1>9 DEF InMemory
    <2>2. rows'[c][s] # i
      BY <1>2, <1>8, <2>1
    <2> QED
      BY <1>5, <1>10, <2>2
  <1>12. c = save.char => ~loaded[c]
    <2>1. online[save.char] # "out"
      BY <1>3 DEF Inv, Saving
    <2> QED
      BY <1>9, <2>1 DEF InMemory
  <1> QED
    BY <1>3, <1>9, <1>10, <1>11, <1>12 DEF Erased

\* While undisturbed, an item is lost in three ways only: it is used up; a save deletes
\* what its owner's rows still name, when the one who has it has been saved and has
\* left; and a save deletes what is in a storage that was never opened.
THEOREM LossSafety == Spec => LostOnlyBy
  <1> DEFINE P == \A i \in Item :
                     Undisturbed /\ Owned(i) /\ Undisturbed' /\ ~Owned(i)' =>
                         Used(i) \/ Erased(i)
  <1>1. Inv /\ Inv' /\ [Next]_vars => [P]_vars
    <2> SUFFICES ASSUME Inv, Inv', Next,
                        NEW i \in Item, Undisturbed, Owned(i), Undisturbed', ~Owned(i)'
                 PROVE  Used(i) \/ Erased(i)
      OBVIOUS
    <2>1. Home' # Home
      BY OwnedNow, OwnedNext
    <2>2. ~\E c, d \in Char, s, t \in Slot : HomeMoved(c, s, d, t)
      BY LostByMove
    <2>3. CASE \E c \in Char, s \in InvSlot : UseUp(c, s)
      BY <2>3, LostByUse
    <2>4. CASE CommitSave
      BY <2>4, LostBySave
    <2>5. ASSUME NEW c \in Char,
                 BankListReq(c) \/ Backup(c) \/ Logout(c) \/ SelectChar(c) \/ BankList(c)
          PROVE  FALSE
      BY <2>1, <2>5, HomeKept, HomeSelected, HomeListed, HomeDisturbed DEF Inv
    <2>6. CASE \/ \E c \in Char, s, t \in Slot : MoveItem(c, s, t)
               \/ \E c, d \in Char, s, t \in InvSlot : Give(c, s, d, t)
      BY <2>2, <2>6, HomeMoveItem, HomeGive, SlotFacts DEF Inv
    <2>7. CASE BeginSave \/ ReadSlot \/ ReadTornSlot
      BY <2>1, <2>7, HomeRead DEF Inv
    <2>8. CASE FailSave \/ Crash \/ \E c, d \in Char, s, t \in Slot : Divide(c, s, d, t)
      BY <2>1, <2>8, HomeDisturbed, HomeRefused DEF Inv
    <2> QED
      BY <2>3, <2>4, <2>5, <2>6, <2>7, <2>8, Steps
  <1>2. [P]_vars => [\A i \in Item :
             Undisturbed /\ Owned(i) /\ Undisturbed' /\ ~Owned(i)' =>
                 \/ \E c \in Char, s \in InvSlot : mem[c][s] = i /\ UseUp(c, s)
                 \/ /\ save.char # null /\ save' = Idle
                    /\ \E c \in Char, s \in Slot :
                           /\ rows[c][s] = i /\ ~InMemory(c, s)
                           /\ \/ c # save.char
                                 /\ i \in ItemsIn(rows[save.char]) \ save.valid
                              \/ c = save.char /\ ~loaded[c]]_vars
    BY DEF Used, Erased
  <1> QED
    BY <1>1, <1>2, Invariance, PTL DEF Spec, LostOnlyBy
=============================================================================
