--------------------------- MODULE CharacterStore ---------------------------
(***************************************************************************)
(* How a channel server keeps its characters' items in the database.       *)
(*                                                                         *)
(* A zone's thread moves items about in the memory of the users; the SQL   *)
(* thread loads a character, loads its storage when it is first listed,    *)
(* and saves it: every five minutes, and when it leaves.  A save reads the *)
(* user's slots one by one while the zone's thread may change them, even   *)
(* the one it is reading; it sends one batch of statements in a            *)
(* transaction, and gives a leaving user back.  Items are rows of their    *)
(* own, which the rows of inventories and storages refer to with ON DELETE *)
(* CASCADE; a save deletes the items that its owner's rows name and that   *)
(* it has not found in a slot.                                             *)
(*                                                                         *)
(* A part of a stack that is moved or traded keeps the uuid of the stack,  *)
(* so that both parts are one item in the database.                        *)
(*                                                                         *)
(* Left out: money, quantities, what kind of item a uuid stands for, items *)
(* that are made, and items on the ground.  The thread takes packets and   *)
(* users in turns; the model leaves the order between the two lists, and   *)
(* that of the packets of different characters, open.  A character waits   *)
(* for its selection outside the game, so the packet that asks for it is   *)
(* not kept.                                                               *)
(***************************************************************************)
EXTENDS Naturals, Sequences

CONSTANTS
    Char,           \* characters
    Item,           \* items, each with a uuid of its own
    Appraised,      \* the items that have been appraised
    Stackable,      \* the items of which a slot holds a quantity; they have no option
    null,           \* an empty slot, or no character
    NInv, NBank,    \* slots of an inventory and of a storage
    MaxRequests,    \* bound: storage requests of a character under way
    Limits          \* bounds: how many items change hands or stacks are divided, how
                    \* many transactions fail or servers crash, and how many slots are
                    \* changed while a save reads them

ASSUME StoreAssumption ==
    /\ null \notin Item \cup Char
    /\ Stackable \subseteq Item
    /\ Appraised \subseteq Item \ Stackable
    /\ NInv \in Nat \ {0} /\ NBank \in Nat \ {0}
    /\ MaxRequests \in Nat
    /\ Limits \subseteq [gifts : Nat, faults : Nat, torn : Nat]

InvSlot == 1 .. NInv
BankSlot == NInv + 1 .. NInv + NBank
Slot == 1 .. NInv + NBank
NoItems == [s \in Slot |-> null]

VARIABLES
    \* the database
    rows,       \* rows[c][s]: item_id of the row of owner c and slot s
    item,       \* the rows of table item
    stat,       \* those of them with a stat_id
    \* the channel server
    online,     \* "out", "in", or "leaving" (DeleteUSER has handed it over)
    mem,        \* mem[c][s]: m_Inventory and m_Bank
    memstat,    \* memstat[c]: the items in mem[c] with their m_nGEM_OP
    loaded,     \* m_btBankData is not BANK_UNLOADED
    requests,   \* requests to list a character's storage, queued for the thread
    users,      \* users to save: [char, logout]
    save,       \* the save that is being made
    \* history and bounds
    copied,     \* a storage was loaded a second time, or a stack was divided
    gifts,
    faults,
    torn        \* slots that were changed while they were read

db == <<rows, item, stat>>
vars == <<rows, item, stat, online, mem, memstat, loaded, requests, users, save,
          copied, gifts, faults, torn>>

\* What a save has collected: the uuids it has found (valid_items), the items it has
\* written a statement for, those of them that get their option, the uuids whose row
\* is sought in the table because no such statement goes before, and the rows.
Idle == [char |-> null, logout |-> FALSE, next |-> 1, valid |-> {}, items |-> {},
         stat |-> {}, sought |-> {}, slots |-> NoItems]

ItemsIn(slots) == {slots[s] : s \in Slot} \ {null}

\* An item is in at most one of the places.
Injective(places) ==
    \A c, d \in Char : \A s, t \in Slot :
        places[c][s] = places[d][t] /\ places[c][s] # null => c = d /\ s = t

Init ==
    /\ rows \in {r \in [Char -> [Slot -> Item \cup {null}]] : Injective(r)}
    /\ item = UNION {ItemsIn(rows[c]) : c \in Char}
    /\ stat = item \ Stackable
    /\ online = [c \in Char |-> "out"]
    /\ mem = [c \in Char |-> NoItems]
    /\ memstat = [c \in Char |-> {}]
    /\ loaded = [c \in Char |-> FALSE]
    /\ requests = [c \in Char |-> 0]
    /\ users = <<>>
    /\ save = Idle
    /\ copied = FALSE
    /\ gifts = 0
    /\ faults = 0
    /\ torn = 0

\* Bound: one of the combinations allows that many.
Within(g, f, t) ==
    \E most \in Limits : g <= most.gifts /\ f <= most.faults /\ t <= most.torn

-----------------------------------------------------------------------------
(***************************************************************************)
(* Users, handled by the threads of their zones and by socket threads.     *)
(***************************************************************************)
\* A storage is loaded on the first request to open it.  A second request that
\* comes before the first is answered is passed on as well.
BankListReq(c) ==
    /\ online[c] = "in"
    /\ ~loaded[c]
    /\ requests[c] < MaxRequests
    /\ requests' = [requests EXCEPT ![c] = @ + 1]
    /\ UNCHANGED <<db, online, mem, memstat, loaded, users, save, copied, gifts,
                   faults, torn>>

\* To the storage and back, once it is loaded; and, as equipping does, from slot
\* to slot of the inventory.
MoveItem(c, s, t) ==
    /\ online[c] = "in"
    /\ mem[c][s] # null /\ mem[c][t] = null
    /\ s \in InvSlot \/ t \in InvSlot
    /\ loaded[c] \/ {s, t} \subseteq InvSlot
    /\ mem' = [mem EXCEPT ![c][s] = null, ![c][t] = mem[c][s]]
    /\ UNCHANGED <<db, online, memstat, loaded, requests, users, save, copied, gifts,
                   faults, torn>>

\* A trade hands an item to another user's inventory.
Give(c, s, d, t) ==
    /\ Within(gifts + 1, faults, torn)
    /\ c # d /\ online[c] = "in" /\ online[d] = "in"
    /\ mem[c][s] # null /\ mem[d][t] = null
    /\ mem' = [mem EXCEPT ![c][s] = null, ![d][t] = mem[c][s]]
    /\ memstat' = [memstat EXCEPT ![c] = @ \ {mem[c][s]},
                                  ![d] = @ \cup (memstat[c] \cap {mem[c][s]})]
    /\ gifts' = gifts + 1
    /\ UNCHANGED <<db, online, loaded, requests, users, save, copied, faults,
                   torn>>

\* A part of a stack is stored, taken out of the storage, or traded: the rest stays
\* where it is, and both have the stack's uuid.
Divide(c, s, d, t) ==
    /\ Within(gifts + 1, faults, torn)
    /\ online[c] = "in" /\ online[d] = "in"
    /\ mem[c][s] \in Stackable /\ mem[d][t] = null
    /\ \/ c # d /\ {s, t} \subseteq InvSlot
       \/ c = d /\ loaded[c] /\ (s \in InvSlot <=> t \in BankSlot)
    /\ mem' = [mem EXCEPT ![d][t] = mem[c][s]]
    /\ copied' = TRUE
    /\ gifts' = gifts + 1
    /\ UNCHANGED <<db, online, memstat, loaded, requests, users, save, faults,
                   torn>>

\* What an inventory holds is used up, sold or thrown away.
UseUp(c, s) ==
    /\ online[c] = "in"
    /\ mem[c][s] # null
    /\ mem' = [mem EXCEPT ![c][s] = null]
    /\ memstat' = [memstat EXCEPT ![c] = @ \ {mem[c][s]}]
    /\ UNCHANGED <<db, online, loaded, requests, users, save, copied, gifts, faults, torn>>

Waiting(c) == \E i \in DOMAIN users : users[i].char = c

\* The periodic backup; five minutes are long enough for the one before.
Backup(c) ==
    /\ online[c] = "in"
    /\ ~Waiting(c) /\ save.char # c
    /\ users' = Append(users, [char |-> c, logout |-> FALSE])
    /\ UNCHANGED <<db, online, mem, memstat, loaded, requests, save, copied, gifts,
                   faults, torn>>

\* DeleteUSER takes the user out of every list before it is handed over: the SQL
\* thread finds no user for a request that is still queued.
Logout(c) ==
    /\ online[c] = "in"
    /\ requests' = [requests EXCEPT ![c] = 0]
    /\ online' = [online EXCEPT ![c] = "leaving"]
    /\ users' = Append(users, [char |-> c, logout |-> TRUE])
    /\ UNCHANGED <<db, mem, memstat, loaded, save, copied, gifts, faults, torn>>

-----------------------------------------------------------------------------
(***************************************************************************)
(* The SQL thread: packets.                                                *)
(***************************************************************************)
\* What the SELECT ... INNER JOIN item of some slots finds.
Loaded(c, S) == [s \in Slot |-> IF s \in S THEN rows[c][s] ELSE null]

\* Mutant of OptionsLoaded: the option of an item that is not appraised is cleared.
OptionsLoadedUnseen(items) == (items \cap stat) \cap Appraised

\* The m_nGEM_OP of an appraised item is cleared in memory.
OptionsLoaded(items) == (items \cap stat) \ Appraised

\* Mutant of MaySelect: a character that is still to be saved may be selected.
MaySelectEarly(c) == online[c] \in {"out", "leaving"}

\* A character is played by one user at a time; that this holds until its last
\* save is made is what AccountSession!OneHolder says.
MaySelect(c) == online[c] = "out"

\* Proc_cli_SELECT_CHAR: the inventory is loaded, the storage is not.
SelectChar(c) ==
    /\ save = Idle
    /\ MaySelect(c)
    /\ online' = [online EXCEPT ![c] = "in"]
    /\ mem' = [mem EXCEPT ![c] = Loaded(c, InvSlot)]
    /\ memstat' = [memstat EXCEPT ![c] = OptionsLoaded(ItemsIn(Loaded(c, InvSlot)))]
    /\ loaded' = [loaded EXCEPT ![c] = FALSE]
    /\ UNCHANGED <<db, requests, users, save, copied, gifts, faults, torn>>

\* Proc_cli_BANK_LIST_REQ: only the slots that have a row are written.
BankList(c) ==
    /\ save = Idle
    /\ requests[c] > 0
    /\ requests' = [requests EXCEPT ![c] = @ - 1]
    /\ LET found == ItemsIn(Loaded(c, BankSlot))
       IN  /\ mem' = [mem EXCEPT ![c] = [s \in Slot |->
                         IF Loaded(c, BankSlot)[s] # null
                         THEN Loaded(c, BankSlot)[s] ELSE mem[c][s]]]
           /\ memstat' = [memstat EXCEPT ![c] = (@ \ found) \cup (found \cap stat)]
    /\ loaded' = [loaded EXCEPT ![c] = TRUE]
    /\ copied' = (copied \/ loaded[c])
    /\ UNCHANGED <<db, online, users, save, gifts, faults, torn>>

-----------------------------------------------------------------------------
(***************************************************************************)
(* The SQL thread: UpdateUserRECORD, one slot read at a time.              *)
(***************************************************************************)
BeginSave ==
    /\ save = Idle
    /\ users # <<>>
    /\ save' = [Idle EXCEPT !.char = Head(users).char, !.logout = Head(users).logout]
    /\ users' = Tail(users)
    /\ UNCHANGED <<db, online, mem, memstat, loaded, requests, copied, gifts, faults, torn>>

\* Of a slot that nobody changes meanwhile, one item is read: its uuid for the list
\* of those that are valid, its option, and its uuid for the two statements.
ReadSlot ==
    /\ save.char # null
    /\ save.next \in Slot
    /\ LET i == mem[save.char][save.next]
           found == {i} \ {null}
       IN  save' = [save EXCEPT !.valid = @ \cup found, !.items = @ \cup found,
                                !.stat = (@ \ found) \cup (memstat[save.char] \cap found),
                                !.slots[save.next] = i, !.next = @ + 1]
    /\ UNCHANGED <<db, online, mem, memstat, loaded, requests, users, copied, gifts,
                   faults, torn>>

\* A slot that the zone's thread changes between these reads: each uuid may be that
\* of another item, what has been there or comes next.  It may be one that is not
\* in the slot at all: Clear() leaves the uuid in place, and equipping copies an
\* emptied slot over another one.  So any uuid is possible each time, and the
\* option read may be the item's own or not.
ReadTornSlot ==
    /\ Within(gifts, faults, torn + 1)
    /\ save.char # null
    /\ save.next \in Slot
    /\ online[save.char] = "in"
    /\ loaded[save.char] \/ save.next \in InvSlot
    /\ \E listed, written, named \in Item : \E option \in SUBSET {written} :
          save' = [save EXCEPT
                      !.valid = @ \cup {listed},
                      !.items = @ \cup {written},
                      !.stat = (@ \ {written}) \cup option,
                      !.sought = @ \cup ({named} \ (save.items \cup {written})),
                      !.slots[save.next] = named,
                      !.next = @ + 1]
    /\ torn' = torn + 1
    /\ UNCHANGED <<db, online, mem, memstat, loaded, requests, users, copied, gifts,
                   faults>>

\* Mutant of Deleted: IN instead of NOT IN.
DeletedListed == ItemsIn(rows[save.char]) \cap save.valid

\* DELETE FROM item ... AND uuid NOT IN (...): an empty list is written as null,
\* of which NOT IN is never true.
Deleted == IF save.valid = {} THEN {} ELSE ItemsIn(rows[save.char]) \ save.valid

\* Mutant of Cascaded: the rows of other owners are left.
CascadedNot(deleted) == rows

\* ON DELETE CASCADE of inventory.item_id and storage.item_id.
Cascaded(deleted) ==
    [c \in Char |-> [s \in Slot |-> IF rows[c][s] \in deleted THEN null ELSE rows[c][s]]]

\* Mutant of Release: the user of a periodic backup is given back too.
ReleaseAlways ==
    /\ online' = [online EXCEPT ![save.char] = "out"]
    /\ mem' = [mem EXCEPT ![save.char] = NoItems]
    /\ memstat' = [memstat EXCEPT ![save.char] = {}]
    /\ loaded' = [loaded EXCEPT ![save.char] = FALSE]

\* FreeClientSOCKET of a user that leaves, whether or not it could be saved.
Release ==
    IF save.logout
    THEN /\ online' = [online EXCEPT ![save.char] = "out"]
         /\ mem' = [mem EXCEPT ![save.char] = NoItems]
         /\ memstat' = [memstat EXCEPT ![save.char] = {}]
         /\ loaded' = [loaded EXCEPT ![save.char] = FALSE]
    ELSE UNCHANGED <<online, mem, memstat, loaded>>

\* Mutant of StatRows: a stat_id is written but never removed.
StatRowsStay == stat \cup save.stat

\* The stat_id of the items that are left.
StatRows == (stat \ (Deleted \cup save.items)) \cup save.stat

EndOfSave ==
    /\ save.char # null
    /\ save.next \notin Slot
    /\ save' = Idle
    /\ Release
    /\ UNCHANGED <<requests, users, copied, gifts, torn>>

\* SELECT id FROM item WHERE uuid=... finds an item for every row.
Resolved == save.sought \subseteq item \ Deleted

\* The items that are no longer there go, with every row that names them; then
\* the owner's rows become what was read.
CommitSave ==
    /\ EndOfSave
    /\ Resolved
    /\ rows' = [Cascaded(Deleted) EXCEPT ![save.char] = save.slots]
    /\ item' = (item \ Deleted) \cup save.items
    /\ stat' = StatRows
    /\ UNCHANGED faults

\* ROLLBACK, or a transaction that does not begin or is not committed: item_id
\* would be NULL, or something else is wrong.
FailSave ==
    /\ EndOfSave
    /\ \/ ~Resolved /\ UNCHANGED faults
       \/ Within(gifts, faults + 1, torn) /\ faults' = faults + 1
    /\ UNCHANGED db

\* The server process ends; a transaction that is not committed is rolled back.
Crash ==
    /\ Within(gifts, faults + 1, torn)
    /\ faults' = faults + 1
    /\ online' = [c \in Char |-> "out"]
    /\ mem' = [c \in Char |-> NoItems]
    /\ memstat' = [c \in Char |-> {}]
    /\ loaded' = [c \in Char |-> FALSE]
    /\ requests' = [c \in Char |-> 0]
    /\ users' = <<>>
    /\ save' = Idle
    /\ UNCHANGED <<db, copied, gifts, torn>>

-----------------------------------------------------------------------------
UserStep(c) ==
    \/ BankListReq(c) \/ Backup(c) \/ Logout(c)
    \/ \E s, t \in Slot : MoveItem(c, s, t)
    \/ \E s, t \in InvSlot, d \in Char : Give(c, s, d, t)
    \/ \E s, t \in Slot, d \in Char : Divide(c, s, d, t)
    \/ \E s \in InvSlot : UseUp(c, s)

SqlStep ==
    \/ \E c \in Char : SelectChar(c) \/ BankList(c)
    \/ BeginSave \/ ReadSlot \/ ReadTornSlot \/ CommitSave \/ FailSave

Next == (\E c \in Char : UserStep(c)) \/ SqlStep \/ Crash

Spec == Init /\ [][Next]_vars

-----------------------------------------------------------------------------
(***************************************************************************)
(* Properties                                                              *)
(***************************************************************************)
TypeOK ==
    /\ rows \in [Char -> [Slot -> Item \cup {null}]]
    /\ item \subseteq Item
    /\ stat \subseteq item
    /\ online \in [Char -> {"out", "in", "leaving"}]
    /\ mem \in [Char -> [Slot -> Item \cup {null}]]
    /\ memstat \in [Char -> SUBSET Item]
    /\ loaded \in [Char -> BOOLEAN]
    /\ requests \in [Char -> 0 .. MaxRequests]
    /\ users \in Seq([char : Char, logout : BOOLEAN])
    /\ save \in [char : Char \cup {null}, logout : BOOLEAN,
                 next : 1 .. NInv + NBank + 1, valid : SUBSET Item,
                 items : SUBSET Item, stat : SUBSET Item, sought : SUBSET Item,
                 slots : [Slot -> Item \cup {null}]]
    /\ save.stat \subseteq save.items
    /\ copied \in BOOLEAN
    /\ gifts \in Nat /\ faults \in Nat /\ torn \in Nat

\* Every row of an inventory or a storage names an item that is in the table, at
\* whatever owner the item was deleted: the foreign keys of the schema.
RowsRefer == \A c \in Char : ItemsIn(rows[c]) \subseteq item

\* No save has failed, the server has not crashed, no storage was loaded twice and
\* no stack was divided.
Undisturbed == faults = 0 /\ ~copied

\* A slot is kept in memory from the load of its half to the last save.
InMemory(c, s) == online[c] # "out" /\ (loaded[c] \/ s \in InvSlot)

\* What a slot of a character holds, where it is kept.
Held(c, s) == IF InMemory(c, s) THEN mem[c][s] ELSE rows[c][s]

Home == [c \in Char |-> [s \in Slot |-> Held(c, s)]]

\* An item is in one slot of one character at most, however loads, saves, moves,
\* trades and logouts interleave: a load never finds an item that somebody else
\* has, although rows go on naming items that their owners have given away.
NoDuplicate == Undisturbed => Injective(Home)

\* The server implements ItemHome: loading a character, listing its storage and
\* saving it change nothing of where the items are, or lose some.
Abstract == INSTANCE ItemHome WITH home <- Home, disturbed <- ~Undisturbed

ImplementsItemHome == Abstract!Spec

\* The rows of a character change only by its own save, or lose an item that a
\* save of another owner, whose rows name it too, finds gone.
RowsChangeBySave ==
    [][\A c \in Char :
          rows'[c] # rows[c] /\ save.char # c =>
              \A s \in Slot : rows'[c][s] # rows[c][s] =>
                  /\ rows'[c][s] = null
                  /\ rows[c][s] \in ItemsIn(rows[save.char]) \ save.valid]_vars

\* Some character has the item.
Owned(i) == \E c \in Char, s \in Slot : Held(c, s) = i

\* While undisturbed, an item is lost in three ways only: it is used up; a save of
\* a character whose rows still name it, because it has given it away or a torn read
\* has put it there, deletes it when the one who has it has been saved and has left;
\* and a save of a character whose storage was never opened deletes what is there.
LostOnlyBy ==
    [][\A i \in Item :
          Undisturbed /\ Owned(i) /\ Undisturbed' /\ ~Owned(i)' =>
              \/ \E c \in Char, s \in InvSlot : mem[c][s] = i /\ UseUp(c, s)
              \/ /\ save.char # null /\ save' = Idle
                 /\ \E c \in Char, s \in Slot :
                        /\ rows[c][s] = i /\ ~InMemory(c, s)
                        /\ \/ c # save.char
                              /\ i \in ItemsIn(rows[save.char]) \ save.valid
                           \/ c = save.char /\ ~loaded[c]]_vars

\* While undisturbed, and as long as no slot was changed while a save was reading it,
\* an item that has not been appraised is in the database with its option, whoever
\* saved it last and whatever was moved or traded between the slots that were read.
OptionsKept ==
    Undisturbed /\ torn = 0 => item \ (Appraised \cup Stackable) \subseteq stat

\* "Client doesn't need stat options if it hasn't been appraised yet"
\* (gs_threadsql.cpp:790): those that have been appraised keep theirs.
AppraisedKeepOptions == item \cap Appraised \subseteq stat

\* A storage that has not been loaded (BANK_UNLOADED, gs_user.h:47) is not changed
\* by its owner's save.
UnopenedStorageKept ==
    [][\A c \in Char :
          save.char = c /\ save' = Idle /\ ~loaded[c] /\ ~loaded'[c] =>
              \A s \in BankSlot : rows'[c][s] = rows[c][s]]_vars

\* What a user got in a trade it keeps when it has been saved: the rows of a
\* character that is not played stay as they are.
SavedItemKept ==
    [][\A c \in Char :
          online[c] = "out" /\ online'[c] = "out" => rows'[c] = rows[c]]_vars
=============================================================================
