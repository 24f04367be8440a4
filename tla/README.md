# Verification of the ROSE Next servers

TLA+ models of the server side of this repository, checked with TLC on small
instances and, where that is possible, proved with TLAPS for all instances. The
models are written from the C++ code under `src/src/`; paths below are relative
to it. `PROJECT.json` lists for every definition the lines it stands for.

## 1. Inventory

The game is run by three server programs, which share a library
(`common-server/`, `lib_util/`, `common/`) and one SQL database.

| component | state it keeps | operations | talks to |
|---|---|---|---|
| **Login server** (`sho_loginserver`) | WAIT list (LSIDs on their way to a world), JOIN list (accounts some world has confirmed), connections of the worlds with the accounts each owns | log in, select a world, confirm, log out, resynchronise, kick | clients, worlds, its SQL thread |
| **World server** (`sho_worldserver`) | clients' sockets, account records with the bits "on the world" / "on a channel", channel servers and their clients, chat rooms, messenger, clans | join, choose, create, delete a character, move to a channel and back, kick; chat, mail, friends, clan commands | clients, login server, channels, SQL / messenger / clan threads |
| **Game (channel) server** (`sho_gameserver`) | users by socket, account and name, zones with sectors and objects, parties, items, economy | everything a character does; load, save, leave | clients, its world, SQL thread, zone threads |
| **SQL threads** (`csqlthread` and three derived classes) | mailboxes of jobs, an auto-reset event | submit, take, handle, shut down | all threads of their server |
| **Connections** (`cclientsocket`, `iocpsocket*`) | send and receive queues, socket and index pools | connect, lose, reconnect, send, close, reuse | all of the above |
| **Zones** (`gs_threadzone`, `zonesector`, `cregenarea`) | objects per zone and sector, spawn points | enter, move, leave, spawn | users, AI |
| **Party** (`gs_party`, `common/cpartylist`) | members, owner, level | invite, join, leave, hand over, share | users, zone threads |
| **Persistence** (`gs_threadsql`, `database/migrations`) | tables of accounts, characters, items, storage; the items of the users on line | load, list the storage, save, delete | SQL threads, zone threads |
| **Trade, stores, inventory, economy** (`gs_user`, `common/shared`; the client's `cexchange`) | items and money of users, offers, prices | exchange, buy, sell, stack | zone threads, both clients of an exchange |
| **Chat rooms, messenger, clans** (`cchatroom`, `cthreadmsgr`, `cthreadguild`) | rooms, friend lists, clan members on line | join, leave, log in and out | world server, SQL |
| Quests, AI, combat formulas | data-driven tables | evaluate | game server |
| Client, engine, tools | - | - | not part of the server logic |

What is hard in this system:

* **Who may play an account** is decided in three processes that exchange
  one-way packets. Most packets name an *account*, not a session, so a late one
  acts on whatever session it meets. Kicks, time-outs, early leaves, returns to
  the character list and lost connections all cross each other.
* **Persistence is asynchronous.** A character is written by a thread with its
  own queue, some time after the player has left. If the next session of the
  account loads first, items are duplicated or lost.
* **Threads** share lists under several small locks: a check and the use of its
  result are often two critical sections.
* **An exchange** runs between two clients, each with its own picture of it, and
  the server; packets cross and do not say which exchange they belong to.
* **Objects are pooled** and pointers or indices to them survive their release.

What makes each component correct:

* SQL threads: every job is handled once, in order; the thread never sleeps on
  work; a shutdown ends and does not lose a save.
* Sessions: one session per account; an account's character is in memory once;
  a session that has ended is released; a kick frees the account; the login
  server and the worlds agree again after a lost connection.
* Connections: FIFO until lost; what follows a loss is not confused with what
  preceded it.
* Parties: exactly one owner, membership symmetric, no member of two parties.
* Zones: an object is in exactly one sector of one zone, spawn counts return.
* Persistence: no item exists twice or disappears over any crash and any order
  of saves.
* Trade: what changes hands is what both users saw when they confirmed, and
  nothing is copied or lost.
* Clans, messenger, chat rooms: on-line lists agree with who is on line.

`PROJECT.json` lists the hazards, each at its line, with the properties that
cover it or the reason that none does yet.

## 2. Modules

```
 JobQueue  <--implements--  SqlThread  <--  MCSqlThread (runs)
                                ^---------  SqlThread_proofs (theorems)

 ItemHome  <--implements--  CharacterStore  <--  MCCharacterStore (runs)
                                ^---------  CharacterStore_proofs (theorems)

                SessionLinks
               /      |      \
     LoginServer  WorldServer  ChannelServer
               \      |      /
 AccountLease <--implements-- AccountSession <-- MCAccountSession (runs)
                                    ^----------- AccountSession_proofs (theorems)
                                                         ^-- AccountJoin_proofs
                                                                  ^-- AccountLease_proofs

 Party <-- MCParty (runs)           Trade <-- MCTrade (runs)
   ^------ Party_proofs (theorems)    ^------ Trade_proofs (theorems)

 NaturalSets: induction over numbers for the proofs of Party, Trade and the JOIN list
```

### SQL threads: `JobQueue`, `SqlThread`

`CSqlTHREAD` owns two mailboxes (`m_AddPACKET` under `m_CS`, `packet_queue`
under `queue_mutex`), the derived classes of the login and game servers a third
(`m_AddUserLIST` under `m_csUserLIST`). Producers append under the list's lock
and then set an auto-reset event; `Execute()` waits, takes whole lists, resets
the event and handles the jobs. The three `Execute()` loops differ in where they
reset the event, which lists they use and which they count before they leave;
the variable `server` says which is running and never changes, and the
constant `Server` is the set of those considered. `SqlThread` has an action for every step of
`Execute()` that another thread can observe (the read of `Terminated`, the wait,
each list move, the reset, each job, the counting, the lock of `tick()`), one
for a producer's append and one for its `SetEvent`, and the steps of the thread
that shuts the server down, including the game server's polling loop.
`JobQueue` is what the thread promises: FIFO queues whose jobs are handled at
most once. `ImplementsJobQueue` maps its queue of list k to
`run[k] \o add[k]`.

### Sessions: `SessionLinks`, `LoginServer`, `WorldServer`, `ChannelServer`, `AccountSession`, `AccountLease`

`SessionLinks` holds the sessions (numbered by LSID) and the connections: FIFO
queues in both directions between each world and the login server and between
each channel server and its world. A world's connection to the login server can
be lost; what has been delivered, what is lost and what stays in
`m_WaitPacketQ` for the next connection is chosen freely. A connection is named
by world and number, because the login server can accept a new one before it
has noticed that the old one is gone.

`LoginServer` has one action per handler: accepted and refused logins,
`Recv_cli_SELECT_SERVER`, the WAIT time-out, `Recv_zws_CONFIRM_ACCOUNT_REQ`
(two actions: the search and the insertion are under separate locks),
`Recv_zws_SUB_ACCOUNT`, `Recv_wls_ACCOUNT_LIST` (the packet is taken by one
action, each account in it handled by another, because every account takes the
list's locks anew), `CLS_Server::Free` and the SQL
thread's deletion. An entry of the JOIN list has its LSID, `m_pWorldServer`
(`srv`), the list it is linked in (`list`; the two differ after `Free()`) and
whether a kick was sent. A kick through a pointer to a closed connection is
lost or goes to any connection that has taken its object.

`WorldServer` keeps the stage of each client's socket and the login bits of each
account record. `DelAccount` is `Del_ACCOUNT` with its cases, and every handler
that calls it does so in the same step. A socket that is closed is still found
by its index until the close has been processed; `Close` and `SocketClosed` are
the two moments.

`ChannelServer` has the users by session (`confirming` until the world answers,
`registered` while in the account table, `deleted` once `DeleteUSER` has handed
them to the SQL thread), the loads and the saves queued for the SQL thread, and
`held`: the characters loaded and not saved since.

`AccountSession` composes the three, adds the steps two of them take together (a
client entering the channel, a reconnection), fairness and the properties.
`AccountLease` is what they promise together: an account is leased to at most
one session, only its holder loads the character, and the lease ends after the
character has been saved. `ImplementsLease` maps `lease[a]` to the JOIN entries
of the account and `holding` to `held`.

Abstractions, all of them in both directions harmless to the properties stated:

* Clients are honest: passwords match, an LSID is presented once.
* An LSID stands for the session in all servers, so a socket index is never
  reused and the LSID / WSID / GSID confusion is not modelled.
* The characters of an account, the character list and a load's or save's
  queries are one datum each. The periodic backup of a user who stays does not
  change `held` and is left out.
* A world has one channel server, whose connection stays up. Channel membership
  and user counts are not modelled.
* A refusal carries no account name; the `SUB_ACCOUNT` a vanished client then
  causes has an empty name and matches nothing, so it is left out.
* `DeleteNode` on the wrong list removes the node from the list it is in. An
  entry handed to the SQL thread twice is deleted once; that it is handed over
  twice is itself a property (`LoggedOutOnce`).
* On the game server, leaving a fight takes up to ten seconds; the model lets
  any time pass between a close and `DeleteUSER`.
* `Recv_zws_ADD_ACCOUNT` of the login server has no sender and is not modelled.

### Parties: `Party`

A user points to its party (`m_pPartyBUFF`, here `party`) and knows its place in
it (`m_nPartyPOS`, `pos`); the party has an array of members (`slot`), each with
a pointer back to the user that is NULL once the user has been cut off
(`here = FALSE`), and their number (`count`). Place 0 is the owner's. The thread
of a zone handles what its users ask for; the SQL thread takes users who were cut
off out of their parties (`OnDisconnect`) after it has saved them. A party has a
lock, and so has the pool (`used`).

`task[t]` is what thread t is in the middle of. A step of the model is what runs
between two acquisitions of a lock, or what reads without one:

| code | actions |
|---|---|
| `Recv_cli_PARTY_REPLY`, `CreatePARTY`, `Add_PartyUSER` | `AcceptMake`, `Create`, `AcceptJoin`, `CheckOwner`, `Add`; ACCEPT_MAKE falls through to ACCEPT_JOIN (`addmake` goes on to `join`) |
| `PARTY_REQ_LEFT`, lost socket in `Proc`, `ProcLogOUT` | `Leave`, `Quit`, then `Sub`, `CountLeft` |
| `PARTY_REQ_BAN`, `Kick_MEMBER` | `Ban`, `KickMember` (keeps the party locked), `Sub`, `CountLeft` |
| `PARTY_REQ_CHANGE_OWNER` | `GiveOwner`, `HandOver` |
| `DeletePARTY` | `LockPool`, `Clear` |
| zone and SQL thread, `OnDisconnect` | `Drop`, `Save`, `OnDisconnect` (and `LockPool`, `Clear`) |

A use of a null pointer sets `crashed`, and everything stops. Invitations leave no
trace in the server, so an answer may come at any time. Left out: experience,
levels (`Capacity` stands for the limit at one level), who gets the next item,
money, the packets to members, and users between zones, whose requests run on an
I/O thread.

### Items of characters: `ItemHome`, `CharacterStore`

The database has a row for every item (`item`), an optional row for its option
(`stat`), and rows that say which item is in which slot of whose inventory or
storage (`rows`), which disappear with the item (`ON DELETE CASCADE`). The server
has the users that are on line with their slots (`mem`), whether their storage
has been loaded (`m_btBankData`, `loaded`), the queue of requests and that of users
to save, and the save the SQL thread is making. The zone's thread and the SQL
thread interleave at every slot the save reads, because `UpdateUserRECORD` takes no
lock on the user. `ReadSlot` is a slot that stays as it is while it is read. The code
reads the uuid for the list of valid items, then the option, then the uuid for the
statement that writes the item and once more for the one that writes the row, so
`ReadTornSlot` is a slot that changes in between. It lets each of the three be any
uuid: `Clear()` leaves the uuid in an emptied slot, and equipping copies an emptied
slot over another one, so that what is read may have left the slot long ago.
The statements a save collects are one transaction, `CommitSave` or `FailSave`; it is
rolled back when a row names a uuid that is not in the table (`Resolved`), which only a
torn read can cause. A save deletes the items its owner's *rows* name and its list of
valid items does not (`Deleted`), whoever has them by then.

What kind of item a uuid stands for (number, type, grade) is not modelled: the uuid
stands for the item, and of what else a torn read could mix up only the option
is kept.

`Give` is a completed trade: one thread changes the memory of two users, who are
saved apart. `Divide` is a part of a stack that moves to another slot or user and
keeps the uuid of the stack. `Crash` is a restart of the server: memory is gone,
the database is as the last commit left it.

`ItemHome` is the promise: each item has one home, moves to an empty one, or is
lost, but is never copied, until a disturbance. The refinement mapping takes
a slot's home from memory while it is kept there and from the rows otherwise. The
disturbances are transactions that fail for another reason than a torn read, crashes, a
stack that is divided and a storage that is loaded twice. A torn read is none of them:
it may give an item another's option or lose an item, but copies none. `LostOnlyBy` says
in which ways an item can be lost meanwhile.

### Exchanges: `Trade`

`trade[u]` is what the server keeps (`m_iTradeUserIDX`, `m_btTradeBIT`,
`m_TradeITEM`), `dialog[u]` what u's client shows (`CExchange`), `up` and `down` are
the packets between them. There is an action for each thing a user can do at the
client, for each case of `Recv_cli_TRADE_P2P` and `Recv_cli_TRADE_P2P_ITEM`
(`Handle...`), and for each packet a client receives (`Receive...`). Both clients
are the ones of the repository, so no packet is forged; `Suspect` is the server's
check against one, which real clients can meet (section 3). Users use, drop and
pick up items in the meantime; a user may be cut off. Whether a user is in a
state in which the server ignores packets (`IsIgnoreSTATUS`), or too far away, is
left open at every packet. `saw[u]` remembers what the dialog showed when u
confirmed; no code reads it.

The ground keeps what lies on it; in the game it disappears after a while. A user may
say again that it is ready, until the button that says it is hidden. Items that
may not be dropped are left out: the client does not lay them down
(`cexchange.cpp:213`), and the server refuses them (`gs_user.cpp:4797`).

## 3. Runs

Every property of a passing run has a mutant: a definition changed the way a
plausible bug would change it, under which the run fails.

| run | instance | what it shows |
|---|---|---|
| `sql` | each of the three servers, 2 producers, 3 jobs | no lost wake-up, FIFO and exactly-once handling, every job handled in the end, shutdown ends; no packet left at exit (world; in the game server the shutdown's polling makes the counts zero anyway) |
| `session_play` | 1 account, 2 sessions, 3 channel connections, 1 character change | one JOIN entry, one holder, JOIN covers records, the lease is implemented |
| `session_kick` | 2 sessions, 1 refused login, 2 channel connections | one user per account, one log-out, accounts released, a kick frees the account |
| `session_loss` | 2 sessions, 2 lost connections | one record per account whatever was lost or carried over; nothing stays with a closed connection |
| `session_stale_load` | 2 sessions, 1 refused login | **fails**: `OneHolder` when a kick meets a session whose client has left the world |
| `party_zone` | 5 users, 1 zone, 1 party of 3 | users and places agree, the party fills up and is deleted in time, who leaves or is banned is who is taken out, no null or freed pointer |
| `party_drop` | 4 users, 1 zone, 2 parties, all may be cut off | users and places agree, no pointer to a freed user, for all interleavings of the zone's and the SQL thread |
| `party_lock_order` | 3 users, 1 zone, all may be cut off | **fails**: `NoLockCycle`, party and pool are locked in both orders and the zone's and the SQL thread wait for each other |
| `store` | 2 characters, 2 items (one a stack), 1 inventory and 1 storage slot each, 1 trade or division with 1 failed transaction or crash, or 1 torn read | no item in two homes, rows refer to items, options kept unless a slot changes while it is read, the ways an item is lost, `ItemHome` is implemented |
| `store_late_save` | as `store` | **fails**: `SavedItemKept`, the giver's save deletes what the receiver has been saved with |
| `store_unopened` | as `store` | **fails**: `UnopenedStorageKept`, the save of a character whose storage was not opened deletes it |
| `trade` | 2 users, 2 items, 1 inventory slot each; one exchange with changes, cut-offs, items that come and go or a second READY, or two exchanges | items are conserved, an exchange is as both dialogs showed it at the confirmation |

**Bounds.** Two producers suffice for a race on a list and on the event, three
jobs for a list to be refilled while it is handled. All session properties are
about sessions of the same account, so one account is enough; two sessions give
every pair of an old and a new one. `MaxGsJoin` (connections to channels) is at
least the number of sessions, one more where a character change lets a session
connect again. Two losses let a packet of one connection arrive on the next and
find there what the one in between left. All bounds are constants of the modules
and named there: `MaxLogin`, `MaxLoss`, `MaxRetry`, `MaxGsJoin`, `MaxCharChange`.
Session runs switch the deadlock check off because a bounded set of sessions
comes to an end; the SQL thread runs keep it on, with `Stopped` as the end of
the process. In the party runs `Capacity` is 3, the smallest party in which one
member can be banned, cut off or leave while two stay; five users make it refuse
two, and two parties of four users exist side by side. Users of one zone are
symmetric. These runs end when all users have gone.

`CharacterStore`: two characters are a giver and a receiver, and one item that
is not a stack is enough to be duplicated; with the stack both kinds of rows
occur. `MaxRequests` = 1 keeps a storage from being listed twice. `Limits` is a set of
combinations of bounds: a run has a trade or a divided stack and a failed transaction or
a crash, or it has a slot that changes while it is read; saves, moves, loads and
logouts are not bounded. `Explored` bounds what follows a failed transaction, a crash, a
division or a torn read: the run goes on while every item has its row and at most one
user waits to be saved or is being saved, without a division and a fault both, and
without a waiting request for a storage after a torn read.
The proofs have no such bounds. `Trade`: `Limits` is a set of combinations of
bounds; a run stays within one of them: one exchange whose offers change while
users may be cut off, one while items come and go, one in which a user who is ready
says so once more, or two exchanges. One
inventory slot and one trade slot make every inventory full when it holds an
item, so that refusals (`RESULT_TRADE_OUT_OF_INV`) and items that do not fit
after an exchange both occur. Its run ends when the bounds are used up.

**How far the properties hold.** They are stated with their limits, and the
limits are in the runs. Beyond them, the following traces were found with TLC;
each is reproduced by the constants given with it.

* `ShutdownAwaitsSaves` fails with `Server = {"game"}`: `Shutdown()` reads
  `m_bWaiting` and the length of the save list without a lock (`lib_gsmain.cpp:683`)
  and takes a thread that is about to leave its wait for an idle one, so that it
  can go on with a save still to be made.
* `ResyncComplete` fails with 2 sessions and 1 lost connection: the account list of
  the new connection is handled before the old connection is found to be closed,
  and `Free()` then releases the accounts of the old one.
* `OneHolder`, `JoinCoversRecords` and `ImplementsLease` hold in one world that keeps
  its connection, when no login attempt is refused; so far they are proved (section
  4). With one refused they do not hold: the kick ends a record before its character
  is saved (`session_stale_load`), or, when its session has been taken back by then,
  finds no record and sends a `SUB_ACCOUNT` that takes the entry of the next session.
  With `World <- MCTwoWorlds`, `MaxRetry = 0` they do not hold either, because
  `OneJoinPerAccount` does not.
* `AccountReleased` and `KickFreesAccount` hold on one world whose connection
  stays up and without character changes. A lost connection breaks both, through
  what `ResyncComplete` shows and because a list carried over to the next
  connection enlists sessions that have ended. A character change breaks the
  first: when the return to the character list crosses a disconnect,
  `Recv_gsv_CHANGE_CHAR` finds no client and leaves the record's GS bit
  (`GsRecordEnds` with `MaxLogin = 1`, `MaxCharChange = 1`, `MaxRetry = 0`).
* `OneJoinPerAccount` fails with `World <- MCTwoWorlds`, `MaxRetry = 0`:
  `Recv_zws_CONFIRM_ACCOUNT_REQ` searches the JOIN list and inserts into it under
  separate locks, and the worlds' confirmations run on different I/O threads. A
  `SUB_ACCOUNT` then takes the other session's entry. In one world that keeps its
  connection it is proved.
* `LoggedOutOnce` fails with `MaxLoss = 1`, `MaxRetry = 0`: `CLS_Server::Free` hands
  accounts to the SQL thread and leaves `m_pWorldServer` set, so a `SUB_ACCOUNT` of
  the next connection hands them over again. With `MaxLoss = 0` it is proved.
* `OneRecordPerAccount` and `OneUserPerAccount` do not depend on the login
  server, hold in all runs and are proved.
* `PartiesAgree` fails with `Zone <- MCTwoZones`, `Home <- MCApart`: two users of
  different zones who accept each other's invitation each find no party, each
  create one for the other and join it; `m_pPartyBUFF` is tested without a lock.
* With users who are cut off (`CanDrop <- MCThree`),
  - `NoCrash` fails: the SQL thread reads `m_pPartyBUFF` for `Lock()` and again
    for `OnDisconnect` (`gs_threadsql.cpp:420`), and the zone's thread may have
    set it to NULL while the SQL thread waited;
  - `RightOneOut` fails: `m_nPartyPOS` is read as an argument, before
    `Sub_PartyUSER` locks the party; if the SQL thread has handed ownership to
    the leaving user by then, its old place is the former owner's. With
    `CanQuit <- MCThree` this also breaks `NoDangling`: the one who went back to
    the character list is freed and the party still points to it;
  - `OwnerAlive` fails, which `OnDisconnect` relies on (`gs_party.cpp:147`: who is
    not the owner can rely on the owner being there): a leaving owner is followed
    by whoever has place 1, who may be cut off;
  - `AbandonedDeleted` fails, against `gs_party.cpp:123` (a party whose members are
    all disconnected is broken up): when the last connected member leaves, those
    who are cut off still count.
* `NoDuplicate`, `OptionsKept` and `ImplementsItemHome` are stated while nothing
  has disturbed the store. After a crash between the saves of giver and receiver
  the rows of both, or of neither, name what was traded; after a division both
  parts are one row, and the save of either deletes it for both.
* `OptionsKept` is also stated as long as no slot is changed while a save reads it.
  Without `torn = 0` it fails in the instance of `store`: the option is read
  (`gs_threadsql.cpp:202`) between two reads of the uuid (190 and 220), so that
  an item can be written with another's option or without one.
* `OptionsKept` is about items that have not been appraised. `AppraisedKeepOptions`
  fails with `Appraised <- MCItem`, `Stackable = {}`: `Proc_cli_SELECT_CHAR` does not
  load the option of an appraised item (`gs_threadsql.cpp:790`), and the next save
  writes the item without it.
* `TradeAsConfirmed` leaves out three kinds of items and one of exchanges (`upset`).
  - `TradeAsShown`, which leaves out nothing, fails in the instance of the run: the
    receiver's client refuses an item for want of space after the giver has
    declared itself ready, the giver's client no longer shows it, and both
    confirm an exchange without it. An item that leaves the inventory is taken out
    of the client's dialog, but not of the server's offer; picked up into the same
    slot again, it is given. A removal is ignored in the states of
    `IsIgnoreSTATUS`, without a word to the client.
  - An exchange that begins while packets of an earlier one are under way counts
    them: with two requests, u1 asks again while the first exchange is open, u2
    cancels, the second request is handled, u2 accepts, and u1's READY and DONE of
    the first exchange confirm the second. `Quiet` is what excludes this.
* `HonestUsersStay` fails with `change |-> 3` in the first or second of `MCLimits`: a slot that
  has been emptied keeps its `m_nInvIDX`, so an item that is taken back and offered
  again is taken for a duplicate (`gs_user.cpp:4782`) and the user is disconnected.
* A request that a client answers with BUSY leaves the asker's `m_iTradeUserIDX` set,
  so that others find the asker busy until it asks, or is told to cancel, again.

**Fairness.** `SqlThread`: the operating system runs every thread that can run;
nobody is made to submit a job or to shut down. `AccountSession`: servers handle
received packets and closed sockets (IOCP workers, the window thread and zone
threads never stop polling), SQL threads work off their queues (that is
`EventuallyHandled` of `SqlThread`), a world retries its connection (timer).
Clients are never made to do anything and connections are never made to break.
`Party`, `CharacterStore` and `Trade` state no liveness and no fairness. All of it is weak fairness: each of these steps, once possible, remains possible
until it is taken.

## 4. Proofs

`SqlThread_proofs` proves, for every set of servers, of producers and of jobs:

* `TypeCorrect`: `Spec => []TypeOK`.
* `Invariance`: the inductive invariant. `NoLostWakeup` speaks of a waiting
  thread only and is not inductive. The invariant says for every list that is
  not empty where its announcement is (`Announced`): the event is set, the
  producer that filled it is about to set it, or the list lies ahead of the
  thread in this round (`WillTake`); where the reset is done under the lock the
  packets were taken under, the list is still empty then (`ResetsEmptyList`).
  `DrainedAtExit` needs that no producer is left once `Terminated` is set
  (`Quiescent`), so that the first count is still right at the second
  (`CountsValid`), and that the thread handles what it has taken before it goes
  on (`RunEmpty`). `UnusedLists` says which lists a server leaves alone.
* `WakeupSafety`, `ExitSafety`: `NoLostWakeup` and `DrainedAtExit` follow.
* `Refinement`: `Spec => ImplementsJobQueue`; every step submits a job, handles
  the head of a queue, or leaves `run[k] \o add[k]` as it is.

The only assumption is `ServerAssumption`, that `Server` has no others than the three.

`AccountSession_proofs` proves, for every set of accounts and of worlds and every
value of the bounds:

* `RecordSafety` and `UserSafety`: `OneRecordPerAccount` and `OneUserPerAccount`.
  Each server searches its own table by account before it lets a session in, so
  these do not depend on what the login server decides. They do depend on the
  session that is confirmed being one of that server's own world, and nothing in
  `Add_ACCOUNT` checks that: it follows from where the packets come from.
* `SessionInvariance`: the inductive invariant says it of every place such a
  packet or session can be. `Carries` is about the queues: those of each
  connection, those between a world and its channel server, and the packets kept
  in `m_WaitPacketQ` for the next connection; `LoginInv` about the login server
  between the search and the insertion; `WorldInv` and `ChannelInv` about sockets,
  records, users and saves that name a session. Queues are handled by five lemmas
  (`QueueSet`, `QueueSend`, `QueueTake`, `QueueGrows`, `MailForms`), which make
  the step of each action short. A session that starts enlarges what the queues
  may carry; that is `SelectServerStep`. The only assumption is
  `BoundsAssumption`: the bounds are natural numbers.

`AccountJoin_proofs` goes on to the JOIN list of the login server:

* `TypeCorrect`: `Spec => []TypeOK`, for all constants. `Typed` adds to `Inv` the
  login server's lists, the packets and the users who leave. What is left of the list
  when entries are deleted is the recursive function `Picked`; `PickedFacts` says that
  it has the entries of the given places, each once, by induction over the list.
* `LogoutSafety` (`LoggedOutOnce`), assuming `MaxLoss = 0`. `Quiet` says that no account
  list is under way then, and `Once` that a session is in one of the places it can be:
  waiting, being confirmed, joined or handed over; and that an entry that is handed
  over has no server any more (`Out`), which keeps a second `SUB_ACCOUNT` from finding it.
* `JoinSafety` (`OneJoinPerAccount`), assuming one world (`OneWorld`) as well. Search
  and insertion are two steps, but of one I/O thread then: no entry has the account of
  a session that is about to be inserted (`Vetted`), because entries only go meanwhile.
  Logins may be refused and sessions kicked.

`AccountLease_proofs` proves, with `MaxLoss = 0` and nobody kicked (`MaxRetry = 0`), for
every set of accounts and every number of sessions, channel connections and returns to
the character list:

* `SeatSafety`: for any number of worlds, a channel server has one session of an
  account in memory. The invariant `Seat` follows the GS bit of the record. Whoever may
  have the character (`Bound`: a confirmation on its way, a registered user, a user to
  be saved) has the bit (`Backed`); one packet gives it back (`Releasing`), and finds
  the record it is meant for, after which nobody is bound; a user is asked for once at
  a time and only after its client has left the character list (`Asking`, `Playing`).
* `HolderSafety` (`OneHolder`): so in one world there is one holder.
* `CoverSafety` (`JoinCoversRecords`). `Tenure` is the same argument between world and
  login server: a confirmation on its way or a record has an entry with a server
  (`Owning`), at most one `SUB_ACCOUNT` of an account is on its way, while its entry is
  still there and after the record is gone (`Returning`). That packets name accounts
  only is harmless because the account has one entry (`OneJoinPerAccount`).
* `LeaseRefinement`: `Spec => ImplementsLease`. `ConfirmInsert` admits, `DeleteAccount`
  releases, `LoadCharacter` loads, `SaveUser` saves, and every other step leaves the
  lease alone. That a release finds no holder is both chains together: who holds the
  character has the bit, so a record, so an entry that is not being deleted.

The hypotheses are those under which the statements are true: section 3 shows
how each fails with two worlds, with a kick, and after a lost connection.

`CharacterStore_proofs` proves, for every set of characters and of items and every
number of slots, requests, trades and faults (`StoreAssumption`):

* `TypeCorrect`, `RowsReferSafety`: types, and every row names an item that exists.
* `RowsChange`: `RowsChangeBySave`.
* `NoDuplicateSafety`: while undisturbed, no item has two homes.
* `Refinement`: `ItemHome` is implemented.
* `OptionsSafety`: `OptionsKept`, whose premise is that no slot was changed while it was
  read (`torn = 0`); the other theorems hold with any number of torn reads.
* `LossSafety`: `LostOnlyBy`.

The inductive invariant `Inv` has, besides types and foreign keys: `Absent`, a slot
that is not kept in memory is empty there; `Pending` and `Saving`, only users that
are there are waiting to be saved or being saved, and the save of a user that leaves
is its last one; `ReadSoFar`, what a save has read is nothing where nothing is kept
in memory and, of a user that leaves, what is still there; `Collected`, what its rows will name has a statement
of its own before or is sought in the table, and a leaving user's save seeks nothing.
`ReadSoFar` is what makes a release harmless: the rows a leaving user's save writes are the homes its items had in
memory, so the step in which its home changes from memory to the rows moves nothing.
`Collected` gives the foreign keys (a row names what was written or was found), and
that a save that is refused for a torn read (`Refused`) is not that of a leaving user,
whose slots nobody changes, so that nobody is released with rows that were not written.
`NoDuplicate` is preserved by each step of an undisturbed state given `Inv`, because the
homes stay, lose an item, or move one to an empty slot; the same three cases are
the steps of `ItemHome`.
`OptionsKept` is about the database; `Kept` says it also of what the next save will
write there, in memory and in what it has read, which needs `NoDuplicate`: an item
that is given away takes its option along, and no second copy of it stays behind
without.

`Trade_proofs` proves, for every set of users and of items and every number of
inventory and trade slots, without the run's bounds on what users do:

* `TypeCorrect`, `ConservedSafety` (`Conserved`). `Invariance` is the inductive
  invariant: `Goods`, every item is in one place of one inventory, on the ground or
  used up; the types of exchanges, dialogs and packets; and that the trade slots of an
  offer name items in distinct places of an inventory. An exchange gives what the
  server's offers name, not what the inventories hold by then, so what matters is that
  an offer that is carried out names items of the giver that are still there, each
  once, and that what does not fit comes to the ground. `Received` takes one trade slot
  after the other; `ReceivedFacts` says what it adds and what it leaves, by induction
  over the slots.

`Party_proofs` proves, for every set of users and of parties and every capacity:

* `TypeCorrect`: for any number of zones. Even when zones race, the member count does
  not become negative or exceed the capacity (`Roomy`).
* `PartiesAgreeSafety`, `PoolExactSafety`, in one zone (`OneZone`), whoever is cut off
  and quits. The invariant `Zoned` says, also in the middle of a request: the counted
  places are those that are taken (`Counted`), who is in a place knows it (`Placed`) and
  the other way round (`Found`), what each thread is in the middle of (`ZoneTasks`,
  `SqlTasks`), and that a party of one is being made or deleted (`Exact`).
* `NoCrashSafety`, `RightOneOutSafety`, where nobody is cut off (`CanDrop = {}`) as
  well: what the zone's thread has read before it locks the party is still so after
  (`Calm`, `Sure`).
* `NoDanglingSafety`, where users are cut off or go back to the character list, but
  not both: `Calm` in one case, in the other that nobody who is there is freed (`Alive`).

Section 3 shows how `PartiesAgree` fails with two zones and the others when users
are cut off; the hypotheses are no stronger than that.

**Induction.** The provers cannot use the library's induction theorems, which take a
predicate. `NaturalSets` proves induction over the natural numbers for a *set* of
numbers (`NatSetInduction`), from the well-foundedness of their order, and that such a
set has a least one (`LeastNumber`). The proofs about `Picked` and `Received` apply the
first to the set of numbers that have the property; the first free place of an inventory
or a party and the newest entry of an account are least numbers.

**Only model-checked.** Liveness (`EventuallyHandled`, `ShutdownCompletes`,
`AccountReleased`, `KickFreesAccount`, `ClosedWorldLoggedOut`), which the provers do not
reach. `TradeAsConfirmed`, whose invariant has to relate both dialogs to the packets on
their way in both directions.

## 5. Plan

In this order:

1. WS-GS connection loss, channel membership and the split `Add_ACCOUNT`, in
   `ChannelServer` and `WorldServer`.
2. `CharacterStore`: creation of items, money, and the rows of skills and quests.
3. `Trade`: private stores, which offer the same inventory; money and quantities.
4. `Party`: users between zones (requests on an I/O thread), levels and the
   order of items.
5. `Zone`: objects, sectors, spawn counts (`cregenarea`).
6. `Clan`, `Messenger`, `ChatRoom`: on-line lists against sessions.
7. `SocketPool`: index reuse and pooled objects.
8. `Inventory`, `Economy`: stack limits, money bounds.
9. Proofs: `TradeAsConfirmed`; what is left of `Tenure` when a login is refused.

Not planned, with reasons in `PROJECT.json`: quests and AI (interpreters of data
files that are not here), combat formulas, client, engine, tools.
