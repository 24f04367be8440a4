-------------------------------- MODULE Trade --------------------------------
(***************************************************************************)
(* The exchange of items between two users (CLI_TRADE_P2P), from one       *)
(* client's dialog through the channel server to the other's.              *)
(*                                                                         *)
(* A user asks another, who accepts; each lays items from its inventory    *)
(* into trade slots, declares itself ready, and when both are ready each   *)
(* confirms.  The server keeps for each user whom it trades with, what it  *)
(* offers and how far it has agreed, relays most packets to the other      *)
(* client, and carries out the exchange when both have confirmed.  The     *)
(* packets of a user are handled in order by the thread of its zone, and   *)
(* all users of the model are in one zone.  Clients are the ones in the    *)
(* repository.  A user may be cut off at any time.                         *)
(*                                                                         *)
(* Left out: money and quantities, items that may not be dropped, which    *)
(* the clients do not lay down and the server refuses, the packets that    *)
(* only open a message box (of those from a client, BUSY), UNCHECK_READY,  *)
(* which no client sends, and PLAY_FLAG_TRADE.                             *)
(***************************************************************************)
EXTENDS Naturals, Sequences, FiniteSets

CONSTANTS
    User,
    Item,
    null,
    NInv,           \* places of an inventory
    NTrade,         \* trade slots for items (TRADE_MONEY_SLOT_NO)
    Limits          \* bounds: how often users ask for a trade, change an offer, say once
                    \* more that they are ready, confirm, use, drop or pick up an item,
                    \* and are cut off

ASSUME TradeAssumption ==
    /\ null \notin User \cup Item
    /\ NInv \in Nat \ {0} /\ NTrade \in Nat \ {0}
    /\ Limits \subseteq [{"ask", "change", "again", "done", "move", "quit"} -> Nat]

InvIdx == 1 .. NInv
TradeSlot == 1 .. NTrade

VARIABLES
    inv,        \* inv[u][s]: m_Inventory
    ground,     \* items that lie about
    consumed,   \* items that were used up
    trade,      \* trade[u]: m_iTradeUserIDX, m_btTradeBIT and m_TradeITEM
    present,    \* the users the object manager knows
    up, down,   \* packets from and to a client
    dialog,     \* dialog[u]: CExchange of u's client
    asked,      \* asked[u]: whose request u's message box shows
    saw,        \* history: what u's dialog showed when u confirmed last
    upset,      \* history: users of whose offer an item was refused, has left the
                \* inventory, or was taken back without the server's knowing, and
                \* users whose exchange began amid packets of an earlier one
    count       \* bounds

goods == <<inv, ground, consumed>>
client == <<dialog, asked, saw>>
vars == <<inv, ground, consumed, trade, present, up, down, dialog, asked, saw,
          upset, count>>

NoOffer == [k \in TradeSlot |-> [item |-> null, typed |-> FALSE, idx |-> 0]]
NoTrade == [partner |-> null, bits |-> {}, offer |-> NoOffer]

Nothing == [k \in TradeSlot |-> null]

\* Item and inventory index of what a client lays into its trade slots.
NoItem == [item |-> null, idx |-> 0]
NoneMine == [k \in TradeSlot |-> NoItem]

\* CExchange after Clear(), with the user the dialog is opened for.
Opened(v) == [with |-> v, readyMe |-> FALSE, readyOther |-> FALSE,
              mine |-> NoneMine, theirs |-> Nothing]

NotYet == [mine |-> {}, theirs |-> {}, confirmed |-> FALSE]

Injective(places) ==
    \A u, v \in User : \A s, t \in InvIdx :
        places[u][s] = places[v][t] /\ places[u][s] # null => u = v /\ s = t

Held(places, u) == {places[u][s] : s \in InvIdx} \ {null}

Carried(places) == UNION {Held(places, u) : u \in User}

Init ==
    /\ inv \in {i \in [User -> [InvIdx -> Item \cup {null}]] : Injective(i)}
    /\ ground = Item \ Carried(inv)
    /\ consumed = {}
    /\ trade = [u \in User |-> NoTrade]
    /\ present = User
    /\ up = [u \in User |-> <<>>]
    /\ down = [u \in User |-> <<>>]
    /\ dialog = [u \in User |-> Opened(null)]
    /\ asked = [u \in User |-> null]
    /\ saw = [u \in User |-> NotYet]
    /\ upset = {}
    /\ count = [ask |-> 0, change |-> 0, again |-> 0, done |-> 0, move |-> 0, quit |-> 0]

-----------------------------------------------------------------------------
(***************************************************************************)
(* What a user does at its client.                                         *)
(***************************************************************************)
\* A packet to the server; k is a trade slot and s an inventory index.
Packet(type, v, k, s) == [type |-> type, to |-> v, slot |-> k, idx |-> s]

Says(u, type, v) == up' = [up EXCEPT ![u] = Append(@, Packet(type, v, 0, 0))]

Counts(what) ==
    /\ count' = [count EXCEPT ![what] = @ + 1]
    /\ \E most \in Limits : \A w \in DOMAIN most : count'[w] <= most[w]

\* SendCliTradeReq; the menus that lead to it look at no open dialog.
AskTrade(u, v) ==
    /\ u # v /\ {u, v} \subseteq present
    /\ Counts("ask")
    /\ Says(u, "request", v)
    /\ UNCHANGED <<goods, trade, present, down, dialog, asked, saw, upset>>

\* CTCmdAcceptTradeReq: the dialog is open before the server knows.
AcceptAsked(u) ==
    /\ u \in present
    /\ asked[u] # null
    /\ asked' = [asked EXCEPT ![u] = null]
    /\ IF asked[u] \in present
       THEN /\ Says(u, "accept", asked[u])
            /\ dialog' = [dialog EXCEPT ![u] = Opened(asked[u])]
            /\ saw' = [saw EXCEPT ![u] = NotYet]
       ELSE UNCHANGED <<up, dialog, saw>>
    /\ UNCHANGED <<goods, trade, present, down, upset, count>>

RejectAsked(u) ==
    /\ u \in present
    /\ asked[u] # null
    /\ Says(u, "reject", asked[u])
    /\ asked' = [asked EXCEPT ![u] = null]
    /\ UNCHANGED <<goods, trade, present, down, dialog, saw, upset, count>>

MayChange(u) == u \in present /\ dialog[u].with # null /\ ~dialog[u].readyMe

\* AddMyItem: to the first free trade slot, and no item twice.
AddMyItem(u, s) ==
    /\ MayChange(u)
    /\ inv[u][s] # null
    /\ \A k \in TradeSlot : dialog[u].mine[k].idx # s
    /\ \E k \in TradeSlot :
          /\ dialog[u].mine[k] = NoItem
          /\ \A j \in 1 .. k - 1 : dialog[u].mine[j] # NoItem
          /\ dialog' = [dialog EXCEPT ![u].mine[k] = [item |-> inv[u][s], idx |-> s]]
          /\ up' = [up EXCEPT ![u] = Append(@, Packet("put", null, k, s))]
    /\ Counts("change")
    /\ UNCHANGED <<goods, trade, present, down, asked, saw, upset>>

RemoveMyItem(u, k) ==
    /\ MayChange(u)
    /\ dialog[u].mine[k] # NoItem
    /\ dialog' = [dialog EXCEPT ![u].mine[k] = NoItem]
    /\ up' = [up EXCEPT ![u] = Append(@, Packet("take", null, k, dialog[u].mine[k].idx))]
    /\ Counts("change")
    /\ UNCHANGED <<goods, trade, present, down, asked, saw, upset>>

\* The button to confirm takes the place of the one to be ready once both are, and
\* stays.
IsReadyAll(u) == dialog[u].readyMe /\ dialog[u].readyOther

\* Every press is sent, also when u is ready already.
PressReady(u) ==
    /\ u \in present
    /\ dialog[u].with # null
    /\ ~IsReadyAll(u)
    /\ IF dialog[u].readyMe THEN Counts("again") ELSE UNCHANGED count
    /\ Says(u, "ready", dialog[u].with)
    /\ dialog' = [dialog EXCEPT ![u].readyMe = TRUE]
    /\ UNCHANGED <<goods, trade, present, down, asked, saw, upset>>

\* What u's dialog shows: the items it gives and those it gets.
Shown(u) ==
    [mine |-> {dialog[u].mine[k].item : k \in TradeSlot} \ {null},
     theirs |-> {dialog[u].theirs[k] : k \in TradeSlot} \ {null},
     confirmed |-> TRUE]

PressDone(u) ==
    /\ u \in present
    /\ dialog[u].with # null
    /\ IsReadyAll(u)
    /\ Counts("done")
    /\ Says(u, "done", dialog[u].with)
    /\ saw' = [saw EXCEPT ![u] = Shown(u)]
    /\ UNCHANGED <<goods, trade, present, down, dialog, asked, upset>>

\* The dialog's close button.
CloseDialog(u) ==
    /\ u \in present
    /\ dialog[u].with # null
    /\ Says(u, "cancel", dialog[u].with)
    /\ dialog' = [dialog EXCEPT ![u] = Opened(null)]
    /\ UNCHANGED <<goods, trade, present, down, asked, saw, upset, count>>

-----------------------------------------------------------------------------
(***************************************************************************)
(* The channel server: Recv_cli_TRADE_P2P and Recv_cli_TRADE_P2P_ITEM.     *)
(***************************************************************************)
\* A packet to a client, about user v.
Notice(type, v, k, i) == [type |-> type, from |-> v, slot |-> k, item |-> i]

Arrives(u, type) ==
    /\ up[u] # <<>> /\ Head(up[u]).type = type
    /\ up' = [up EXCEPT ![u] = Tail(@)]

Target(u) == Head(up[u]).to

Relay(u, v, type, k) == down' = [down EXCEPT ![v] = Append(@, Notice(type, u, k, null))]

Mutual(u, v) == trade[u].partner = v /\ trade[v].partner = u

Parted(t) == [t EXCEPT !.partner = null, !.bits = {}]

\* Every packet but those of offers: its target has gone.
HandleNoTarget(u) ==
    /\ \E type \in {"request", "accept", "reject", "cancel", "ready", "done", "out"} :
          Arrives(u, type)
    /\ Target(u) \notin present
    /\ trade' = [trade EXCEPT ![u] = Parted(@)]
    /\ UNCHANGED <<goods, present, down, client, count, upset>>

\* It fails when the other one is busy, out of reach or in a state of IsIgnoreSTATUS.
HandleRequest(u) ==
    /\ Arrives(u, "request")
    /\ LET v == Target(u)
       IN  /\ v \in present
           /\ \/ /\ trade[v].partner = null
                 /\ trade' = [trade EXCEPT ![u].partner = v, ![u].bits = {}]
                 /\ Relay(u, v, "request", 0)
              \/ UNCHANGED <<trade, down>>
    /\ UNCHANGED <<goods, present, client, count, upset>>

Begun(t, v) == [partner |-> v, bits |-> {}, offer |-> NoOffer]

\* u, who has asked v, is done with its earlier exchanges, and nothing of them is
\* on its way or shown by v's new dialog.
Quiet(u, v) ==
    /\ dialog[u].with = null
    /\ up[u] = <<>> /\ down[u] = <<>> /\ down[v] = <<>>
    /\ dialog[v].with = u /\ ~dialog[v].readyOther /\ dialog[v].theirs = Nothing

\* ignored: one of the two is in a state of IsIgnoreSTATUS.
HandleAccept(u) ==
    /\ Arrives(u, "accept")
    /\ LET v == Target(u)
       IN  /\ v \in present
           /\ \/ /\ trade[v].partner # u
                 /\ Relay(v, u, "cancel", 0)
                 /\ UNCHANGED <<trade, upset>>
              \/ /\ trade[v].partner = u
                 /\ trade' = [trade EXCEPT ![u] = Begun(@, v), ![v] = Begun(@, u)]
                 /\ upset' = IF Quiet(v, u) THEN upset \ {u, v}
                             ELSE upset \cup {u, v}
                 /\ Relay(u, v, "accept", 0)
              \/ /\ trade[v].partner = u  \* ignored
                 /\ UNCHANGED <<trade, down, upset>>
    /\ UNCHANGED <<goods, present, client, count>>

\* REJECT and CANCEL do the same, but only the second closes a dialog.
HandleCancel(u) ==
    /\ Arrives(u, "cancel") \/ Arrives(u, "reject")
    /\ LET v == Target(u)
       IN  /\ v \in present
           /\ trade' = [trade EXCEPT
                 ![v] = IF trade[v].partner = u THEN Parted(@) ELSE @,
                 ![u] = Parted(@)]
           /\ IF Head(up[u]).type = "cancel" THEN Relay(u, v, "cancel", 0)
              ELSE UNCHANGED down
    /\ UNCHANGED <<goods, present, client, count, upset>>

\* Whatever the target's own partner is.
HandleReady(u) ==
    /\ Arrives(u, "ready")
    /\ Target(u) \in present
    /\ trade' = [trade EXCEPT ![u].bits = @ \cup {"ready"}]
    /\ Relay(u, Target(u), "ready", 0)
    /\ UNCHANGED <<goods, present, client, count, upset>>

\* The refused item loses its type, but its number stays in the slot.
HandleOut(u) ==
    /\ Arrives(u, "out")
    /\ LET v == Target(u)
           k == Head(up[u]).slot
       IN  /\ v \in present
           /\ trade' = [trade EXCEPT ![v].offer[k].typed = FALSE]
           /\ upset' = IF trade[v].offer[k].typed THEN upset \cup {v} ELSE upset
           /\ Relay(u, v, "out", k)
    /\ UNCHANGED <<goods, present, client, count>>

-----------------------------------------------------------------------------
\* What is left of a user that is cut off: nothing but its items.
Gone(u) ==
    /\ present' = present \ {u}
    /\ trade' = [trade EXCEPT ![u] = NoTrade]
    /\ up' = [up EXCEPT ![u] = <<>>]
    /\ down' = [down EXCEPT ![u] = <<>>]
    /\ dialog' = [dialog EXCEPT ![u] = Opened(null)]
    /\ asked' = [asked EXCEPT ![u] = null]
    /\ UNCHANGED <<goods, saw, upset>>

Offers(u, k, i) ==
    down' = [down EXCEPT ![trade[u].partner] = Append(@, Notice("offer", u, k, i))]

\* Nothing is laid down or taken back without a partner, when ready, or in a state of
\* IsIgnoreSTATUS.
HandleUnoffered(u) ==
    /\ Arrives(u, "put") \/ Arrives(u, "take")
    /\ \/ UNCHANGED trade  \* IsIgnoreSTATUS
       \/ /\ trade[u].bits = {}
          /\ \A v \in present : ~Mutual(u, v)
          /\ trade' = [trade EXCEPT ![u].partner = null]
    /\ upset' = IF Head(up[u]).type = "take" /\ trade[u].offer[Head(up[u]).slot].typed
                THEN upset \cup {u} ELSE upset
    /\ UNCHANGED <<goods, present, down, client, count>>

\* An index that any slot has had last, or a slot that is not empty: IS_HACKING.
Suspect(u, k, s) ==
    \/ \E j \in TradeSlot : trade[u].offer[j].idx = s
    \/ trade[u].offer[k].item # null

\* Mutant of NothingAt: the item is taken to be where the client saw it.
NothingAtNever(u, s) == FALSE

NothingAt(u, s) == inv[u][s] = null

HandlePut(u) ==
    /\ up[u] # <<>> /\ Head(up[u]).type = "put"
    /\ trade[u].bits = {}
    /\ \E v \in present : Mutual(u, v)
    /\ LET k == Head(up[u]).slot
           s == Head(up[u]).idx
       IN  IF Suspect(u, k, s) THEN Gone(u) /\ UNCHANGED count
           ELSE /\ Arrives(u, "put")
                /\ IF NothingAt(u, s) THEN UNCHANGED <<trade, down>>
                   ELSE /\ trade' = [trade EXCEPT ![u].offer[k] =
                               [item |-> inv[u][s], typed |-> TRUE, idx |-> s]]
                        /\ Offers(u, k, inv[u][s])
                /\ UNCHANGED <<goods, present, client, count, upset>>

\* The slot is empty again, but keeps the index.
HandleTake(u) ==
    /\ Arrives(u, "take")
    /\ trade[u].bits = {}
    /\ \E v \in present : Mutual(u, v)
    /\ LET k == Head(up[u]).slot
       IN  /\ trade' = [trade EXCEPT ![u].offer[k] =
                  [item |-> null, typed |-> FALSE, idx |-> Head(up[u]).idx]]
           /\ Offers(u, k, null)
    /\ UNCHANGED <<goods, present, client, count, upset>>

-----------------------------------------------------------------------------
(***************************************************************************)
(* The channel server: RESULT_TRADE_DONE.                                  *)
(***************************************************************************)
Agreed == {"ready", "done"}

Offered(u) == {trade[u].offer[k].item : k \in {j \in TradeSlot : trade[u].offer[j].typed}}

\* Mutant of CheckTradeItem: what is offered is taken on trust.
CheckTradeItemNot(u) == TRUE

\* What is offered is still where it was.
CheckTradeItem(u) ==
    \A k \in TradeSlot : trade[u].offer[k].typed =>
        inv[u][trade[u].offer[k].idx] = trade[u].offer[k].item

Free(bag) == {s \in InvIdx : bag[s] = null}

FirstOf(S) == CHOOSE s \in S : \A t \in S : s <= t

\* RemoveTradeItemFromINV.
Removed(bag, offer) ==
    [s \in InvIdx |->
        IF \E k \in TradeSlot : offer[k].typed /\ offer[k].idx = s THEN null ELSE bag[s]]

\* AddTradeItemToINV: what does not fit is laid on the ground.
Received(bag, offer) ==
    LET added[k \in 0 .. NTrade] ==
            IF k = 0 THEN [bag |-> bag, rest |-> {}]
            ELSE LET before == added[k - 1]
                 IN  IF ~offer[k].typed THEN before
                     ELSE IF Free(before.bag) = {}
                          THEN [before EXCEPT !.rest = @ \cup {offer[k].item}]
                          ELSE [before EXCEPT !.bag[FirstOf(Free(before.bag))] = offer[k].item]
    IN  added[NTrade]

\* Save_ItemToFILED.
Dropped(rest) == ground \cup rest

Both(u, v, type) ==
    down' = [down EXCEPT ![u] = Append(@, Notice(type, v, 0, null)),
                         ![v] = Append(@, Notice(type, u, 0, null))]

BothParted(u, v) == trade' = [trade EXCEPT ![u] = Parted(@), ![v] = Parted(@)]

\* The two do not trade with each other; the other one, who is parted too, whoever
\* its partner is, is not told.
HandleDoneAlone(u) ==
    /\ Arrives(u, "done")
    /\ LET v == Target(u)
       IN  /\ v \in present
           /\ ~Mutual(u, v)
           /\ BothParted(u, v)
           /\ Relay(v, u, "cancel", 0)
    /\ UNCHANGED <<goods, present, client, count, upset>>

HandleDoneFirst(u) ==
    /\ Arrives(u, "done")
    /\ LET v == Target(u)
       IN  /\ v \in present
           /\ Mutual(u, v)
           /\ trade[v].bits # Agreed \/ trade[u].bits \cup {"done"} # Agreed
           /\ trade' = [trade EXCEPT ![u].bits = @ \cup {"done"}]
    /\ UNCHANGED <<goods, present, down, client, count, upset>>

\* Mutant of BothAgreed: the other one need not have confirmed.
OneAgreed(u, v) == Mutual(u, v) /\ "ready" \in trade[u].bits \cap trade[v].bits

BothAgreed(u, v) ==
    Mutual(u, v) /\ trade[v].bits = Agreed /\ trade[u].bits \cup {"done"} = Agreed

\* An item is not there any more, or one of the two is in a state of IsIgnoreSTATUS.
HandleDoneFails(u) ==
    /\ Arrives(u, "done")
    /\ LET v == Target(u)
       IN  /\ v \in present
           /\ BothAgreed(u, v)
           /\ BothParted(u, v)
           /\ Both(u, v, "cancel")
    /\ UNCHANGED <<goods, present, client, count, upset>>

HandleDoneBoth(u) ==
    /\ Arrives(u, "done")
    /\ LET v == Target(u)
           mine == Received(Removed(inv[u], trade[u].offer), trade[v].offer)
           theirs == Received(Removed(inv[v], trade[v].offer), trade[u].offer)
       IN  /\ v \in present
           /\ BothAgreed(u, v)
           /\ CheckTradeItem(u) /\ CheckTradeItem(v)
           /\ inv' = [inv EXCEPT ![u] = mine.bag, ![v] = theirs.bag]
           /\ ground' = Dropped(mine.rest \cup theirs.rest)
           /\ BothParted(u, v)
           /\ Both(u, v, "done")
    /\ UNCHANGED <<consumed, present, client, count, upset>>

-----------------------------------------------------------------------------
(***************************************************************************)
(* The inventory in the meantime.  What leaves it also leaves the client's *)
(* dialog, which does not tell the server.                                 *)
(***************************************************************************)
Leaves(u, s) ==
    /\ u \in present /\ inv[u][s] # null
    /\ inv' = [inv EXCEPT ![u][s] = null]
    /\ down' = [down EXCEPT ![u] = Append(@, Notice("removed", null, s, null))]
    /\ upset' = IF inv[u][s] \in Offered(u) THEN upset \cup {u} ELSE upset
    /\ Counts("move")
    /\ UNCHANGED <<trade, present, up, client>>

\* Recv_cli_USE_ITEM asks for no trade.
UseItem(u, s) ==
    /\ Leaves(u, s)
    /\ consumed' = consumed \cup {inv[u][s]}
    /\ UNCHANGED ground

\* Recv_cli_DROP_ITEM is refused to who is ready.
DropItem(u, s) ==
    /\ Leaves(u, s)
    /\ trade[u].bits = {}
    /\ ground' = ground \cup {inv[u][s]}
    /\ UNCHANGED consumed

PickUp(u, i) ==
    /\ u \in present /\ i \in ground
    /\ Free(inv[u]) # {}
    /\ inv' = [inv EXCEPT ![u][FirstOf(Free(inv[u]))] = i]
    /\ ground' = ground \ {i}
    /\ Counts("move")
    /\ UNCHANGED <<consumed, trade, present, up, down, client, upset>>

-----------------------------------------------------------------------------
(***************************************************************************)
(* What a client makes of a packet.                                        *)
(***************************************************************************)
Receives(u, type) ==
    /\ down[u] # <<>> /\ Head(down[u]).type = type
    /\ down' = [down EXCEPT ![u] = Tail(@)]

Notified(u) == Head(down[u])

\* A message box, unless the dialog or another box is open, or the user wants none:
\* then BUSY is sent, which the server only relays.
ReceiveRequest(u) ==
    /\ Receives(u, "request")
    /\ \/ UNCHANGED asked
       \/ /\ dialog[u].with = null /\ asked[u] = null
          /\ asked' = [asked EXCEPT ![u] = Notified(u).from]
    /\ UNCHANGED <<goods, trade, present, up, dialog, saw, upset, count>>

ReceiveAccept(u) ==
    /\ Receives(u, "accept")
    /\ IF Notified(u).from \in present
       THEN /\ dialog' = [dialog EXCEPT ![u] = Opened(Notified(u).from)]
            /\ saw' = [saw EXCEPT ![u] = NotYet]
       ELSE UNCHANGED <<dialog, saw>>
    /\ UNCHANGED <<goods, trade, present, up, asked, upset, count>>

\* Whoever it comes from.
ReceiveEnd(u) ==
    /\ Receives(u, "cancel") \/ Receives(u, "done")
    /\ dialog' = [dialog EXCEPT ![u] = Opened(null)]
    /\ UNCHANGED <<goods, trade, present, up, asked, saw, upset, count>>

ReceiveReady(u) ==
    /\ Receives(u, "ready")
    /\ dialog' = [dialog EXCEPT ![u].readyOther = TRUE]
    /\ UNCHANGED <<goods, trade, present, up, asked, saw, upset, count>>

ReceiveOut(u) ==
    /\ Receives(u, "out")
    /\ LET k == Notified(u).slot
       IN  IF dialog[u].mine[k] = NoItem THEN UNCHANGED <<up, dialog>>
           ELSE /\ up' = [up EXCEPT ![u] =
                     Append(@, Packet("take", null, k, dialog[u].mine[k].idx))]
                /\ dialog' = [dialog EXCEPT ![u].mine[k] = NoItem]
    /\ UNCHANGED <<goods, trade, present, asked, saw, upset, count>>

\* UpdateOtherItem: an item that does not fit is shown, and refused.
ReceiveOffer(u) ==
    /\ Receives(u, "offer")
    /\ LET k == Notified(u).slot
           i == Notified(u).item
           shows == i # null /\ dialog[u].theirs[k] = null
       IN  /\ dialog' = IF i = null \/ shows
                        THEN [dialog EXCEPT ![u].theirs[k] = i] ELSE dialog
           /\ IF shows /\ Free(inv[u]) = {}
              THEN up' = [up EXCEPT ![u] = Append(@, Packet("out", dialog[u].with, k, 0))]
              ELSE UNCHANGED up
    /\ UNCHANGED <<goods, trade, present, asked, saw, upset, count>>

ReceiveRemoved(u) ==
    /\ Receives(u, "removed")
    /\ dialog' = [dialog EXCEPT ![u].mine = [k \in TradeSlot |->
            IF @[k].idx = Notified(u).slot THEN NoItem ELSE @[k]]]
    /\ UNCHANGED <<goods, trade, present, up, asked, saw, upset, count>>

-----------------------------------------------------------------------------
\* A user is cut off, or leaves the game.
Quit(u) == u \in present /\ Counts("quit") /\ Gone(u)

Handle(u) ==
    \/ HandleNoTarget(u) \/ HandleRequest(u) \/ HandleAccept(u) \/ HandleCancel(u)
    \/ HandleReady(u) \/ HandleOut(u) \/ HandleUnoffered(u) \/ HandlePut(u)
    \/ HandleTake(u) \/ HandleDoneAlone(u) \/ HandleDoneFirst(u)
    \/ HandleDoneFails(u) \/ HandleDoneBoth(u)

Receive(u) ==
    \/ ReceiveRequest(u) \/ ReceiveAccept(u) \/ ReceiveEnd(u) \/ ReceiveReady(u)
    \/ ReceiveOut(u) \/ ReceiveOffer(u) \/ ReceiveRemoved(u)

Act(u) ==
    \/ \E v \in User : AskTrade(u, v)
    \/ AcceptAsked(u) \/ RejectAsked(u)
    \/ \E s \in InvIdx : AddMyItem(u, s) \/ UseItem(u, s) \/ DropItem(u, s)
    \/ \E k \in TradeSlot : RemoveMyItem(u, k)
    \/ PressReady(u) \/ PressDone(u) \/ CloseDialog(u)
    \/ \E i \in Item : PickUp(u, i)
    \/ Quit(u)

Next == \E u \in User : Handle(u) \/ Receive(u) \/ Act(u)

Spec == Init /\ [][Next]_vars

-----------------------------------------------------------------------------
(***************************************************************************)
(* Properties                                                              *)
(***************************************************************************)
TypeOK ==
    /\ inv \in [User -> [InvIdx -> Item \cup {null}]]
    /\ ground \subseteq Item /\ consumed \subseteq Item
    /\ present \subseteq User /\ upset \subseteq User
    /\ \A u \in User :
          /\ trade[u].partner \in (User \cup {null}) \ {u}
          /\ trade[u].bits \subseteq Agreed
          /\ trade[u].offer \in [TradeSlot -> [item : Item \cup {null}, typed : BOOLEAN,
                                               idx : 0 .. NInv]]
          /\ \A k \in TradeSlot : trade[u].offer[k].typed =>
                trade[u].offer[k].item # null /\ trade[u].offer[k].idx # 0
          /\ dialog[u].with \in (User \cup {null}) \ {u}
          /\ dialog[u].mine \in [TradeSlot -> [item : Item \cup {null}, idx : 0 .. NInv]]
          /\ dialog[u].theirs \in [TradeSlot -> Item \cup {null}]
          /\ asked[u] \in User \cup {null}
          /\ saw[u].mine \cup saw[u].theirs \subseteq Item

\* Every item is in one place: an inventory, the ground, or used up, however an
\* exchange is begun, changed, confirmed or broken off.
Conserved ==
    /\ Injective(inv)
    /\ Carried(inv) \cup ground \cup consumed = Item
    /\ ground \cap consumed = {}
    /\ Carried(inv) \cap (ground \cup consumed) = {}

\* What w gives is what its own dialog and that of the other one, o, showed when
\* they confirmed.
AsShown(w, o) ==
    /\ Offered(w) \subseteq saw[w].mine
    /\ Offered(w) = saw[o].theirs

\* An exchange that is carried out is one both users have confirmed, and gives each what
\* its dialog showed for what its dialog showed, over all interleavings of two clients'
\* and the server's packets.  Except (upset) for an item that was refused after it had
\* been shown, left the inventory it was offered from, or was taken back when the
\* server did not listen, and for an exchange that began before an earlier one's
\* packets had all arrived.
TradeAsConfirmed ==
    [][\A u \in User : HandleDoneBoth(u) =>
          LET v == Target(u)
          IN  /\ u \notin upset => saw[u].confirmed /\ AsShown(u, v)
              /\ v \notin upset => saw[v].confirmed /\ AsShown(v, u)]_vars

\* "1:1거래중 아이템 드롭 금지" (gs_user.cpp:3799): no item is dropped in a trade, so
\* that an exchange is always as both dialogs showed it.
TradeAsShown ==
    [][\A u \in User : HandleDoneBoth(u) =>
          AsShown(u, Target(u)) /\ AsShown(Target(u), u)]_vars

\* The clients' packets are never taken for a manipulation.
HonestUsersStay == [][\A u \in User : HandlePut(u) => u \in present']_vars

=============================================================================
