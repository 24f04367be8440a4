---------------------------- MODULE Trade_proofs -----------------------------
(***************************************************************************)
(* Theorems about Trade, for any number of users, items, inventory places  *)
(* and trade slots and without bounds on what users do: types, and that no *)
(* item is copied or lost, however exchanges are begun, changed, confirmed *)
(* or broken off.                                                          *)
(***************************************************************************)
EXTENDS Trade, NaturalSets, SequenceTheorems, TLAPS

-----------------------------------------------------------------------------
(***************************************************************************)
(* AddTradeItemToINV: the recursion of Received, one trade slot after the  *)
(* other.                                                                  *)
(***************************************************************************)

\* One trade slot is laid into the inventory, or beside it.
Laid(before, o) ==
    IF ~o.typed THEN before
    ELSE IF Free(before.bag) = {}
         THEN [before EXCEPT !.rest = @ \cup {o.item}]
         ELSE [before EXCEPT !.bag[FirstOf(Free(before.bag))] = o.item]

\* added is the function Received defines, on its first n + 1 places.
Filled(bag, offer, n, added) ==
    added = [k \in 0 .. n |-> IF k = 0 THEN [bag |-> bag, rest |-> {}]
                              ELSE Laid(added[k - 1], offer[k])]

\* There is such a function, for any number of places.
LEMMA FilledExists ==
    ASSUME NEW bag, NEW offer, NEW n \in Nat
    PROVE  \E added : Filled(bag, offer, n, added)
  <1> DEFINE S == {m \in Nat : \E added : Filled(bag, offer, m, added)}
  <1>1. 0 \in S
    <2>1. PICK a : a = [k \in 0 .. 0 |-> [bag |-> bag, rest |-> {}]]
      OBVIOUS
    <2>2. Filled(bag, offer, 0, a)
      BY <2>1 DEF Filled
    <2> QED
      BY <2>2
  <1>2. ASSUME NEW m \in Nat, m \in S PROVE m + 1 \in S
    <2>1. PICK a : Filled(bag, offer, m, a)
      BY <1>2
    <2>2. PICK b : b = [k \in 0 .. m + 1 |-> IF k \in 0 .. m THEN a[k]
                                             ELSE Laid(a[m], offer[m + 1])]
      OBVIOUS
    <2>3. ASSUME NEW k \in 0 .. m + 1
          PROVE  b[k] = IF k = 0 THEN [bag |-> bag, rest |-> {}]
                        ELSE Laid(b[k - 1], offer[k])
      <3>1. CASE k = 0
        BY <2>1, <2>2, <3>1 DEF Filled
      <3>2. CASE k \in 1 .. m
        <4>1. k \in 0 .. m /\ k - 1 \in 0 .. m + 1 /\ k - 1 \in 0 .. m /\ k # 0
          BY <3>2
        <4>2. b[k] = a[k] /\ b[k - 1] = a[k - 1]
          BY <2>2, <4>1
        <4>3. a[k] = Laid(a[k - 1], offer[k])
          BY <2>1, <4>1 DEF Filled
        <4> QED
          BY <4>1, <4>2, <4>3
      <3>3. CASE k = m + 1
        BY <2>2, <3>3
      <3> QED
        BY <3>1, <3>2, <3>3
    <2>4. Filled(bag, offer, m + 1, b)
      BY <2>2, <2>3 DEF Filled
    <2> QED
      BY <2>4
  <1> HIDE DEF S
  <1>3. n \in S
    BY <1>1, <1>2, NatSetInduction
  <1> QED
    BY <1>3 DEF S

\* So Received is the last value of one.
LEMMA ReceivedDef ==
    ASSUME NEW bag, NEW offer
    PROVE  \E added : Filled(bag, offer, NTrade, added) /\ Received(bag, offer) = added[NTrade]
  <1>1. NTrade \in Nat
    BY TradeAssumption
  <1>2. \E added : Filled(bag, offer, NTrade, added)
    BY <1>1, FilledExists
  <1>3. Filled(bag, offer, NTrade, CHOOSE added : Filled(bag, offer, NTrade, added))
    BY <1>2
  <1>4. Received(bag, offer) = (CHOOSE added : Filled(bag, offer, NTrade, added))[NTrade]
    BY DEF Received, Filled, Laid
  <1> QED
    BY <1>3, <1>4

Bag == [InvIdx -> Item \cup {null}]
TradeSlotData == [item : Item \cup {null}, typed : BOOLEAN, idx : 0 .. NInv]

In(bag, i) == \E s \in InvIdx : bag[s] = i
OneOne(bag) == \A s, t \in InvIdx : bag[s] = bag[t] /\ bag[s] # null => s = t
Off(offer, i) == \E k \in TradeSlot : offer[k].typed /\ offer[k].item = i

\* The first free place is a free place.
LEMMA FirstFree ==
    ASSUME NEW bag, Free(bag) # {}
    PROVE  FirstOf(Free(bag)) \in InvIdx /\ bag[FirstOf(Free(bag))] = null
  <1>1. Free(bag) \in SUBSET Nat
    BY DEF Free, InvIdx
  <1>2. \E m \in Free(bag) : \A n \in Free(bag) : m <= n
    BY <1>1, LeastNumber
  <1>3. FirstOf(Free(bag)) \in Free(bag)
    BY <1>2 DEF FirstOf
  <1> QED
    BY <1>3 DEF Free

\* Laying down one item keeps what was there and adds the item.
LEMMA LaidFacts ==
    ASSUME NEW b \in [bag : Bag, rest : SUBSET Item], OneOne(b.bag),
           \A i \in Item : ~ (In(b.bag, i) /\ i \in b.rest),
           NEW o \in TradeSlotData, o.typed,
           o.item \in Item, ~In(b.bag, o.item), o.item \notin b.rest
    PROVE  LET l == Laid(b, o)
           IN  /\ l \in [bag : Bag, rest : SUBSET Item]
               /\ OneOne(l.bag)
               /\ \A i \in Item : ~ (In(l.bag, i) /\ i \in l.rest)
               /\ \A i \in Item : In(l.bag, i) \/ i \in l.rest
                                   <=> In(b.bag, i) \/ i \in b.rest \/ i = o.item
  <1>1. b.bag \in Bag /\ null \notin Item
    BY TradeAssumption
  <1>2. CASE Free(b.bag) = {}
    <2>1. Laid(b, o) = [b EXCEPT !.rest = @ \cup {o.item}]
      BY <1>2 DEF Laid
    <2>2. /\ Laid(b, o) \in [bag : Bag, rest : SUBSET Item]
          /\ Laid(b, o).bag = b.bag /\ Laid(b, o).rest = b.rest \cup {o.item}
      BY <2>1
    <2> QED
      BY <2>2
  <1>3. CASE Free(b.bag) # {}
    <2>1. PICK s \in InvIdx : s = FirstOf(Free(b.bag)) /\ b.bag[s] = null
      BY <1>3, FirstFree
    <2>2. PICK new : new = [b.bag EXCEPT ![s] = o.item]
      OBVIOUS
    <2>3. Laid(b, o) = [b EXCEPT !.bag = new]
      BY <1>3, <2>1, <2>2 DEF Laid
    <2>4. /\ new \in Bag
          /\ \A t \in InvIdx : new[t] = IF t = s THEN o.item ELSE b.bag[t]
      BY <1>1, <2>2 DEF Bag
    <2>5. /\ Laid(b, o) \in [bag : Bag, rest : SUBSET Item]
          /\ Laid(b, o).bag = new /\ Laid(b, o).rest = b.rest
      BY <2>3, <2>4
    <2>6. OneOne(new)
      BY <1>1, <2>4 DEF OneOne, In
    <2>7. \A i \in Item : In(new, i) <=> In(b.bag, i) \/ i = o.item
      BY <1>1, <2>1, <2>4 DEF In
    <2> QED
      BY <2>5, <2>6, <2>7
  <1> QED
    BY <1>2, <1>3

(***************************************************************************)
(* What AddTradeItemToINV adds to an inventory is what is offered: each    *)
(* item once, and no item that was there is overwritten.                   *)
(***************************************************************************)
LEMMA ReceivedFacts ==
    ASSUME NEW bag \in Bag, OneOne(bag),
           NEW offer \in [TradeSlot -> TradeSlotData],
           \A k \in TradeSlot : offer[k].typed => offer[k].item \in Item,
           \A j, k \in TradeSlot :
              offer[j].typed /\ offer[k].typed /\ offer[j].item = offer[k].item => j = k,
           \A i \in Item : ~ (In(bag, i) /\ Off(offer, i))
    PROVE  LET r == Received(bag, offer)
           IN  /\ r \in [bag : Bag, rest : SUBSET Item]
               /\ OneOne(r.bag)
               /\ \A i \in Item : ~ (In(r.bag, i) /\ i \in r.rest)
               /\ \A i \in Item : In(r.bag, i) \/ i \in r.rest
                                   <=> In(bag, i) \/ Off(offer, i)
  <1>1. PICK added : Filled(bag, offer, NTrade, added) /\ Received(bag, offer) = added[NTrade]
    BY ReceivedDef
  <1> DEFINE Before(k, i) == \E j \in TradeSlot : j <= k /\ offer[j].typed /\ offer[j].item = i
             Good(k) == /\ added[k] \in [bag : Bag, rest : SUBSET Item]
                        /\ OneOne(added[k].bag)
                        /\ \A i \in Item : ~ (In(added[k].bag, i) /\ i \in added[k].rest)
                        /\ \A i \in Item : In(added[k].bag, i) \/ i \in added[k].rest
                                            <=> In(bag, i) \/ Before(k, i)
             S == {k \in Nat : k <= NTrade => Good(k)}
  <1>2. NTrade \in Nat /\ 0 <= NTrade
    BY TradeAssumption
  <1>step. \A n \in 0 .. NTrade : n # 0 => added[n] = Laid(added[n - 1], offer[n])
    BY <1>1 DEF Filled
  <1>3. 0 \in S
    <2>1. added[0] = [bag |-> bag, rest |-> {}]
      BY <1>1, <1>2 DEF Filled
    <2>2. \A i : ~Before(0, i)
      BY <1>2 DEF TradeSlot
    <2> QED
      BY <2>1, <2>2
  <1>4. ASSUME NEW k \in Nat, k \in S PROVE k + 1 \in S
    <2> SUFFICES ASSUME k + 1 <= NTrade PROVE Good(k + 1)
      OBVIOUS
    <2>1. /\ k + 1 \in TradeSlot /\ k + 1 \in 0 .. NTrade /\ k + 1 # 0 /\ (k + 1) - 1 = k
          /\ Good(k)
      BY <1>2, <1>4 DEF TradeSlot
    <2>2. added[k + 1] = Laid(added[k], offer[k + 1])
      BY <1>step, <2>1
    <2>3. \A i : Before(k + 1, i)
                    <=> Before(k, i) \/ (offer[k + 1].typed /\ offer[k + 1].item = i)
      BY <1>2, <2>1 DEF TradeSlot
    <2>4. CASE ~offer[k + 1].typed
      <3>1. added[k + 1] = added[k]
        BY <2>2, <2>4 DEF Laid
      <3> QED
        BY <2>1, <2>3, <2>4, <3>1
    <2>5. CASE offer[k + 1].typed
      <3>1. offer[k + 1] \in TradeSlotData /\ offer[k + 1].item \in Item
        BY <2>1, <2>5
      <3>2. ~In(bag, offer[k + 1].item)
        BY <2>1, <2>5, <3>1 DEF Off
      <3>3. ~Before(k, offer[k + 1].item)
        BY <2>1, <2>5 DEF TradeSlot
      <3>4. ~In(added[k].bag, offer[k + 1].item) /\ offer[k + 1].item \notin added[k].rest
        BY <2>1, <3>1, <3>2, <3>3
      <3>5. PICK l : l = Laid(added[k], offer[k + 1])
        OBVIOUS
      <3>6. /\ l \in [bag : Bag, rest : SUBSET Item]
            /\ OneOne(l.bag)
            /\ \A i \in Item : ~ (In(l.bag, i) /\ i \in l.rest)
            /\ \A i \in Item : In(l.bag, i) \/ i \in l.rest
                   <=> In(added[k].bag, i) \/ i \in added[k].rest \/ i = offer[k + 1].item
        BY <2>1, <2>5, <3>1, <3>4, <3>5, LaidFacts
      <3> HIDE DEF Before
      <3> QED
        BY <2>1, <2>2, <2>3, <2>5, <3>5, <3>6
    <2> QED
      BY <2>4, <2>5
  <1>5. Good(NTrade)
    <2> HIDE DEF Good
    <2>1. \A k \in Nat : k \in S
      <3> HIDE DEF S
      <3> QED
        BY <1>3, <1>4, NatSetInduction
    <2> QED
      BY <1>2, <2>1
  <1>6. \A i : Before(NTrade, i) <=> Off(offer, i)
    BY <1>2 DEF TradeSlot, Off
  <1> QED
    BY <1>1, <1>5, <1>6

\* What is offered and still there leaves the inventory, and nothing else.
LEMMA RemovedFacts ==
    ASSUME NEW bag \in Bag, OneOne(bag),
           NEW offer \in [TradeSlot -> TradeSlotData],
           \A k \in TradeSlot : offer[k].typed =>
              /\ offer[k].item \in Item
              /\ offer[k].idx \in InvIdx /\ bag[offer[k].idx] = offer[k].item
    PROVE  /\ Removed(bag, offer) \in Bag
           /\ OneOne(Removed(bag, offer))
           /\ \A i \in Item : In(Removed(bag, offer), i) <=> In(bag, i) /\ ~Off(offer, i)
           /\ \A i \in Item : Off(offer, i) => In(bag, i)
  <1>1. null \notin Item
    BY TradeAssumption
  <1>2. PICK left : left = Removed(bag, offer)
    OBVIOUS
  <1>3. /\ left \in Bag
        /\ \A s \in InvIdx : left[s] = IF \E k \in TradeSlot : offer[k].typed /\ offer[k].idx = s
                                        THEN null ELSE bag[s]
    BY <1>2 DEF Removed, Bag
  <1>4. OneOne(left)
    BY <1>3 DEF OneOne
  <1>5. ASSUME NEW i \in Item PROVE In(left, i) <=> In(bag, i) /\ ~Off(offer, i)
    <2>1. ASSUME In(left, i) PROVE In(bag, i) /\ ~Off(offer, i)
      <3>1. PICK s \in InvIdx : left[s] = i
        BY <2>1 DEF In
      <3>2. bag[s] = i /\ ~ \E k \in TradeSlot : offer[k].typed /\ offer[k].idx = s
        BY <1>1, <1>3, <3>1
      <3>3. ~Off(offer, i)
        BY <1>1, <3>2 DEF OneOne, Off
      <3> QED
        BY <3>2, <3>3 DEF In
    <2>2. ASSUME In(bag, i), ~Off(offer, i) PROVE In(left, i)
      <3>1. PICK s \in InvIdx : bag[s] = i
        BY <2>2 DEF In
      <3>2. left[s] = i
        BY <1>3, <2>2, <3>1 DEF Off
      <3> QED
        BY <3>2 DEF In
    <2> QED
      BY <2>1, <2>2
  <1> QED
    BY <1>2, <1>3, <1>4, <1>5 DEF Off, In

-----------------------------------------------------------------------------
(***************************************************************************)
(* The inductive invariant.  Besides the places of the items: types, with  *)
(* every packet under way of a kind that its receiver can handle; nobody   *)
(* trades with itself; and no two items a user offers come from the same   *)
(* inventory place, which is what Suspect is for.                          *)
(***************************************************************************)
Others(u) == (User \cup {null}) \ {u}

TradeFits(u, t) ==
    /\ t \in [partner : Others(u), bits : SUBSET Agreed,
              offer : [TradeSlot -> TradeSlotData]]
    /\ \A k \in TradeSlot : t.offer[k].typed => t.offer[k].item # null /\ t.offer[k].idx # 0
    /\ \A j, k \in TradeSlot :
          t.offer[j].typed /\ t.offer[k].typed /\ t.offer[j].idx = t.offer[k].idx => j = k

DialogFits(u, d) ==
    d \in [with : Others(u), readyMe : BOOLEAN, readyOther : BOOLEAN,
          mine : [TradeSlot -> [item : Item \cup {null}, idx : 0 .. NInv]],
          theirs : [TradeSlot -> Item \cup {null}]]

Seen == [mine : SUBSET Item, theirs : SUBSET Item, confirmed : BOOLEAN]

\* What u's client sends, and what it is sent.
ToServer(u) ==
    [type : {"request", "accept", "reject", "cancel", "ready", "done"},
     to : User \ {u}, slot : {0}, idx : {0}]
    \cup [type : {"put"}, to : {null}, slot : TradeSlot, idx : InvIdx]
    \cup [type : {"take"}, to : {null}, slot : TradeSlot, idx : 0 .. NInv]
    \cup [type : {"out"}, to : Others(u), slot : TradeSlot, idx : {0}]

ToClient(u) ==
    [type : {"request", "accept", "cancel", "ready", "done"},
     from : User \ {u}, slot : {0}, item : {null}]
    \cup [type : {"out"}, from : User \ {u}, slot : TradeSlot, item : {null}]
    \cup [type : {"offer"}, from : User \ {u}, slot : TradeSlot, item : Item \cup {null}]
    \cup [type : {"removed"}, from : {null}, slot : InvIdx, item : {null}]

Trades == trade = [u \in User |-> trade[u]] /\ \A u \in User : TradeFits(u, trade[u])

Dialogs == dialog = [u \in User |-> dialog[u]] /\ \A u \in User : DialogFits(u, dialog[u])

Boxes == asked = [u \in User |-> asked[u]] /\ \A u \in User : asked[u] \in Others(u)

Ups == up = [u \in User |-> up[u]] /\ \A u \in User : up[u] \in Seq(ToServer(u))

Downs == down = [u \in User |-> down[u]] /\ \A u \in User : down[u] \in Seq(ToClient(u))

CarriedBy(places, i) == \E u \in User : In(places[u], i)

\* Every item is carried, on the ground or used up.
Placed(places, g, c) ==
    /\ places \in [User -> Bag] /\ g \subseteq Item /\ c \subseteq Item
    /\ Injective(places)
    /\ \A i \in Item : /\ CarriedBy(places, i) \/ i \in g \/ i \in c
                       /\ CarriedBy(places, i) => i \notin g /\ i \notin c
                       /\ i \in g => i \notin c

Goods == Placed(inv, ground, consumed)

Known == present \subseteq User /\ upset \subseteq User /\ saw \in [User -> Seen]

Inv == Goods /\ Trades /\ Dialogs /\ Boxes /\ Ups /\ Downs /\ Known

-----------------------------------------------------------------------------
(***************************************************************************)
(* What a step has to show of each variable.                               *)
(***************************************************************************)
LEMMA Kept ==
    /\ Trades /\ UNCHANGED trade => Trades'
    /\ Dialogs /\ UNCHANGED dialog => Dialogs'
    /\ Boxes /\ UNCHANGED asked => Boxes'
    /\ Ups /\ UNCHANGED up => Ups'
    /\ Downs /\ UNCHANGED down => Downs'
    /\ Goods /\ UNCHANGED goods => Goods'
    /\ Known /\ UNCHANGED <<present, upset, saw>> => Known'
  <1>1. Trades /\ UNCHANGED trade => Trades'
    BY DEF Trades
  <1>2. Dialogs /\ UNCHANGED dialog => Dialogs'
    BY DEF Dialogs
  <1>3. Boxes /\ UNCHANGED asked => Boxes'
    BY DEF Boxes
  <1>4. Ups /\ UNCHANGED up => Ups'
    BY DEF Ups
  <1>5. Downs /\ UNCHANGED down => Downs'
    BY DEF Downs
  <1>6. Goods /\ UNCHANGED goods => Goods'
    BY DEF Goods, goods
  <1>7. Known /\ UNCHANGED <<present, upset, saw>> => Known'
    BY DEF Known
  <1> QED
    BY <1>1, <1>2, <1>3, <1>4, <1>5, <1>6, <1>7

LEMMA TradeSet ==
    ASSUME Trades, NEW u \in User, NEW t, TradeFits(u, t),
           trade' = [trade EXCEPT ![u] = t]
    PROVE  Trades'
  BY DEF Trades

LEMMA TradeSetBoth ==
    ASSUME Trades, NEW u \in User, NEW v \in User, NEW t, NEW r,
           TradeFits(u, t), TradeFits(v, r), u # v,
           trade' = [trade EXCEPT ![u] = t, ![v] = r]
    PROVE  Trades'
  BY DEF Trades

LEMMA DialogSet ==
    ASSUME Dialogs, NEW u \in User, NEW d, DialogFits(u, d),
           dialog' = [dialog EXCEPT ![u] = d]
    PROVE  Dialogs'
  BY DEF Dialogs

LEMMA BoxSet ==
    ASSUME Boxes, NEW u \in User, NEW v \in Others(u), asked' = [asked EXCEPT ![u] = v]
    PROVE  Boxes'
  BY DEF Boxes

\* A packet is sent to the server, and taken there.
LEMMA UpSent ==
    ASSUME Ups, NEW u \in User, NEW p \in ToServer(u),
           up' = [up EXCEPT ![u] = Append(@, p)]
    PROVE  Ups'
  <1>1. Append(up[u], p) \in Seq(ToServer(u))
    BY AppendProperties DEF Ups
  <1> QED
    BY <1>1 DEF Ups

LEMMA UpTaken ==
    ASSUME Ups, NEW u \in User, up[u] # <<>>
    PROVE  /\ Head(up[u]) \in ToServer(u)
           /\ up' = [up EXCEPT ![u] = Tail(@)] => Ups'
  <1>1. up[u] \in Seq(ToServer(u))
    BY DEF Ups
  <1>2. Head(up[u]) \in ToServer(u) /\ Tail(up[u]) \in Seq(ToServer(u))
    BY <1>1, HeadTailProperties
  <1> QED
    BY <1>2 DEF Ups

\* A packet is sent to a client, and taken there.
LEMMA DownSent ==
    ASSUME Downs, NEW u \in User, NEW p \in ToClient(u),
           down' = [down EXCEPT ![u] = Append(@, p)]
    PROVE  Downs'
  <1>1. Append(down[u], p) \in Seq(ToClient(u))
    BY AppendProperties DEF Downs
  <1> QED
    BY <1>1 DEF Downs

LEMMA DownSentBoth ==
    ASSUME Downs, NEW u \in User, NEW v \in User, u # v,
           NEW p \in ToClient(u), NEW q \in ToClient(v),
           down' = [down EXCEPT ![u] = Append(@, p), ![v] = Append(@, q)]
    PROVE  Downs'
  <1>1. Append(down[u], p) \in Seq(ToClient(u)) /\ Append(down[v], q) \in Seq(ToClient(v))
    BY AppendProperties DEF Downs
  <1> QED
    BY <1>1 DEF Downs

LEMMA DownTaken ==
    ASSUME Downs, NEW u \in User, down[u] # <<>>
    PROVE  /\ Head(down[u]) \in ToClient(u)
           /\ down' = [down EXCEPT ![u] = Tail(@)] => Downs'
  <1>1. down[u] \in Seq(ToClient(u))
    BY DEF Downs
  <1>2. Head(down[u]) \in ToClient(u) /\ Tail(down[u]) \in Seq(ToClient(u))
    BY <1>1, HeadTailProperties
  <1> QED
    BY <1>2 DEF Downs

-----------------------------------------------------------------------------
\* What packets are made of, and what can be read from them.
LEMMA ServerPackets ==
    ASSUME NEW u \in User
    PROVE  /\ \A v \in User \ {u} :
              \A type \in {"request", "accept", "reject", "cancel", "ready", "done"} :
                 Packet(type, v, 0, 0) \in ToServer(u)
           /\ \A k \in TradeSlot, s \in InvIdx : Packet("put", null, k, s) \in ToServer(u)
           /\ \A k \in TradeSlot, s \in 0 .. NInv : Packet("take", null, k, s) \in ToServer(u)
           /\ \A k \in TradeSlot, v \in Others(u) : Packet("out", v, k, 0) \in ToServer(u)
  BY DEF ToServer, Packet

LEMMA ServerReads ==
    ASSUME NEW u \in User, NEW p \in ToServer(u)
    PROVE  /\ p.to \in Others(u)
           /\ p.type \in {"put", "take", "out"} => p.slot \in TradeSlot
           /\ p.type = "put" => p.idx \in InvIdx
           /\ p.type = "take" => p.idx \in 0 .. NInv
  <1>1. p.to \in Others(u)
    BY TradeAssumption DEF ToServer, Others
  <1>2. p.type \in {"put", "take", "out"} => p.slot \in TradeSlot
    BY DEF ToServer
  <1>3. p.type = "put" => p.idx \in InvIdx
    BY DEF ToServer
  <1>4. p.type = "take" => p.idx \in 0 .. NInv
    BY DEF ToServer
  <1> QED
    BY <1>1, <1>2, <1>3, <1>4

LEMMA ClientPackets ==
    ASSUME NEW u \in User, NEW v \in User, u # v
    PROVE  /\ \A type \in {"request", "accept", "cancel", "ready", "done"} :
                 Notice(type, v, 0, null) \in ToClient(u)
           /\ \A k \in TradeSlot : Notice("out", v, k, null) \in ToClient(u)
           /\ \A k \in TradeSlot, i \in Item \cup {null} :
                 Notice("offer", v, k, i) \in ToClient(u)
  BY DEF ToClient, Notice

LEMMA ClientReads ==
    ASSUME NEW u \in User, NEW p \in ToClient(u)
    PROVE  /\ p.type # "removed" => p.from \in User \ {u}
           /\ p.type \in {"out", "offer"} => p.slot \in TradeSlot
           /\ p.type = "offer" => p.item \in Item \cup {null}
  BY DEF ToClient

\* What the server makes of a user's side of a trade.
LEMMA TradeForms ==
    ASSUME NEW u \in User, NEW t, TradeFits(u, t)
    PROVE  /\ TradeFits(u, Parted(t))
           /\ TradeFits(u, NoTrade)
           /\ \A r : \A v \in User : v # u => TradeFits(u, Begun(r, v))
           /\ \A v \in Others(u) : TradeFits(u, [t EXCEPT !.partner = v])
           /\ \A B \in SUBSET Agreed : TradeFits(u, [t EXCEPT !.bits = B])
           /\ \A k \in TradeSlot : TradeFits(u, [t EXCEPT !.offer[k].typed = FALSE])
           /\ \A k \in TradeSlot, n \in 0 .. NInv :
                 TradeFits(u, [t EXCEPT !.offer[k] = [item |-> null, typed |-> FALSE, idx |-> n]])
  <1> USE DEF TradeFits
  <1>1. NoOffer \in [TradeSlot -> TradeSlotData] /\ \A k \in TradeSlot : ~NoOffer[k].typed
    BY TradeAssumption DEF NoOffer, TradeSlotData
  <1>2. null \in Others(u) /\ \A v \in User : v # u => v \in Others(u)
    BY TradeAssumption DEF Others
  <1>3. TradeFits(u, Parted(t))
    BY <1>2 DEF Parted
  <1>4. TradeFits(u, NoTrade) /\ \A r : \A v \in User : v # u => TradeFits(u, Begun(r, v))
    BY <1>1, <1>2 DEF NoTrade, Begun
  <1>5. /\ \A v \in Others(u) : TradeFits(u, [t EXCEPT !.partner = v])
        /\ \A B \in SUBSET Agreed : TradeFits(u, [t EXCEPT !.bits = B])
    OBVIOUS
  <1>6. ASSUME NEW k \in TradeSlot, NEW o \in TradeSlotData, ~o.typed
        PROVE  TradeFits(u, [t EXCEPT !.offer[k] = o])
    <2>1. PICK new : new = [t.offer EXCEPT ![k] = o]
      OBVIOUS
    <2>2. /\ new \in [TradeSlot -> TradeSlotData]
          /\ \A j \in TradeSlot : new[j] = IF j = k THEN o ELSE t.offer[j]
      BY <2>1
    <2>3. TradeFits(u, [t EXCEPT !.offer = new])
      BY <1>6, <2>2
    <2> QED
      BY <2>1, <2>3
  <1>7. ASSUME NEW k \in TradeSlot
        PROVE  TradeFits(u, [t EXCEPT !.offer[k].typed = FALSE])
    <2>1. PICK o : o = [t.offer[k] EXCEPT !.typed = FALSE]
      OBVIOUS
    <2>2. o \in TradeSlotData /\ ~o.typed
      BY <2>1 DEF TradeSlotData
    <2>3. [t EXCEPT !.offer[k].typed = FALSE] = [t EXCEPT !.offer[k] = o]
      BY <2>1
    <2> HIDE DEF TradeFits
    <2> QED
      BY <1>6, <2>2, <2>3
  <1>8. \A n \in 0 .. NInv : [item |-> null, typed |-> FALSE, idx |-> n] \in TradeSlotData
    BY DEF TradeSlotData
  <1> HIDE DEF TradeFits
  <1> QED
    BY <1>3, <1>4, <1>5, <1>6, <1>7, <1>8

-----------------------------------------------------------------------------
(***************************************************************************)
(* The places of the items.                                                *)
(***************************************************************************)
LEMMA GoodsMean == Goods => Conserved
  <1> SUFFICES ASSUME Goods PROVE Conserved
    OBVIOUS
  <1>1. \A u \in User, s \in InvIdx : inv[u][s] \in Item \cup {null}
    BY DEF Goods, Placed, Bag
  <1>2. null \notin Item
    BY TradeAssumption
  <1>3. \A u \in User : \A i : i \in Held(inv, u) <=> i \in Item /\ In(inv[u], i)
    BY <1>1, <1>2 DEF Held, In
  <1>4. \A i : i \in Carried(inv) <=> i \in Item /\ CarriedBy(inv, i)
    <2>1. \A i : i \in Carried(inv) <=> \E u \in User : i \in Held(inv, u)
      BY DEF Carried
    <2> QED
      BY <1>3, <2>1 DEF CarriedBy
  <1>5. Carried(inv) \cup ground \cup consumed = Item
    BY <1>4 DEF Goods, Placed
  <1>6. Carried(inv) \cap (ground \cup consumed) = {} /\ ground \cap consumed = {}
    BY <1>4 DEF Goods, Placed
  <1>7. Injective(inv)
    BY DEF Goods, Placed
  <1> QED
    BY <1>5, <1>6, <1>7 DEF Conserved

\* One place of one inventory is set.
WithItem(f, u, s, x) == [f EXCEPT ![u][s] = x]

LEMMA PlaceSet ==
    ASSUME NEW f \in [User -> Bag], NEW u \in User, NEW s \in InvIdx, NEW x \in Item \cup {null}
    PROVE  /\ WithItem(f, u, s, x) \in [User -> Bag]
           /\ \A w \in User, t \in InvIdx :
                 WithItem(f, u, s, x)[w][t] = IF w = u /\ t = s THEN x ELSE f[w][t]
  <1>1. f[u] \in Bag
    OBVIOUS
  <1>2. PICK b : b = [f[u] EXCEPT ![s] = x]
    OBVIOUS
  <1>3. b \in Bag /\ \A t \in InvIdx : b[t] = IF t = s THEN x ELSE f[u][t]
    BY <1>1, <1>2 DEF Bag
  <1> DEFINE g == WithItem(f, u, s, x)
  <1>4. g = [f EXCEPT ![u] = b]
    BY <1>2 DEF WithItem
  <1> HIDE DEF g
  <1>5. g \in [User -> Bag] /\ g[u] = b /\ \A w \in User : w # u => g[w] = f[w]
    BY <1>3, <1>4
  <1> QED
    BY <1>3, <1>5 DEF g

\* An item leaves an inventory.
LEMMA PlaceEmptied ==
    ASSUME Goods, NEW u \in User, NEW s \in InvIdx, inv[u][s] # null,
           inv' = [inv EXCEPT ![u][s] = null]
    PROVE  /\ inv[u][s] \in Item
           /\ inv' \in [User -> Bag] /\ Injective(inv')
           /\ \A i \in Item : CarriedBy(inv', i) <=> CarriedBy(inv, i) /\ i # inv[u][s]
  <1>1. inv \in [User -> Bag] /\ Injective(inv) /\ null \notin Item
    BY TradeAssumption DEF Goods, Placed
  <1>2. inv[u][s] \in Item
    BY <1>1 DEF Bag
  <1>3. /\ inv' \in [User -> Bag]
        /\ \A w \in User, t \in InvIdx :
              inv'[w][t] = IF w = u /\ t = s THEN null ELSE inv[w][t]
    <2>1. inv' = WithItem(inv, u, s, null) /\ null \in Item \cup {null}
      BY DEF WithItem
    <2>2. /\ WithItem(inv, u, s, null) \in [User -> Bag]
          /\ \A w \in User, t \in InvIdx :
                WithItem(inv, u, s, null)[w][t] = IF w = u /\ t = s THEN null ELSE inv[w][t]
      BY <1>1, <2>1, PlaceSet
    <2> QED
      BY <2>1, <2>2
  <1>4. Injective(inv')
    BY <1>1, <1>3 DEF Injective
  <1>5. \A i \in Item : CarriedBy(inv', i) <=> CarriedBy(inv, i) /\ i # inv[u][s]
    BY <1>1, <1>2, <1>3 DEF Injective, CarriedBy, In
  <1> QED
    BY <1>2, <1>3, <1>4, <1>5

LEMMA UseItemGoods ==
    ASSUME Goods, NEW u \in User, NEW s \in InvIdx, UseItem(u, s)
    PROVE  Goods'
  <1>1. /\ inv[u][s] # null /\ inv' = [inv EXCEPT ![u][s] = null]
        /\ consumed' = consumed \cup {inv[u][s]} /\ ground' = ground
    BY DEF UseItem, Leaves
  <1>2. CarriedBy(inv, inv[u][s])
    BY DEF CarriedBy, In
  <1> QED
    BY <1>1, <1>2, PlaceEmptied DEF Goods, Placed

LEMMA DropItemGoods ==
    ASSUME Goods, NEW u \in User, NEW s \in InvIdx, DropItem(u, s)
    PROVE  Goods'
  <1>1. /\ inv[u][s] # null /\ inv' = [inv EXCEPT ![u][s] = null]
        /\ ground' = ground \cup {inv[u][s]} /\ consumed' = consumed
    BY DEF DropItem, Leaves
  <1>2. CarriedBy(inv, inv[u][s])
    BY DEF CarriedBy, In
  <1> QED
    BY <1>1, <1>2, PlaceEmptied DEF Goods, Placed

LEMMA PickUpGoods ==
    ASSUME Goods, NEW u \in User, NEW x \in Item, PickUp(u, x)
    PROVE  Goods'
  <1>1. PICK s \in InvIdx : s = FirstOf(Free(inv[u])) /\ inv[u][s] = null
    BY FirstFree DEF PickUp
  <1>2. /\ x \in ground /\ ground' = ground \ {x} /\ consumed' = consumed
        /\ inv' = [inv EXCEPT ![u][s] = x]
    BY <1>1 DEF PickUp
  <1>3. inv \in [User -> Bag] /\ Injective(inv) /\ null \notin Item
    BY TradeAssumption DEF Goods, Placed
  <1>4. /\ inv' \in [User -> Bag]
        /\ \A w \in User, t \in InvIdx :
              inv'[w][t] = IF w = u /\ t = s THEN x ELSE inv[w][t]
    <2>1. inv' = WithItem(inv, u, s, x) /\ x \in Item \cup {null}
      BY <1>2 DEF WithItem
    <2>2. /\ WithItem(inv, u, s, x) \in [User -> Bag]
          /\ \A w \in User, t \in InvIdx :
                WithItem(inv, u, s, x)[w][t] = IF w = u /\ t = s THEN x ELSE inv[w][t]
      BY <1>3, <2>1, PlaceSet
    <2> QED
      BY <2>1, <2>2
  <1>5. ~CarriedBy(inv, x) /\ x \notin consumed
    BY <1>2 DEF Goods, Placed
  <1>6. Injective(inv')
    BY <1>3, <1>4, <1>5 DEF Injective, CarriedBy, In
  <1>7. \A i \in Item : CarriedBy(inv', i) <=> CarriedBy(inv, i) \/ i = x
    BY <1>1, <1>3, <1>4 DEF CarriedBy, In
  <1> QED
    BY <1>2, <1>4, <1>5, <1>6, <1>7 DEF Goods, Placed

\* What a user has and offers.
LEMMA OffersFit ==
    ASSUME Goods, Trades, NEW w \in User, CheckTradeItem(w)
    PROVE  /\ inv[w] \in Bag /\ OneOne(inv[w])
           /\ trade[w].offer \in [TradeSlot -> TradeSlotData]
           /\ \A k \in TradeSlot : trade[w].offer[k].typed =>
                 /\ trade[w].offer[k].item \in Item
                 /\ trade[w].offer[k].idx \in InvIdx
                 /\ inv[w][trade[w].offer[k].idx] = trade[w].offer[k].item
           /\ \A j, k \in TradeSlot :
                 /\ trade[w].offer[j].typed /\ trade[w].offer[k].typed
                 /\ trade[w].offer[j].item = trade[w].offer[k].item
                 => j = k
  <1>1. inv[w] \in Bag /\ OneOne(inv[w])
    BY TradeAssumption DEF Goods, Placed, Injective, OneOne
  <1>2. TradeFits(w, trade[w])
    BY DEF Trades
  <1>3. trade[w].offer \in [TradeSlot -> TradeSlotData]
    BY <1>2 DEF TradeFits
  <1>4. ASSUME NEW k \in TradeSlot, trade[w].offer[k].typed
        PROVE  /\ trade[w].offer[k].item \in Item
               /\ trade[w].offer[k].idx \in InvIdx
               /\ inv[w][trade[w].offer[k].idx] = trade[w].offer[k].item
    <2>1. trade[w].offer[k] \in TradeSlotData
      BY <1>3
    <2>2. trade[w].offer[k].item # null /\ trade[w].offer[k].idx # 0
      BY <1>2, <1>4 DEF TradeFits
    <2>3. trade[w].offer[k].idx \in InvIdx
      BY <2>1, <2>2, TradeAssumption DEF TradeSlotData, InvIdx
    <2> QED
      BY <1>4, <2>1, <2>2, <2>3 DEF TradeSlotData, CheckTradeItem
  <1>5. ASSUME NEW j \in TradeSlot, NEW k \in TradeSlot,
               trade[w].offer[j].typed, trade[w].offer[k].typed,
               trade[w].offer[j].item = trade[w].offer[k].item
        PROVE  j = k
    <2>1. trade[w].offer[j].idx = trade[w].offer[k].idx
      BY <1>1, <1>4, <1>5, TradeAssumption DEF OneOne
    <2> QED
      BY <1>2, <1>5, <2>1 DEF TradeFits
  <1> QED
    BY <1>1, <1>3, <1>4, <1>5

\* Nobody has what another one has.
LEMMA Apart ==
    ASSUME Goods, NEW u \in User, NEW v \in User, u # v, NEW i \in Item
    PROVE  ~ (In(inv[u], i) /\ In(inv[v], i))
  BY TradeAssumption DEF Goods, Placed, Injective, In

LEMMA ApartIsInjective ==
    ASSUME NEW f \in [User -> Bag], \A w \in User : OneOne(f[w]),
           \A i \in Item : \A w, o \in User : In(f[w], i) /\ In(f[o], i) => w = o
    PROVE  Injective(f)
  <1>1. ASSUME NEW w \in User, NEW o \in User, NEW s \in InvIdx, NEW t \in InvIdx,
               f[w][s] = f[o][t], f[w][s] # null
        PROVE  w = o /\ s = t
    <2>1. f[w][s] \in Item
      BY <1>1 DEF Bag
    <2>2. In(f[w], f[w][s]) /\ In(f[o], f[w][s])
      BY <1>1 DEF In
    <2>3. w = o
      BY <2>1, <2>2
    <2> QED
      BY <1>1, <2>3 DEF OneOne
  <1> QED
    BY <1>1 DEF Injective

\* One side of an exchange: what w has after it.
LEMMA ExchangedSide ==
    ASSUME Goods, Trades, NEW w \in User, NEW o \in User, w # o,
           CheckTradeItem(w), CheckTradeItem(o)
    PROVE  LET r == Received(Removed(inv[w], trade[w].offer), trade[o].offer)
           IN  /\ r \in [bag : Bag, rest : SUBSET Item]
               /\ OneOne(r.bag)
               /\ \A i \in Item : ~ (In(r.bag, i) /\ i \in r.rest)
               /\ \A i \in Item : In(r.bag, i) \/ i \in r.rest
                     <=> (In(inv[w], i) /\ ~Off(trade[w].offer, i)) \/ Off(trade[o].offer, i)
               /\ \A i \in Item : Off(trade[w].offer, i) => In(inv[w], i)
  <1>1. PICK left : left = Removed(inv[w], trade[w].offer)
    OBVIOUS
  <1>2. /\ left \in Bag /\ OneOne(left)
        /\ \A i \in Item : In(left, i) <=> In(inv[w], i) /\ ~Off(trade[w].offer, i)
        /\ \A i \in Item : Off(trade[w].offer, i) => In(inv[w], i)
    BY <1>1, OffersFit, RemovedFacts
  <1>3. \A i \in Item : Off(trade[o].offer, i) => In(inv[o], i)
    BY OffersFit, RemovedFacts
  <1>4. \A i \in Item : ~ (In(left, i) /\ Off(trade[o].offer, i))
    BY <1>2, <1>3, Apart
  <1>5. /\ trade[o].offer \in [TradeSlot -> TradeSlotData]
        /\ \A k \in TradeSlot : trade[o].offer[k].typed => trade[o].offer[k].item \in Item
        /\ \A j, k \in TradeSlot :
              /\ trade[o].offer[j].typed /\ trade[o].offer[k].typed
              /\ trade[o].offer[j].item = trade[o].offer[k].item
              => j = k
    BY OffersFit
  <1>6. PICK r : r = Received(left, trade[o].offer)
    OBVIOUS
  <1>7. /\ r \in [bag : Bag, rest : SUBSET Item]
        /\ OneOne(r.bag)
        /\ \A i \in Item : ~ (In(r.bag, i) /\ i \in r.rest)
        /\ \A i \in Item : In(r.bag, i) \/ i \in r.rest <=> In(left, i) \/ Off(trade[o].offer, i)
    BY <1>2, <1>4, <1>5, <1>6, ReceivedFacts
  <1> QED
    BY <1>1, <1>2, <1>6, <1>7

(***************************************************************************)
(* RESULT_TRADE_DONE copies no item and loses none: what one gives the     *)
(* other has, or it lies on the ground.                                    *)
(***************************************************************************)
LEMMA DoneBothGoods ==
    ASSUME Goods, Trades, NEW u \in User, NEW v \in User, u # v,
           CheckTradeItem(u), CheckTradeItem(v),
           NEW mine, mine = Received(Removed(inv[u], trade[u].offer), trade[v].offer),
           NEW theirs, theirs = Received(Removed(inv[v], trade[v].offer), trade[u].offer),
           inv' = [inv EXCEPT ![u] = mine.bag, ![v] = theirs.bag],
           ground' = Dropped(mine.rest \cup theirs.rest),
           consumed' = consumed
    PROVE  Goods'
  <1> DEFINE Gives(w, i) == Off(trade[w].offer, i)
             Had(w, i) == In(inv[w], i)
  <1>1. /\ mine \in [bag : Bag, rest : SUBSET Item] /\ OneOne(mine.bag)
        /\ \A i \in Item : ~ (In(mine.bag, i) /\ i \in mine.rest)
        /\ \A i \in Item : In(mine.bag, i) \/ i \in mine.rest
              <=> (Had(u, i) /\ ~Gives(u, i)) \/ Gives(v, i)
        /\ \A i \in Item : Gives(u, i) => Had(u, i)
    BY ExchangedSide
  <1>2. /\ theirs \in [bag : Bag, rest : SUBSET Item] /\ OneOne(theirs.bag)
        /\ \A i \in Item : ~ (In(theirs.bag, i) /\ i \in theirs.rest)
        /\ \A i \in Item : In(theirs.bag, i) \/ i \in theirs.rest
              <=> (Had(v, i) /\ ~Gives(v, i)) \/ Gives(u, i)
        /\ \A i \in Item : Gives(v, i) => Had(v, i)
    BY ExchangedSide
  <1>3. \A i \in Item : \A w, o \in User : w # o => ~ (Had(w, i) /\ Had(o, i))
    BY Apart
  <1>4. inv \in [User -> Bag] /\ Injective(inv) /\ null \notin Item
    BY TradeAssumption DEF Goods, Placed
  <1>5. /\ inv' \in [User -> Bag]
        /\ inv'[u] = mine.bag /\ inv'[v] = theirs.bag
        /\ \A w \in User : w # u /\ w # v => inv'[w] = inv[w]
    BY <1>1, <1>2, <1>4
  <1> DEFINE Has(w, i) == In(inv'[w], i)
             Left(i) == i \in mine.rest \/ i \in theirs.rest
  <1> HIDE DEF Gives, Had
  <1>6. \A i \in Item : Has(u, i) \/ i \in mine.rest
                           <=> (Had(u, i) /\ ~Gives(u, i)) \/ Gives(v, i)
    BY <1>1, <1>5
  <1>7. \A i \in Item : Has(v, i) \/ i \in theirs.rest
                           <=> (Had(v, i) /\ ~Gives(v, i)) \/ Gives(u, i)
    BY <1>2, <1>5
  <1>8. \A i \in Item : \A w \in User : w # u /\ w # v => (Has(w, i) <=> Had(w, i))
    BY <1>5 DEF Had
  <1>9. \A i \in Item : ~ (Has(u, i) /\ i \in mine.rest) /\ ~ (Has(v, i) /\ i \in theirs.rest)
    BY <1>1, <1>2, <1>5
  <1>10. ASSUME NEW w \in User PROVE OneOne(inv'[w])
    <2>1. CASE w # u /\ w # v
      BY <1>4, <1>5, <2>1 DEF Injective, OneOne
    <2> QED
      BY <1>1, <1>2, <1>5, <2>1
  <1> HIDE DEF Has
  <1>11. \A i \in Item : \A w, o \in User : Has(w, i) /\ Has(o, i) => w = o
    BY <1>1, <1>2, <1>3, <1>6, <1>7, <1>8
  <1>12. \A i \in Item : (\E w \in User : Has(w, i)) \/ Left(i) <=> \E w \in User : Had(w, i)
    BY <1>1, <1>2, <1>6, <1>7, <1>8
  <1>13. \A i \in Item : Left(i) => \A w \in User : ~Has(w, i)
    BY <1>1, <1>2, <1>3, <1>6, <1>7, <1>8, <1>9
  <1>14. Injective(inv')
    <2>1. \A i \in Item : \A w, o \in User : In(inv'[w], i) /\ In(inv'[o], i) => w = o
      BY <1>11 DEF Has
    <2> QED
      BY <1>5, <1>10, <2>1, ApartIsInjective
  <1>15. \A i \in Item : /\ CarriedBy(inv', i) <=> \E w \in User : Has(w, i)
                         /\ CarriedBy(inv, i) <=> \E w \in User : Had(w, i)
    BY DEF CarriedBy, Has, Had
  <1>16. /\ \A i : i \in ground' <=> i \in ground \/ Left(i)
         /\ ground' \subseteq Item
    BY <1>1, <1>2 DEF Dropped, Goods, Placed
  <1>17. \A i \in Item : /\ CarriedBy(inv, i) \/ i \in ground \/ i \in consumed
                         /\ CarriedBy(inv, i) => i \notin ground /\ i \notin consumed
                         /\ i \in ground => i \notin consumed
    BY DEF Goods, Placed
  <1>18. \A i \in Item : CarriedBy(inv', i) \/ Left(i) <=> CarriedBy(inv, i)
    BY <1>12, <1>15
  <1>19. \A i \in Item : Left(i) => ~CarriedBy(inv', i)
    BY <1>13, <1>15
  <1>20. \A i \in Item : /\ CarriedBy(inv', i) \/ i \in ground' \/ i \in consumed'
                         /\ CarriedBy(inv', i) => i \notin ground' /\ i \notin consumed'
                         /\ i \in ground' => i \notin consumed'
    <2> HIDE DEF Left
    <2> QED
      BY <1>16, <1>17, <1>18, <1>19
  <1>21. consumed' \subseteq Item
    BY DEF Goods, Placed
  <1> QED
    BY <1>5, <1>14, <1>16, <1>20, <1>21 DEF Goods, Placed

-----------------------------------------------------------------------------
(***************************************************************************)
(* What a client makes of its dialog, and what the steps of Trade send.    *)
(***************************************************************************)
LEMMA DialogForms ==
    ASSUME NEW u \in User, NEW d, DialogFits(u, d)
    PROVE  /\ \A v \in Others(u) : DialogFits(u, Opened(v))
           /\ DialogFits(u, Opened(null))
           /\ DialogFits(u, [d EXCEPT !.readyMe = TRUE])
           /\ DialogFits(u, [d EXCEPT !.readyOther = TRUE])
           /\ \A k \in TradeSlot : \A o \in [item : Item \cup {null}, idx : 0 .. NInv] :
                 DialogFits(u, [d EXCEPT !.mine[k] = o])
           /\ \A m \in [TradeSlot -> [item : Item \cup {null}, idx : 0 .. NInv]] :
                 DialogFits(u, [d EXCEPT !.mine = m])
           /\ \A k \in TradeSlot : \A i \in Item \cup {null} :
                 DialogFits(u, [d EXCEPT !.theirs[k] = i])
  <1> USE DEF DialogFits
  <1>1. null \in Others(u)
    BY TradeAssumption DEF Others
  <1>2. NoneMine \in [TradeSlot -> [item : Item \cup {null}, idx : 0 .. NInv]]
    BY TradeAssumption DEF NoneMine, NoItem
  <1>3. \A v \in Others(u) : DialogFits(u, Opened(v))
    BY <1>2 DEF Opened, Nothing
  <1>4. /\ DialogFits(u, [d EXCEPT !.readyMe = TRUE])
        /\ DialogFits(u, [d EXCEPT !.readyOther = TRUE])
    OBVIOUS
  <1>5. \A m \in [TradeSlot -> [item : Item \cup {null}, idx : 0 .. NInv]] :
           DialogFits(u, [d EXCEPT !.mine = m])
    OBVIOUS
  <1>6. ASSUME NEW k \in TradeSlot, NEW o \in [item : Item \cup {null}, idx : 0 .. NInv]
        PROVE  DialogFits(u, [d EXCEPT !.mine[k] = o])
    <2>1. PICK m : m = [d.mine EXCEPT ![k] = o]
      OBVIOUS
    <2>2. m \in [TradeSlot -> [item : Item \cup {null}, idx : 0 .. NInv]]
      BY <2>1
    <2> QED
      BY <1>5, <2>1, <2>2
  <1>7. ASSUME NEW k \in TradeSlot, NEW i \in Item \cup {null}
        PROVE  DialogFits(u, [d EXCEPT !.theirs[k] = i])
    <2>1. PICK m : m = [d.theirs EXCEPT ![k] = i]
      OBVIOUS
    <2>2. m \in [TradeSlot -> Item \cup {null}]
      BY <2>1
    <2>3. DialogFits(u, [d EXCEPT !.theirs = m])
      BY <2>2
    <2> QED
      BY <2>1, <2>3
  <1> HIDE DEF DialogFits
  <1> QED
    BY <1>1, <1>3, <1>4, <1>5, <1>6, <1>7

\* The server takes a packet; who it names can only be another user, if it is there.
LEMMA Taken ==
    ASSUME Inv, NEW u \in User, up[u] # <<>>, up' = [up EXCEPT ![u] = Tail(@)]
    PROVE  /\ Ups' /\ Head(up[u]) \in ToServer(u)
           /\ Target(u) \in Others(u)
           /\ Target(u) \in present => Target(u) \in User /\ Target(u) # u
  <1>1. Ups' /\ Head(up[u]) \in ToServer(u)
    BY UpTaken DEF Inv
  <1>2. Target(u) \in Others(u)
    BY <1>1, ServerReads DEF Target
  <1> QED
    BY <1>1, <1>2 DEF Inv, Known, Others

\* A client takes a packet.
LEMMA Read ==
    ASSUME Inv, NEW u \in User, NEW type, Receives(u, type)
    PROVE  /\ Downs' /\ Notified(u) \in ToClient(u) /\ Notified(u).type = type
           /\ type # "removed" => Notified(u).from \in User \ {u}
           /\ type \in {"out", "offer"} => Notified(u).slot \in TradeSlot
           /\ type = "offer" => Notified(u).item \in Item \cup {null}
  <1>1. Downs' /\ Notified(u) \in ToClient(u) /\ Notified(u).type = type
    BY DownTaken DEF Inv, Receives, Notified
  <1> QED
    BY <1>1, ClientReads

\* The server sends a packet on.
LEMMA Relayed ==
    ASSUME Downs, NEW u \in User, NEW v \in User, u # v
    PROVE  /\ \A type \in {"request", "accept", "cancel", "ready", "done"} :
                 Relay(u, v, type, 0) => Downs'
           /\ \A k \in TradeSlot : Relay(u, v, "out", k) => Downs'
           /\ \A type \in {"cancel", "done"} : Both(u, v, type) => Downs'
  <1>1. ASSUME NEW type \in {"request", "accept", "cancel", "ready", "done"},
               Relay(u, v, type, 0)
        PROVE  Downs'
    <2>1. PICK p \in ToClient(v) : p = Notice(type, u, 0, null)
      BY ClientPackets
    <2> QED
      BY <1>1, <2>1, DownSent DEF Relay
  <1>2. ASSUME NEW k \in TradeSlot, Relay(u, v, "out", k)
        PROVE  Downs'
    <2>1. PICK p \in ToClient(v) : p = Notice("out", u, k, null)
      BY ClientPackets
    <2> QED
      BY <1>2, <2>1, DownSent DEF Relay
  <1>3. ASSUME NEW type \in {"cancel", "done"}, Both(u, v, type)
        PROVE  Downs'
    <2>1. PICK p \in ToClient(u) : p = Notice(type, v, 0, null)
      BY ClientPackets
    <2>2. PICK q \in ToClient(v) : q = Notice(type, u, 0, null)
      BY ClientPackets
    <2> QED
      BY <1>3, <2>1, <2>2, DownSentBoth DEF Both
  <1> QED
    BY <1>1, <1>2, <1>3

\* A client sends a packet that names another user.
LEMMA Said ==
    ASSUME Ups, NEW u \in User, NEW v \in User, u # v,
           NEW type \in {"request", "accept", "reject", "cancel", "ready", "done"},
           Says(u, type, v)
    PROVE  Ups'
  <1>1. PICK p \in ToServer(u) : p = Packet(type, v, 0, 0)
    BY ServerPackets
  <1> QED
    BY <1>1, UpSent DEF Says

-----------------------------------------------------------------------------
(***************************************************************************)
(* The invariant is kept by what the server does with a packet.            *)
(***************************************************************************)
LEMMA HandleNoTargetInv ==
    ASSUME Inv, NEW u \in User, HandleNoTarget(u)
    PROVE  Inv'
  <1>1. Ups'
    BY Taken DEF HandleNoTarget, Arrives
  <1>2. TradeFits(u, Parted(trade[u]))
    BY TradeForms DEF Inv, Trades
  <1>3. Trades'
    BY <1>2, TradeSet DEF HandleNoTarget, Inv
  <1> QED
    BY <1>1, <1>3, Kept DEF HandleNoTarget, client, Inv

LEMMA HandleRequestInv ==
    ASSUME Inv, NEW u \in User, HandleRequest(u)
    PROVE  Inv'
  <1> DEFINE v == Target(u)
  <1>1. Ups' /\ v \in User /\ v # u
    BY Taken DEF HandleRequest, Arrives
  <1> HIDE DEF v
  <1>2. CASE UNCHANGED <<trade, down>>
    BY <1>1, <1>2, Kept DEF HandleRequest, client, Inv
  <1>3. CASE /\ trade' = [trade EXCEPT ![u].partner = v, ![u].bits = {}]
             /\ Relay(u, v, "request", 0)
    <2>1. PICK t : t = [trade[u] EXCEPT !.partner = v]
      OBVIOUS
    <2>2. v \in Others(u) /\ TradeFits(u, trade[u])
      BY <1>1 DEF Others, Inv, Trades
    <2>3. TradeFits(u, t)
      BY <2>1, <2>2, TradeForms
    <2>4. TradeFits(u, [t EXCEPT !.bits = {}])
      BY <2>3, TradeForms
    <2>5. trade' = [trade EXCEPT ![u] = [t EXCEPT !.bits = {}]]
      BY <1>3, <2>1 DEF Inv, Trades
    <2>6. Trades'
      BY <2>4, <2>5, TradeSet DEF Inv
    <2>7. Downs'
      BY <1>1, <1>3, Relayed DEF Inv
    <2> QED
      BY <1>1, <2>6, <2>7, Kept DEF HandleRequest, client, Inv
  <1> QED
    BY <1>2, <1>3 DEF HandleRequest, v

LEMMA HandleAcceptInv ==
    ASSUME Inv, NEW u \in User, HandleAccept(u)
    PROVE  Inv'
  <1> DEFINE v == Target(u)
  <1>1. Ups' /\ v \in User /\ v # u
    BY Taken DEF HandleAccept, Arrives
  <1>2. Known'
    BY <1>1 DEF HandleAccept, client, Inv, Known
  <1>3. PICK w \in User : w = v
    BY <1>1
  <1> HIDE DEF v
  <1>4. CASE Relay(w, u, "cancel", 0) /\ UNCHANGED trade
    <2>1. Downs'
      BY <1>1, <1>3, <1>4, Relayed DEF Inv
    <2> QED
      BY <1>1, <1>2, <1>4, <2>1, Kept DEF HandleAccept, client, Inv
  <1>5. CASE /\ trade' = [trade EXCEPT ![u] = Begun(@, w), ![w] = Begun(@, u)]
             /\ Relay(u, w, "accept", 0)
    <2>1. TradeFits(u, trade[u]) /\ TradeFits(w, trade[w])
      BY DEF Inv, Trades
    <2>2. TradeFits(u, Begun(trade[u], w)) /\ TradeFits(w, Begun(trade[w], u))
      BY <1>1, <1>3, <2>1, TradeForms
    <2>3. trade' = [trade EXCEPT ![u] = Begun(trade[u], w), ![w] = Begun(trade[w], u)]
      BY <1>1, <1>3, <1>5 DEF Inv, Trades
    <2>4. Trades'
      BY <1>1, <1>3, <2>2, <2>3, TradeSetBoth DEF Inv
    <2>5. Downs'
      BY <1>1, <1>3, <1>5, Relayed DEF Inv
    <2> QED
      BY <1>1, <1>2, <2>4, <2>5, Kept DEF HandleAccept, client, Inv
  <1>6. CASE UNCHANGED <<trade, down>>
    BY <1>1, <1>2, <1>6, Kept DEF HandleAccept, client, Inv
  <1> QED
    BY <1>3, <1>4, <1>5, <1>6 DEF HandleAccept, v

LEMMA HandleCancelInv ==
    ASSUME Inv, NEW u \in User, HandleCancel(u)
    PROVE  Inv'
  <1>1. up[u] # <<>> /\ up' = [up EXCEPT ![u] = Tail(@)]
    BY DEF HandleCancel, Arrives
  <1>2. PICK v \in User : v = Target(u) /\ v # u
    BY <1>1, Taken DEF HandleCancel
  <1>3. Ups'
    BY <1>1, Taken
  <1>4. PICK t : t = IF trade[v].partner = u THEN Parted(trade[v]) ELSE trade[v]
    OBVIOUS
  <1>5. TradeFits(u, trade[u]) /\ TradeFits(v, trade[v])
    BY DEF Inv, Trades
  <1>6. TradeFits(v, t) /\ TradeFits(u, Parted(trade[u]))
    BY <1>4, <1>5, TradeForms
  <1>7. trade' = [trade EXCEPT ![v] = t, ![u] = Parted(trade[u])]
    BY <1>2, <1>4 DEF HandleCancel, Inv, Trades
  <1>8. Trades'
    BY <1>2, <1>6, <1>7, TradeSetBoth DEF Inv
  <1>9. Downs'
    BY <1>2, Relayed, Kept DEF HandleCancel, Inv
  <1> QED
    BY <1>3, <1>8, <1>9, Kept DEF HandleCancel, client, Inv

LEMMA HandleReadyInv ==
    ASSUME Inv, NEW u \in User, HandleReady(u)
    PROVE  Inv'
  <1>1. Ups' /\ Target(u) \in User /\ Target(u) # u
    BY Taken DEF HandleReady, Arrives
  <1>2. PICK B : B = trade[u].bits \cup {"ready"}
    OBVIOUS
  <1>3. TradeFits(u, trade[u])
    BY DEF Inv, Trades
  <1>4. B \in SUBSET Agreed
    BY <1>2, <1>3 DEF TradeFits, Agreed
  <1>5. TradeFits(u, [trade[u] EXCEPT !.bits = B])
    BY <1>3, <1>4, TradeForms
  <1>6. trade' = [trade EXCEPT ![u] = [trade[u] EXCEPT !.bits = B]]
    BY <1>2 DEF HandleReady, Inv, Trades
  <1>7. Trades'
    BY <1>5, <1>6, TradeSet DEF Inv
  <1>8. Downs'
    BY <1>1, Relayed DEF HandleReady, Inv
  <1> QED
    BY <1>1, <1>7, <1>8, Kept DEF HandleReady, client, Inv

LEMMA HandleOutInv ==
    ASSUME Inv, NEW u \in User, HandleOut(u)
    PROVE  Inv'
  <1>1. PICK v \in User : v = Target(u) /\ v # u
    BY Taken DEF HandleOut, Arrives
  <1>2. Ups' /\ Head(up[u]) \in ToServer(u)
    BY Taken DEF HandleOut, Arrives
  <1>3. PICK k \in TradeSlot : k = Head(up[u]).slot
    BY <1>2, ServerReads DEF HandleOut, Arrives
  <1>4. TradeFits(v, [trade[v] EXCEPT !.offer[k].typed = FALSE])
    BY TradeForms DEF Inv, Trades
  <1>5. trade' = [trade EXCEPT ![v] = [trade[v] EXCEPT !.offer[k].typed = FALSE]]
    BY <1>1, <1>3 DEF HandleOut, Inv, Trades
  <1>6. Trades'
    BY <1>4, <1>5, TradeSet DEF Inv
  <1>7. Downs'
    BY <1>1, <1>3, Relayed DEF HandleOut, Inv
  <1>8. Known'
    BY <1>1 DEF HandleOut, client, Inv, Known
  <1> QED
    BY <1>2, <1>6, <1>7, <1>8, Kept DEF HandleOut, client, Inv

LEMMA HandleUnofferedInv ==
    ASSUME Inv, NEW u \in User, HandleUnoffered(u)
    PROVE  Inv'
  <1>1. Ups'
    BY Taken DEF HandleUnoffered, Arrives
  <1>2. null \in Others(u) /\ TradeFits(u, trade[u])
    BY TradeAssumption DEF Others, Inv, Trades
  <1>3. TradeFits(u, [trade[u] EXCEPT !.partner = null])
    BY <1>2, TradeForms
  <1>4. Trades'
    <2>1. CASE trade' = [trade EXCEPT ![u].partner = null]
      <3>1. trade' = [trade EXCEPT ![u] = [trade[u] EXCEPT !.partner = null]]
        BY <2>1 DEF Inv, Trades
      <3> QED
        BY <1>3, <3>1, TradeSet DEF Inv
    <2> QED
      BY <2>1, Kept DEF HandleUnoffered, Inv
  <1>5. Known'
    BY DEF HandleUnoffered, client, Inv, Known
  <1> QED
    BY <1>1, <1>4, <1>5, Kept DEF HandleUnoffered, client, Inv

\* Whoever is cut off, its items stay.
LEMMA GoneInv ==
    ASSUME Inv, NEW u \in User, Gone(u)
    PROVE  Inv'
  <1>1. TradeFits(u, NoTrade) /\ DialogFits(u, Opened(null)) /\ null \in Others(u)
    BY TradeForms, DialogForms, TradeAssumption DEF Others, Inv, Trades, Dialogs
  <1>2. Trades'
    BY <1>1, TradeSet DEF Gone, Inv
  <1>3. Dialogs'
    BY <1>1, DialogSet DEF Gone, Inv
  <1>4. Boxes'
    BY <1>1, BoxSet DEF Gone, Inv
  <1>5. Ups' /\ Downs'
    <2>1. <<>> \in Seq(ToServer(u)) /\ <<>> \in Seq(ToClient(u))
      OBVIOUS
    <2> QED
      BY <2>1 DEF Gone, Inv, Ups, Downs
  <1>6. Known'
    BY DEF Gone, Inv, Known
  <1> QED
    BY <1>2, <1>3, <1>4, <1>5, <1>6, Kept DEF Gone, Inv

\* u's partner sees what u lays down or takes back.
LEMMA OfferSent ==
    ASSUME Downs, NEW u \in User, trade[u].partner \in User \ {u},
           NEW k \in TradeSlot, NEW i \in Item \cup {null}, Offers(u, k, i)
    PROVE  Downs'
  <1>1. PICK v \in User : v = trade[u].partner /\ v # u
    OBVIOUS
  <1>2. PICK p \in ToClient(v) : p = Notice("offer", u, k, i)
    BY <1>1, ClientPackets
  <1> QED
    BY <1>1, <1>2, DownSent DEF Offers

LEMMA HandlePutInv ==
    ASSUME Inv, NEW u \in User, HandlePut(u)
    PROVE  Inv'
  <1>1. Head(up[u]) \in ToServer(u) /\ Head(up[u]).type = "put"
    BY UpTaken DEF HandlePut, Inv
  <1>2. PICK k \in TradeSlot, s \in InvIdx : k = Head(up[u]).slot /\ s = Head(up[u]).idx
    BY <1>1, ServerReads
  <1>3. CASE Gone(u)
    BY <1>3, GoneInv
  <1>4. CASE /\ ~Suspect(u, k, s) /\ Arrives(u, "put")
             /\ NothingAt(u, s) /\ UNCHANGED <<trade, down>>
             /\ UNCHANGED <<goods, present, client, count, upset>>
    <2>1. Ups'
      BY <1>4, Taken DEF Arrives
    <2> QED
      BY <1>4, <2>1, Kept DEF client, Inv
  <1>5. CASE /\ ~Suspect(u, k, s) /\ Arrives(u, "put")
             /\ ~NothingAt(u, s)
             /\ trade' = [trade EXCEPT ![u].offer[k] =
                            [item |-> inv[u][s], typed |-> TRUE, idx |-> s]]
             /\ Offers(u, k, inv[u][s])
             /\ UNCHANGED <<goods, present, client, count, upset>>
    <2>1. Ups'
      BY <1>5, Taken DEF Arrives
    <2>2. trade[u].partner \in User \ {u}
      BY DEF HandlePut, Mutual, Inv, Known, Trades, TradeFits, Others
    <2>3. inv[u][s] \in Item
      BY <1>5 DEF NothingAt, Inv, Goods, Placed, Bag
    <2>4. Downs'
      BY <1>5, <2>2, <2>3, OfferSent DEF Inv
    <2>5. PICK o : o = [item |-> inv[u][s], typed |-> TRUE, idx |-> s]
      OBVIOUS
    <2>6. /\ o \in TradeSlotData /\ o.item # null /\ o.idx # 0
          /\ \A j \in TradeSlot : trade[u].offer[j].idx # o.idx
      BY <1>5, <2>3, <2>5, TradeAssumption DEF TradeSlotData, InvIdx, Suspect
    <2>7. TradeFits(u, trade[u])
      BY DEF Inv, Trades
    <2>8. PICK new : new = [trade[u].offer EXCEPT ![k] = o]
      OBVIOUS
    <2>9. /\ new \in [TradeSlot -> TradeSlotData]
          /\ \A j \in TradeSlot : new[j] = IF j = k THEN o ELSE trade[u].offer[j]
      BY <2>6, <2>7, <2>8 DEF TradeFits
    <2>10. TradeFits(u, [trade[u] EXCEPT !.offer = new])
      BY <2>6, <2>7, <2>9 DEF TradeFits
    <2>11. trade' = [trade EXCEPT ![u] = [trade[u] EXCEPT !.offer = new]]
      BY <1>5, <2>5, <2>8 DEF Inv, Trades
    <2>12. Trades'
      BY <2>10, <2>11, TradeSet DEF Inv
    <2> QED
      BY <1>5, <2>1, <2>4, <2>12, Kept DEF client, Inv
  <1> QED
    BY <1>2, <1>3, <1>4, <1>5 DEF HandlePut

LEMMA HandleTakeInv ==
    ASSUME Inv, NEW u \in User, HandleTake(u)
    PROVE  Inv'
  <1>1. /\ Ups' /\ Head(up[u]) \in ToServer(u) /\ Head(up[u]).type = "take"
    BY Taken DEF HandleTake, Arrives
  <1>2. PICK k \in TradeSlot, n \in 0 .. NInv : k = Head(up[u]).slot /\ n = Head(up[u]).idx
    BY <1>1, ServerReads
  <1>3. trade[u].partner \in User \ {u}
    BY DEF HandleTake, Mutual, Inv, Known, Trades, TradeFits, Others
  <1>4. Downs'
    BY <1>2, <1>3, OfferSent DEF HandleTake, Inv
  <1>5. TradeFits(u, [trade[u] EXCEPT !.offer[k] = [item |-> null, typed |-> FALSE, idx |-> n]])
    BY TradeForms DEF Inv, Trades
  <1>6. trade' = [trade EXCEPT ![u] =
           [trade[u] EXCEPT !.offer[k] = [item |-> null, typed |-> FALSE, idx |-> n]]]
    BY <1>2 DEF HandleTake, Inv, Trades
  <1>7. Trades'
    BY <1>5, <1>6, TradeSet DEF Inv
  <1> QED
    BY <1>1, <1>4, <1>7, Kept DEF HandleTake, client, Inv

\* The two are parted.
LEMMA PartedBoth ==
    ASSUME Trades, NEW u \in User, NEW v \in User, u # v, BothParted(u, v)
    PROVE  Trades'
  <1>1. TradeFits(u, Parted(trade[u])) /\ TradeFits(v, Parted(trade[v]))
    BY TradeForms DEF Trades
  <1>2. trade' = [trade EXCEPT ![u] = Parted(trade[u]), ![v] = Parted(trade[v])]
    BY DEF BothParted, Trades
  <1> QED
    BY <1>1, <1>2, TradeSetBoth

LEMMA HandleDoneAloneInv ==
    ASSUME Inv, NEW u \in User, HandleDoneAlone(u)
    PROVE  Inv'
  <1>1. Ups'
    BY Taken DEF HandleDoneAlone, Arrives
  <1>2. PICK v \in User : v = Target(u) /\ v # u
    BY Taken DEF HandleDoneAlone, Arrives
  <1>3. Trades'
    BY <1>2, PartedBoth DEF HandleDoneAlone, Inv
  <1>4. Downs'
    BY <1>2, Relayed DEF HandleDoneAlone, Inv
  <1> QED
    BY <1>1, <1>3, <1>4, Kept DEF HandleDoneAlone, client, Inv

LEMMA HandleDoneFirstInv ==
    ASSUME Inv, NEW u \in User, HandleDoneFirst(u)
    PROVE  Inv'
  <1>1. Ups'
    BY Taken DEF HandleDoneFirst, Arrives
  <1>2. PICK B : B = trade[u].bits \cup {"done"}
    OBVIOUS
  <1>3. TradeFits(u, trade[u])
    BY DEF Inv, Trades
  <1>4. B \in SUBSET Agreed
    BY <1>2, <1>3 DEF TradeFits, Agreed
  <1>5. TradeFits(u, [trade[u] EXCEPT !.bits = B])
    BY <1>3, <1>4, TradeForms
  <1>6. trade' = [trade EXCEPT ![u] = [trade[u] EXCEPT !.bits = B]]
    BY <1>2 DEF HandleDoneFirst, Inv, Trades
  <1>7. Trades'
    BY <1>5, <1>6, TradeSet DEF Inv
  <1> QED
    BY <1>1, <1>7, Kept DEF HandleDoneFirst, client, Inv

LEMMA HandleDoneFailsInv ==
    ASSUME Inv, NEW u \in User, HandleDoneFails(u)
    PROVE  Inv'
  <1>1. Ups'
    BY Taken DEF HandleDoneFails, Arrives
  <1>2. PICK v \in User : v = Target(u) /\ v # u
    BY Taken DEF HandleDoneFails, Arrives
  <1>3. Trades'
    BY <1>2, PartedBoth DEF HandleDoneFails, Inv
  <1>4. Downs'
    BY <1>2, Relayed DEF HandleDoneFails, Inv
  <1> QED
    BY <1>1, <1>3, <1>4, Kept DEF HandleDoneFails, client, Inv

LEMMA HandleDoneBothInv ==
    ASSUME Inv, NEW u \in User, HandleDoneBoth(u)
    PROVE  Inv'
  <1>1. Ups'
    BY Taken DEF HandleDoneBoth, Arrives
  <1>2. PICK v \in User : v = Target(u) /\ v # u
    BY Taken DEF HandleDoneBoth, Arrives
  <1>3. Trades'
    BY <1>2, PartedBoth DEF HandleDoneBoth, Inv
  <1>4. Downs'
    BY <1>2, Relayed DEF HandleDoneBoth, Inv
  <1>5. PICK mine, theirs :
           /\ mine = Received(Removed(inv[u], trade[u].offer), trade[v].offer)
           /\ theirs = Received(Removed(inv[v], trade[v].offer), trade[u].offer)
    OBVIOUS
  <1>6. /\ CheckTradeItem(u) /\ CheckTradeItem(v)
        /\ inv' = [inv EXCEPT ![u] = mine.bag, ![v] = theirs.bag]
        /\ ground' = Dropped(mine.rest \cup theirs.rest) /\ consumed' = consumed
    BY <1>2, <1>5 DEF HandleDoneBoth
  <1>7. Goods'
    BY <1>2, <1>5, <1>6, DoneBothGoods DEF Inv
  <1> QED
    BY <1>1, <1>3, <1>4, <1>7, Kept DEF HandleDoneBoth, client, Inv

-----------------------------------------------------------------------------
(***************************************************************************)
(* By what a client makes of a packet.                                     *)
(***************************************************************************)
LEMMA ReceiveRequestInv ==
    ASSUME Inv, NEW u \in User, ReceiveRequest(u)
    PROVE  Inv'
  <1>1. Downs' /\ Notified(u).from \in Others(u)
    BY Read DEF ReceiveRequest, Others
  <1>2. Boxes'
    BY <1>1, BoxSet, Kept DEF ReceiveRequest, Inv
  <1> QED
    BY <1>1, <1>2, Kept DEF ReceiveRequest, Inv

LEMMA ReceiveAcceptInv ==
    ASSUME Inv, NEW u \in User, ReceiveAccept(u)
    PROVE  Inv'
  <1>1. Downs' /\ Notified(u).from \in Others(u)
    BY Read DEF ReceiveAccept, Others
  <1>2. DialogFits(u, Opened(Notified(u).from))
    BY <1>1, DialogForms DEF Inv, Dialogs
  <1>3. Dialogs'
    BY <1>2, DialogSet, Kept DEF ReceiveAccept, Inv
  <1>4. Known'
    <2>1. NotYet \in Seen
      BY DEF NotYet, Seen
    <2> QED
      BY <2>1 DEF ReceiveAccept, Inv, Known
  <1> QED
    BY <1>1, <1>3, <1>4, Kept DEF ReceiveAccept, Inv

LEMMA ReceiveEndInv ==
    ASSUME Inv, NEW u \in User, ReceiveEnd(u)
    PROVE  Inv'
  <1>1. Downs'
    BY Read DEF ReceiveEnd
  <1>2. DialogFits(u, Opened(null))
    BY DialogForms DEF Inv, Dialogs
  <1>3. Dialogs'
    BY <1>2, DialogSet DEF ReceiveEnd, Inv
  <1> QED
    BY <1>1, <1>3, Kept DEF ReceiveEnd, Inv

LEMMA ReceiveReadyInv ==
    ASSUME Inv, NEW u \in User, ReceiveReady(u)
    PROVE  Inv'
  <1>1. Downs'
    BY Read DEF ReceiveReady
  <1>2. DialogFits(u, [dialog[u] EXCEPT !.readyOther = TRUE])
    BY DialogForms DEF Inv, Dialogs
  <1>3. dialog' = [dialog EXCEPT ![u] = [dialog[u] EXCEPT !.readyOther = TRUE]]
    BY DEF ReceiveReady, Inv, Dialogs
  <1>4. Dialogs'
    BY <1>2, <1>3, DialogSet DEF Inv
  <1> QED
    BY <1>1, <1>4, Kept DEF ReceiveReady, Inv

\* An item is taken out of one's own slot.
LEMMA SlotEmptied ==
    ASSUME Inv, NEW u \in User, NEW k \in TradeSlot,
           up' = [up EXCEPT ![u] = Append(@, Packet("take", null, k, dialog[u].mine[k].idx))],
           dialog' = [dialog EXCEPT ![u].mine[k] = NoItem]
    PROVE  Ups' /\ Dialogs'
  <1>1. DialogFits(u, dialog[u])
    BY DEF Inv, Dialogs
  <1>2. dialog[u].mine[k].idx \in 0 .. NInv
    BY <1>1 DEF DialogFits
  <1>3. PICK p \in ToServer(u) : p = Packet("take", null, k, dialog[u].mine[k].idx)
    BY <1>2, ServerPackets
  <1>4. Ups'
    BY <1>3, UpSent DEF Inv
  <1>5. NoItem \in [item : Item \cup {null}, idx : 0 .. NInv]
    BY TradeAssumption DEF NoItem
  <1>6. DialogFits(u, [dialog[u] EXCEPT !.mine[k] = NoItem])
    BY <1>1, <1>5, DialogForms
  <1>7. dialog' = [dialog EXCEPT ![u] = [dialog[u] EXCEPT !.mine[k] = NoItem]]
    BY DEF Inv, Dialogs
  <1>8. Dialogs'
    BY <1>6, <1>7, DialogSet DEF Inv
  <1> QED
    BY <1>4, <1>8

LEMMA ReceiveOutInv ==
    ASSUME Inv, NEW u \in User, ReceiveOut(u)
    PROVE  Inv'
  <1>1. Downs' /\ Notified(u).slot \in TradeSlot
    BY Read DEF ReceiveOut
  <1>2. Ups' /\ Dialogs'
    BY <1>1, SlotEmptied, Kept DEF ReceiveOut, Inv
  <1> QED
    BY <1>1, <1>2, Kept DEF ReceiveOut, Inv

LEMMA ReceiveOfferInv ==
    ASSUME Inv, NEW u \in User, ReceiveOffer(u)
    PROVE  Inv'
  <1>1. Downs' /\ Notified(u).slot \in TradeSlot /\ Notified(u).item \in Item \cup {null}
    BY Read DEF ReceiveOffer
  <1>2. PICK k \in TradeSlot, i \in Item \cup {null} :
           k = Notified(u).slot /\ i = Notified(u).item
    BY <1>1
  <1>3. DialogFits(u, dialog[u])
    BY DEF Inv, Dialogs
  <1>4. DialogFits(u, [dialog[u] EXCEPT !.theirs[k] = i])
    BY <1>3, DialogForms
  <1>5. CASE dialog' = [dialog EXCEPT ![u].theirs[k] = i]
    <2>1. dialog' = [dialog EXCEPT ![u] = [dialog[u] EXCEPT !.theirs[k] = i]]
      BY <1>5 DEF Inv, Dialogs
    <2> QED
      <3>1. Dialogs'
        BY <1>4, <2>1, DialogSet DEF Inv
      <3>2. Ups'
        <4>1. dialog[u].with \in Others(u)
          BY <1>3 DEF DialogFits
        <4>2. PICK p \in ToServer(u) : p = Packet("out", dialog[u].with, k, 0)
          BY <4>1, ServerPackets
        <4> QED
          BY <1>2, <4>2, UpSent, Kept DEF ReceiveOffer, Inv
      <3> QED
        BY <1>1, <3>1, <3>2, Kept DEF ReceiveOffer, Inv
  <1>6. CASE dialog' = dialog /\ UNCHANGED up
    BY <1>1, <1>6, Kept DEF ReceiveOffer, Inv
  <1> QED
    BY <1>2, <1>5, <1>6 DEF ReceiveOffer

LEMMA ReceiveRemovedInv ==
    ASSUME Inv, NEW u \in User, ReceiveRemoved(u)
    PROVE  Inv'
  <1>1. Downs'
    BY Read DEF ReceiveRemoved
  <1>2. PICK m : m = [k \in TradeSlot |-> IF dialog[u].mine[k].idx = Notified(u).slot
                                          THEN NoItem ELSE dialog[u].mine[k]]
    OBVIOUS
  <1>3. DialogFits(u, dialog[u])
    BY DEF Inv, Dialogs
  <1>4. m \in [TradeSlot -> [item : Item \cup {null}, idx : 0 .. NInv]]
    BY <1>2, <1>3, TradeAssumption DEF DialogFits, NoItem
  <1>5. DialogFits(u, [dialog[u] EXCEPT !.mine = m])
    BY <1>3, <1>4, DialogForms
  <1>6. dialog' = [dialog EXCEPT ![u] = [dialog[u] EXCEPT !.mine = m]]
    BY <1>2 DEF ReceiveRemoved, Inv, Dialogs
  <1>7. Dialogs'
    BY <1>5, <1>6, DialogSet DEF Inv
  <1> QED
    BY <1>1, <1>7, Kept DEF ReceiveRemoved, Inv

-----------------------------------------------------------------------------
(***************************************************************************)
(* By what a user does.                                                    *)
(***************************************************************************)
LEMMA AskTradeInv ==
    ASSUME Inv, NEW u \in User, NEW v \in User, AskTrade(u, v)
    PROVE  Inv'
  <1>1. Ups'
    BY Said DEF AskTrade, Inv
  <1> QED
    BY <1>1, Kept DEF AskTrade, Inv

LEMMA AcceptAskedInv ==
    ASSUME Inv, NEW u \in User, AcceptAsked(u)
    PROVE  Inv'
  <1>1. null \in Others(u)
    BY TradeAssumption DEF Others
  <1>2. Boxes'
    BY <1>1, BoxSet DEF AcceptAsked, Inv
  <1>3. asked[u] \in Others(u)
    BY DEF Inv, Boxes
  <1>4. CASE /\ asked[u] \in present
             /\ Says(u, "accept", asked[u])
             /\ dialog' = [dialog EXCEPT ![u] = Opened(asked[u])]
             /\ saw' = [saw EXCEPT ![u] = NotYet]
    <2>1. asked[u] \in User /\ asked[u] # u
      BY <1>3, <1>4 DEF Inv, Known, Others
    <2>2. Ups'
      BY <1>4, <2>1, Said DEF Inv
    <2>3. DialogFits(u, Opened(asked[u]))
      BY <1>3, DialogForms DEF Inv, Dialogs
    <2>4. Dialogs'
      BY <1>4, <2>3, DialogSet DEF Inv
    <2>5. NotYet \in Seen
      BY DEF NotYet, Seen
    <2>6. Known'
      BY <1>4, <2>5 DEF AcceptAsked, Inv, Known
    <2> QED
      BY <1>2, <2>2, <2>4, <2>6, Kept DEF AcceptAsked, Inv
  <1>5. CASE UNCHANGED <<up, dialog, saw>>
    BY <1>2, <1>5, Kept DEF AcceptAsked, Inv
  <1> QED
    BY <1>4, <1>5 DEF AcceptAsked

LEMMA RejectAskedInv ==
    ASSUME Inv, NEW u \in User, RejectAsked(u)
    PROVE  Inv'
  <1>1. null \in Others(u)
    BY TradeAssumption DEF Others
  <1>2. Boxes'
    BY <1>1, BoxSet DEF RejectAsked, Inv
  <1>3. asked[u] \in User /\ asked[u] # u
    BY DEF RejectAsked, Inv, Boxes, Others
  <1>4. Ups'
    BY <1>3, Said DEF RejectAsked, Inv
  <1> QED
    BY <1>2, <1>4, Kept DEF RejectAsked, Inv

LEMMA AddMyItemInv ==
    ASSUME Inv, NEW u \in User, NEW s \in InvIdx, AddMyItem(u, s)
    PROVE  Inv'
  <1>1. PICK k \in TradeSlot :
           /\ dialog' = [dialog EXCEPT ![u].mine[k] = [item |-> inv[u][s], idx |-> s]]
           /\ up' = [up EXCEPT ![u] = Append(@, Packet("put", null, k, s))]
    BY DEF AddMyItem
  <1>2. PICK p \in ToServer(u) : p = Packet("put", null, k, s)
    BY ServerPackets
  <1>3. Ups'
    BY <1>1, <1>2, UpSent DEF Inv
  <1>4. inv[u][s] \in Item \cup {null} /\ s \in 0 .. NInv
    <2>1. inv[u][s] \in Item \cup {null}
      BY DEF Inv, Goods, Placed, Bag
    <2> QED
      BY <2>1, TradeAssumption DEF InvIdx
  <1>5. PICK o \in [item : Item \cup {null}, idx : 0 .. NInv] :
           o = [item |-> inv[u][s], idx |-> s]
    BY <1>4
  <1>6. DialogFits(u, [dialog[u] EXCEPT !.mine[k] = o])
    BY DialogForms DEF Inv, Dialogs
  <1>7. dialog' = [dialog EXCEPT ![u] = [dialog[u] EXCEPT !.mine[k] = o]]
    BY <1>1, <1>5 DEF Inv, Dialogs
  <1>8. Dialogs'
    BY <1>6, <1>7, DialogSet DEF Inv
  <1> QED
    BY <1>3, <1>8, Kept DEF AddMyItem, Inv

LEMMA RemoveMyItemInv ==
    ASSUME Inv, NEW u \in User, NEW k \in TradeSlot, RemoveMyItem(u, k)
    PROVE  Inv'
  <1>1. Ups' /\ Dialogs'
    BY SlotEmptied DEF RemoveMyItem
  <1> QED
    BY <1>1, Kept DEF RemoveMyItem, Inv

\* Whom a dialog is open for.
LEMMA With ==
    ASSUME Inv, NEW u \in User, dialog[u].with # null
    PROVE  dialog[u].with \in User /\ dialog[u].with # u
  BY DEF Inv, Dialogs, DialogFits, Others

LEMMA PressReadyInv ==
    ASSUME Inv, NEW u \in User, PressReady(u)
    PROVE  Inv'
  <1>1. Ups'
    BY With, Said DEF PressReady, MayChange, Inv
  <1>2. DialogFits(u, [dialog[u] EXCEPT !.readyMe = TRUE])
    BY DialogForms DEF Inv, Dialogs
  <1>3. dialog' = [dialog EXCEPT ![u] = [dialog[u] EXCEPT !.readyMe = TRUE]]
    BY DEF PressReady, Inv, Dialogs
  <1>4. Dialogs'
    BY <1>2, <1>3, DialogSet DEF Inv
  <1> QED
    BY <1>1, <1>4, Kept DEF PressReady, Inv

LEMMA PressDoneInv ==
    ASSUME Inv, NEW u \in User, PressDone(u)
    PROVE  Inv'
  <1>1. Ups'
    BY With, Said DEF PressDone, Inv
  <1>2. DialogFits(u, dialog[u])
    BY DEF Inv, Dialogs
  <1>3. \A k \in TradeSlot : /\ dialog[u].mine[k].item \in Item \cup {null}
                             /\ dialog[u].theirs[k] \in Item \cup {null}
    BY <1>2 DEF DialogFits
  <1>4. Shown(u) \in Seen
    BY <1>3 DEF Shown, Seen
  <1>5. Known'
    BY <1>4 DEF PressDone, Inv, Known
  <1> QED
    BY <1>1, <1>5, Kept DEF PressDone, Inv

LEMMA CloseDialogInv ==
    ASSUME Inv, NEW u \in User, CloseDialog(u)
    PROVE  Inv'
  <1>1. Ups'
    BY With, Said DEF CloseDialog, Inv
  <1>2. DialogFits(u, Opened(null))
    BY DialogForms DEF Inv, Dialogs
  <1>3. Dialogs'
    BY <1>2, DialogSet DEF CloseDialog, Inv
  <1> QED
    BY <1>1, <1>3, Kept DEF CloseDialog, Inv

\* An item leaves the inventory, and u's client is told.
LEMMA LeavesInv ==
    ASSUME Inv, NEW u \in User, NEW s \in InvIdx, Leaves(u, s)
    PROVE  Trades' /\ Dialogs' /\ Boxes' /\ Ups' /\ Downs' /\ Known'
  <1>1. PICK p \in ToClient(u) : p = Notice("removed", null, s, null)
    BY DEF ToClient, Notice
  <1>2. Downs'
    BY <1>1, DownSent DEF Leaves, Inv
  <1>3. Known'
    BY DEF Leaves, client, Inv, Known
  <1> QED
    BY <1>2, <1>3, Kept DEF Leaves, client, Inv

LEMMA InventoryInv ==
    ASSUME Inv, NEW u \in User
    PROVE  /\ \A s \in InvIdx : UseItem(u, s) \/ DropItem(u, s) => Inv'
           /\ \A i \in Item : PickUp(u, i) => Inv'
  <1>1. ASSUME NEW s \in InvIdx, UseItem(u, s) PROVE Inv'
    BY <1>1, LeavesInv, UseItemGoods DEF UseItem, Inv
  <1>2. ASSUME NEW s \in InvIdx, DropItem(u, s) PROVE Inv'
    BY <1>2, LeavesInv, DropItemGoods DEF DropItem, Inv
  <1>3. ASSUME NEW i \in Item, PickUp(u, i) PROVE Inv'
    BY <1>3, PickUpGoods, Kept DEF PickUp, client, Inv
  <1> QED
    BY <1>1, <1>2, <1>3

-----------------------------------------------------------------------------
LEMMA InitInv == Init => Inv
  <1> SUFFICES ASSUME Init PROVE Inv
    OBVIOUS
  <1>1. null \notin Item /\ \A u \in User : null \in Others(u)
    BY TradeAssumption DEF Others
  <1>2. Goods
    <2>1. inv \in [User -> Bag] /\ Injective(inv) /\ ground = Item \ Carried(inv) /\ consumed = {}
      BY DEF Init, Bag
    <2>2. \A u \in User, s \in InvIdx : inv[u][s] \in Item \cup {null}
      BY <2>1 DEF Bag
    <2>3. \A i : i \in Carried(inv) <=> \E u \in User : i \in Held(inv, u)
      BY DEF Carried
    <2>4. \A u \in User : \A i : i \in Held(inv, u) <=> i \in Item /\ In(inv[u], i)
      BY <1>1, <2>2 DEF Held, In
    <2>5. \A i : i \in Carried(inv) <=> i \in Item /\ CarriedBy(inv, i)
      BY <2>3, <2>4 DEF CarriedBy
    <2> QED
      BY <2>1, <2>5 DEF Goods, Placed
  <1>3. NoOffer \in [TradeSlot -> TradeSlotData] /\ \A k \in TradeSlot : ~NoOffer[k].typed
    BY TradeAssumption DEF NoOffer, TradeSlotData
  <1>4. Trades
    BY <1>1, <1>3 DEF Init, Trades, TradeFits, NoTrade
  <1>5. Dialogs
    <2>1. NoneMine \in [TradeSlot -> [item : Item \cup {null}, idx : 0 .. NInv]]
      BY TradeAssumption DEF NoneMine, NoItem
    <2> QED
      BY <1>1, <2>1 DEF Init, Dialogs, DialogFits, Opened, Nothing
  <1>6. Boxes
    <2>1. asked = [u \in User |-> null]
      BY DEF Init
    <2>2. \A u \in User : asked[u] = null
      BY <2>1
    <2> QED
      BY <1>1, <2>1, <2>2 DEF Boxes
  <1>7. Ups /\ Downs
    <2>1. \A u \in User : <<>> \in Seq(ToServer(u)) /\ <<>> \in Seq(ToClient(u))
      OBVIOUS
    <2> QED
      BY <2>1 DEF Init, Ups, Downs
  <1>8. Known
    BY DEF Init, Known, Seen, NotYet
  <1> QED
    BY <1>2, <1>4, <1>5, <1>6, <1>7, <1>8 DEF Inv

LEMMA NextInv == Inv /\ [Next]_vars => Inv'
  <1> SUFFICES ASSUME Inv, [Next]_vars PROVE Inv'
    OBVIOUS
  <1>1. CASE UNCHANGED vars
    BY <1>1, Kept DEF vars, goods, Inv
  <1>2. ASSUME NEW u \in User, Handle(u) PROVE Inv'
    BY <1>2, HandleNoTargetInv, HandleRequestInv, HandleAcceptInv, HandleCancelInv,
       HandleReadyInv, HandleOutInv, HandleUnofferedInv, HandlePutInv, HandleTakeInv,
       HandleDoneAloneInv, HandleDoneFirstInv, HandleDoneFailsInv, HandleDoneBothInv
       DEF Handle
  <1>3. ASSUME NEW u \in User, Receive(u) PROVE Inv'
    BY <1>3, ReceiveRequestInv, ReceiveAcceptInv, ReceiveEndInv, ReceiveReadyInv,
       ReceiveOutInv, ReceiveOfferInv, ReceiveRemovedInv
       DEF Receive
  <1>4. ASSUME NEW u \in User, Act(u) PROVE Inv'
    BY <1>4, AskTradeInv, AcceptAskedInv, RejectAskedInv, AddMyItemInv, InventoryInv,
       RemoveMyItemInv, PressReadyInv, PressDoneInv, CloseDialogInv, GoneInv
       DEF Act, Quit
  <1> QED
    BY <1>1, <1>2, <1>3, <1>4 DEF Next

\* The places of the items, the types of what users offer and see, and those of all
\* packets under way, in every state.
THEOREM Invariance == Spec => []Inv
  BY InitInv, NextInv, PTL DEF Spec

\* Every variable has its type, and what is offered is an item of an inventory place.
THEOREM TypeCorrect == Spec => []TypeOK
  <1>1. Inv => TypeOK
    <2> SUFFICES ASSUME Inv PROVE TypeOK
      OBVIOUS
    <2>1. /\ inv \in [User -> [InvIdx -> Item \cup {null}]]
          /\ ground \subseteq Item /\ consumed \subseteq Item
          /\ present \subseteq User /\ upset \subseteq User
      BY DEF Inv, Goods, Placed, Bag, Known
    <2>2. ASSUME NEW u \in User
          PROVE  /\ trade[u].partner \in (User \cup {null}) \ {u}
                 /\ trade[u].bits \subseteq Agreed
                 /\ trade[u].offer \in [TradeSlot -> [item : Item \cup {null}, typed : BOOLEAN,
                                                      idx : 0 .. NInv]]
                 /\ \A k \in TradeSlot : trade[u].offer[k].typed =>
                       trade[u].offer[k].item # null /\ trade[u].offer[k].idx # 0
      BY DEF Inv, Trades, TradeFits, TradeSlotData, Others
    <2>3. ASSUME NEW u \in User
          PROVE  /\ dialog[u].with \in (User \cup {null}) \ {u}
                 /\ dialog[u].mine \in [TradeSlot -> [item : Item \cup {null}, idx : 0 .. NInv]]
                 /\ dialog[u].theirs \in [TradeSlot -> Item \cup {null}]
      BY DEF Inv, Dialogs, DialogFits, Others
    <2>4. ASSUME NEW u \in User
          PROVE  /\ asked[u] \in User \cup {null}
                 /\ saw[u].mine \cup saw[u].theirs \subseteq Item
      BY DEF Inv, Boxes, Others, Known, Seen
    <2> QED
      BY <2>1, <2>2, <2>3, <2>4 DEF TypeOK
  <1> QED
    BY <1>1, Invariance, PTL

\* No item is copied or lost: every one is in one place of one inventory, on the ground
\* or used up, whatever the users do, in whichever order their packets are handled, and
\* whoever is cut off.
THEOREM ConservedSafety == Spec => []Conserved
  <1>1. Inv => Conserved
    BY GoodsMean DEF Inv
  <1> QED
    BY <1>1, Invariance, PTL
=============================================================================
