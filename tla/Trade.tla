-------------------------------- MODULE Trade --------------------------------
(***************************************************************************)
(* server/game: trading between players (TradeHandler.cpp, TradeData.cpp). *)
(*                                                                         *)
(* The handlers run on the world thread, one at a time.  What is not under *)
(* their control happens between them: a client accepts an offer that has  *)
(* changed meanwhile, money is spent, a bag fills up, an item that is on   *)
(* offer is used up, a trader leaves the world.                            *)
(*                                                                         *)
(* An item is a model value with an owner, a bag holds Capacity items.     *)
(* Stacks appear as changes of an item's count (SetCount), a spell on the  *)
(* partner's item as there or not there.  Of the checks of distance, bonds *)
(* and spells only the outcome is modelled.  UpdateServerStateIndex draws  *)
(* a random number; here the indexes are fresh.                            *)
(***************************************************************************)
EXTENDS Integers, FiniteSets, SequencesExt

CONSTANTS
    Players, Items,
    Owner,       \* whose the items are at first
    Coins,       \* the players' money at first
    MaxMoney,    \* MAX_MONEY_AMOUNT
    Outside,     \* bound: money the players may earn
    Capacity,    \* bound: items a player's bags hold
    Traded,      \* bound: TRADE_SLOT_TRADED_COUNT
    MaxChanges,  \* bound: changes of an offer
    Late,        \* bound: updates among which is the one a client answers to
    Nobody, NoItem

NonTraded == Traded + 1  \* TRADE_SLOT_NONTRADED
Slots == 1..NonTraded

Gone == "gone"  \* an item that is in no player's bags and never will be
Lost == "lost"  \* an item that a trade took and gave to nobody

ASSUME ConstantsAssumption ==
    /\ IsFiniteSet(Players) /\ Players \cap {Nobody, Gone, Lost} = {}
    /\ IsFiniteSet(Items) /\ NoItem \notin Items
    /\ {MaxMoney, Outside, Capacity, Traded, MaxChanges, Late} \subseteq Nat
    /\ Owner \in [Items -> Players]
    /\ Coins \in [Players -> 0..MaxMoney]

VARIABLES
    online,   \* the players in the world
    owner,    \* the player whose bags hold the item
    money,    \* GetMoney
    outside,  \* the money of the rest of the world
    trade,    \* m_trade
    indexes,  \* how many state indexes were drawn
    view,     \* the last updates of a partner's offer that a player was sent
    agreed    \* history: the offers of both as a player accepted them

vars == <<online, owner, money, outside, trade, indexes, view, agreed>>

NoItems == [s \in Slots |-> NoItem]

NewTrade(q) == [trader |-> q, accepted |-> FALSE, money |-> 0, spell |-> FALSE,
                items |-> NoItems, index |-> 1]

NoTrade == NewTrade(Nobody)

Trading(p) == trade[p].trader # Nobody

(* What a TradeData offers. *)
Terms(t) == [money |-> t.money, spell |-> t.spell, items |-> t.items]

View(t) == [index |-> t.index, terms |-> Terms(t)]

(* SendUpdateTrade: the client p is shown the offer t. *)
Shown(p, t) == LET all == Append(view[p], View(t))
               IN  SubSeq(all, IF Len(all) > Late THEN 2 ELSE 1, Len(all))

NothingAgreed == [mine |-> Terms(NoTrade), his |-> Terms(NoTrade)]

(* An agreement is forgotten when the acceptance is withdrawn or the trade ends. *)
Standing(a) == [p \in Players |-> IF trade'[p].accepted THEN a[p] ELSE NothingAgreed]

Init ==
    /\ online = Players
    /\ owner = Owner
    /\ money = Coins
    /\ outside = Outside
    /\ trade = [p \in Players |-> NoTrade]
    /\ indexes = 1
    /\ view = [p \in Players |-> <<>>]
    /\ agreed = [p \in Players |-> NothingAgreed]

-----------------------------------------------------------------------------
(* Beginning and ending. *)

\* Mutant: whether the other is trading already is not looked at.
HandleInitiateTrade_Busy(p, q) ==
    /\ {p, q} \subseteq online /\ p # q
    /\ ~Trading(p)
    /\ trade' = [trade EXCEPT ![p] = NewTrade(q), ![q] = NewTrade(p)]
    /\ view' = [view EXCEPT ![p] = Shown(p, NoTrade), ![q] = Shown(q, NoTrade)]
    /\ agreed' = Standing(agreed)
    /\ UNCHANGED <<online, owner, money, outside, indexes>>

(* HandleInitiateTradeOpcode, all checks passed. *)
HandleInitiateTrade(p, q) ==
    /\ {p, q} \subseteq online /\ p # q
    /\ ~Trading(p) /\ ~Trading(q)
    /\ trade' = [trade EXCEPT ![p] = NewTrade(q), ![q] = NewTrade(p)]
    /\ view' = [view EXCEPT ![p] = Shown(p, NoTrade), ![q] = Shown(q, NoTrade)]
    /\ agreed' = Standing(agreed)
    /\ UNCHANGED <<online, owner, money, outside, indexes>>

(* TradeCancel: both TradeData are deleted. *)
TradeCancel(p) ==
    LET both == {p, trade[p].trader} \cap Players
    IN  IF Trading(p)
        THEN /\ trade' = [r \in Players |-> IF r \in both THEN NoTrade ELSE trade[r]]
             /\ agreed' = Standing(agreed)
        ELSE UNCHANGED <<trade, agreed>>

(* HandleCancelTradeOpcode, and ActivateTaxiPathTo. *)
HandleCancelTrade(p) ==
    /\ p \in online /\ Trading(p)
    /\ TradeCancel(p)
    /\ UNCHANGED <<online, owner, money, outside, indexes, view>>

(* CleanupsBeforeDelete of a player who leaves the world. *)
Logout(p) ==
    /\ p \in online
    /\ online' = online \ {p}
    /\ TradeCancel(p)
    /\ UNCHANGED <<owner, money, outside, indexes, view>>

Login(p) ==
    /\ p \notin online
    /\ online' = online \cup {p}
    /\ UNCHANGED <<owner, money, outside, trade, indexes, view, agreed>>

-----------------------------------------------------------------------------
(* Changing an offer. *)

\* Mutant: the offer keeps its state index.
Change_SameIndex(p, mine, clear) ==
    LET q == trade[p].trader
        his == [trade[q] EXCEPT !.accepted = FALSE, !.spell = @ /\ ~clear,
                                !.index = IF clear /\ trade[q].spell
                                          THEN indexes + 1 ELSE @]
        my == [mine EXCEPT !.accepted = FALSE]
    IN  /\ indexes <= MaxChanges
        /\ indexes' = indexes + 1
        /\ trade' = [trade EXCEPT ![p] = my, ![q] = his]
        /\ view' = [view EXCEPT ![q] = Shown(q, my),
                                 ![p] = IF his.index # trade[q].index
                                        THEN Shown(p, his) ELSE @]
        /\ agreed' = Standing(agreed)
        /\ UNCHANGED <<online, owner, money, outside>>

(* What SetItem, SetSpell and SetMoney have in common: the offer of p becomes
   mine, neither player accepts any more, the offer has a new state index and
   the other is shown it.  clear: the other's spell is taken away too. *)
Change(p, mine, clear) ==
    LET q == trade[p].trader
        his == [trade[q] EXCEPT !.accepted = FALSE, !.spell = @ /\ ~clear,
                                !.index = IF clear /\ trade[q].spell
                                          THEN indexes + 1 ELSE @]
        my == [mine EXCEPT !.accepted = FALSE, !.index = indexes + 1]
    IN  /\ indexes <= MaxChanges
        /\ indexes' = indexes + 1
        /\ trade' = [trade EXCEPT ![p] = my, ![q] = his]
        /\ view' = [view EXCEPT ![q] = Shown(q, my),
                                 ![p] = IF his.index # trade[q].index
                                        THEN Shown(p, his) ELSE @]
        /\ agreed' = Standing(agreed)
        /\ UNCHANGED <<online, owner, money, outside>>

(* TradeData::SetItem after its early return; item may be NoItem. *)
SetItem(p, slot, item) ==
    Change(p, [trade[p] EXCEPT !.items[slot] = item, !.spell = FALSE],
           slot = NonTraded)

(* HandleSetTradeItemOpcode and HandleClearTradeItemOpcode.  An item that is on
   offer already, or may not be traded, is not put on offer. *)
HandleSetTradeItem(p, slot, item) ==
    /\ Trading(p)
    /\ owner[item] = p
    /\ \A s \in Slots : trade[p].items[s] # item
    /\ SetItem(p, slot, item)

HandleClearTradeItem(p, slot) ==
    /\ Trading(p)
    /\ trade[p].items[slot] # NoItem
    /\ SetItem(p, slot, NoItem)

(* Item::SetCount of an item that is on offer. *)
SetCount(p, slot) ==
    LET item == trade[p].items[slot]
    IN  /\ Trading(p)
        /\ item # NoItem /\ owner[item] = p
        /\ SetItem(p, slot, item)

(* HandleSetTradeGoldOpcode, SetMoney. *)
HandleSetTradeGold(p, amount) ==
    /\ Trading(p)
    /\ amount # trade[p].money
    /\ money[p] >= amount
    /\ Change(p, [trade[p] EXCEPT !.money = amount], FALSE)

(* Is there an item in the slot of the offer? (GetItem) *)
Item(p, slot) == /\ trade[p].items[slot] # NoItem
                 /\ owner[trade[p].items[slot]] = p

(* A spell is cast on the item in the partner's last slot: SetSpell. *)
SetSpell(p) ==
    /\ Trading(p)
    /\ ~trade[p].spell
    /\ Item(trade[p].trader, NonTraded)
    /\ Change(p, [trade[p] EXCEPT !.spell = TRUE], FALSE)

-----------------------------------------------------------------------------
(* Accepting. *)

(* HandleUnacceptTradeOpcode. *)
HandleUnacceptTrade(p) ==
    /\ Trading(p) /\ trade[p].accepted
    /\ trade' = [trade EXCEPT ![p].accepted = FALSE]
    /\ agreed' = Standing(agreed)
    /\ UNCHANGED <<online, owner, money, outside, indexes, view>>

(* SetAccepted of p, who answers to v, and at the same time of his partner. *)
Accepted(p, v, mine, his) ==
    /\ trade' = [trade EXCEPT ![p].accepted = mine, ![trade[p].trader].accepted = his]
    /\ agreed' = Standing([agreed EXCEPT
                    ![p] = [mine |-> Terms(trade[p]), his |-> v.terms]])
    /\ UNCHANGED <<online, owner, money, outside, indexes, view>>

(* The checks of HandleAcceptTradeOpcode that p, who accepts, has to pass. *)
PlayerRefused(p, v) ==
    LET q == trade[p].trader
    IN  \/ v.index # trade[q].index
        \/ money[p] < trade[p].money
        \/ /\ money[q] >= trade[q].money
           /\ money[p] > MaxMoney - trade[q].money

\* Mutant: the trader's money is not looked at again.
TraderRefused_Unchecked(p) == money[trade[p].trader] > MaxMoney - trade[p].money

(* The checks that his partner has to pass. *)
TraderRefused(p) ==
    LET q == trade[p].trader
    IN  money[q] < trade[q].money \/ money[q] > MaxMoney - trade[p].money

(* p accepts and is refused: too far away is one of the reasons. *)
AcceptRefused(p, v) ==
    /\ Trading(p)
    /\ Accepted(p, v, FALSE, trade[trade[p].trader].accepted)

(* The partner is refused: p has accepted, his partner has not any more. *)
AcceptTraderRefused(p, v) ==
    /\ Trading(p)
    /\ ~PlayerRefused(p, v) /\ TraderRefused(p)
    /\ Accepted(p, v, TRUE, FALSE)

(* p has accepted first, or an item on offer cannot be traded any more. *)
AcceptFirst(p, v) ==
    LET q == trade[p].trader
    IN  /\ Trading(p)
        /\ ~PlayerRefused(p, v) /\ ~TraderRefused(p)
        /\ \/ ~trade[q].accepted
           \/ \E s \in 1..Traded : Item(p, s) \/ Item(q, s)
        /\ Accepted(p, v, TRUE, trade[q].accepted)

\* Mutant: whether the partner has accepted is not looked at.
BothAccept_Unasked(p, v) ==
    /\ Trading(p)
    /\ ~PlayerRefused(p, v) /\ ~TraderRefused(p)

(* Both have accepted. *)
BothAccept(p, v) ==
    /\ Trading(p)
    /\ ~PlayerRefused(p, v) /\ ~TraderRefused(p)
    /\ trade[trade[p].trader].accepted

(* A spell cannot be cast, or its item is not there: SetSpell(0) of its caster. *)
AcceptSpellFails(p, v) ==
    /\ BothAccept(p, v)
    /\ \E r \in {p, trade[p].trader} :
        /\ trade[r].spell
        /\ r # p /\ trade[p].spell => Item(r, NonTraded)
        /\ Change(r, [trade[r] EXCEPT !.spell = FALSE], FALSE)

SpellsOk(p) == \A r \in {p, trade[p].trader} :
                  trade[r].spell => Item(trade[r].trader, NonTraded)

(* The items that change hands. *)
Offered(p) == {trade[p].items[s] : s \in {t \in 1..Traded : Item(p, t)}}

Bags(p) == {i \in Items : owner[i] = p}

\* Mutant: the items that the receiver gives are not counted, nor those he gets.
CanStoreItems_Any(p, q) == Cardinality(Bags(p)) <= Capacity

(* CanStoreItems: the bags of p hold what q offers, once what p offers is out. *)
CanStoreItems(p, q) ==
    Cardinality((Bags(p) \ Offered(p)) \cup Offered(q)) <= Capacity

(* No room: neither accepts any more. *)
AcceptNoRoom(p, v) ==
    LET q == trade[p].trader
    IN  /\ BothAccept(p, v)
        /\ SpellsOk(p)
        /\ ~CanStoreItems(p, q) \/ ~CanStoreItems(q, p)
        /\ Accepted(p, v, FALSE, FALSE)

(* moveItems, slot by slot, out of the owners' hands: what does not fit goes
   back, and what does not go back either is lost. *)
MoveItems(p, q) ==
    LET mine(s) == IF Item(p, s) THEN {trade[p].items[s]} ELSE {}
        his(s)  == IF Item(q, s) THEN {trade[q].items[s]} ELSE {}
        room(o, r) == Cardinality({i \in Items : o[i] = r}) < Capacity
        give(o, is, r) == [i \in Items |->
            IF i \in is THEN (IF room(o, r) THEN r ELSE Lost) ELSE o[i]]
        slot(o, s) ==
            IF (mine(s) = {} \/ room(o, q)) /\ (his(s) = {} \/ room(o, p))
            THEN give(give(o, mine(s), q), his(s), p)
            ELSE give(give(o, mine(s), p), his(s), q)
        removed == [i \in Items |->
            IF i \in Offered(p) \cup Offered(q) THEN Lost ELSE owner[i]]
    IN  FoldLeft(slot, removed, [s \in 1..Traded |-> s])

(* ModifyMoney(-out), then ModifyMoney(in). *)
ModifyMoney(has, out, in) ==
    LET rest == IF has > out THEN has - out ELSE 0
    IN  IF rest <= MaxMoney - in THEN rest + in ELSE rest

(* The trade takes place.  Both TradeData are deleted. *)
AcceptTrade(p, v) ==
    LET q == trade[p].trader
    IN  /\ BothAccept(p, v)
        /\ SpellsOk(p)
        /\ CanStoreItems(p, q) /\ CanStoreItems(q, p)
        /\ owner' = MoveItems(p, q)
        /\ money' = [money EXCEPT
                        ![p] = ModifyMoney(@, trade[p].money, trade[q].money),
                        ![q] = ModifyMoney(@, trade[q].money, trade[p].money)]
        /\ TradeCancel(p)
        /\ UNCHANGED <<online, outside, indexes, view>>

HandleAcceptTrade(p, v) ==
    \/ AcceptRefused(p, v) \/ AcceptTraderRefused(p, v) \/ AcceptFirst(p, v)
    \/ AcceptSpellFails(p, v) \/ AcceptNoRoom(p, v) \/ AcceptTrade(p, v)

-----------------------------------------------------------------------------
(* What happens to a player otherwise. *)

(* An item is used up, sold, sent away, or its time is over. *)
Vanish(i) ==
    /\ owner[i] \in online
    /\ owner' = [owner EXCEPT ![i] = Gone]
    /\ UNCHANGED <<online, money, outside, trade, indexes, view, agreed>>

Spend(p) ==
    /\ p \in online /\ money[p] > 0
    /\ money' = [money EXCEPT ![p] = @ - 1]
    /\ outside' = outside + 1
    /\ UNCHANGED <<online, owner, trade, indexes, view, agreed>>

Earn(p) ==
    /\ p \in online /\ outside > 0 /\ money[p] < MaxMoney
    /\ money' = [money EXCEPT ![p] = @ + 1]
    /\ outside' = outside - 1
    /\ UNCHANGED <<online, owner, trade, indexes, view, agreed>>

-----------------------------------------------------------------------------
Next ==
    \/ \E p \in Players :
        \/ \E q \in Players : HandleInitiateTrade(p, q)
        \/ HandleCancelTrade(p) \/ Logout(p) \/ Login(p)
        \/ \E s \in Slots : \/ \E i \in Items : HandleSetTradeItem(p, s, i)
                            \/ HandleClearTradeItem(p, s)
                            \/ SetCount(p, s)
        \/ \E m \in 0..MaxMoney : HandleSetTradeGold(p, m)
        \/ SetSpell(p)
        \/ HandleUnacceptTrade(p)
        \/ \E v \in Range(view[p]) : HandleAcceptTrade(p, v)
        \/ Spend(p) \/ Earn(p)
    \/ \E i \in Items : Vanish(i)

Spec == Init /\ [][Next]_vars

-----------------------------------------------------------------------------
(* Properties. *)

(* Every variable has its type; no player has more than MAX_MONEY_AMOUNT. *)
TypeOK ==
    /\ online \subseteq Players
    /\ owner \in [Items -> Players \cup {Gone, Lost}]
    /\ money \in [Players -> 0..MaxMoney] /\ outside \in Nat
    /\ trade \in [Players -> [trader: Players \cup {Nobody}, accepted: BOOLEAN,
                              money: 0..MaxMoney, spell: BOOLEAN,
                              items: [Slots -> Items \cup {NoItem}],
                              index: 1..(MaxChanges + 1)]]
    /\ indexes \in 1..(MaxChanges + 1)

(* The two TradeData of a trade exist together and name each other, and both
   players are in the world: _trader and GetTraderData() never dangle, whoever
   begins, cancels, completes or leaves. *)
Paired ==
    \A p \in Players : Trading(p) =>
        trade[trade[p].trader].trader = p /\ {p, trade[p].trader} \subseteq online

(* While an acceptance stands, both offers are what they were when the client
   accepted, to the slot and the coin, although its packet may have been on the
   way while the offers changed.  So no trade takes place that one of the two has
   not seen.  (An item that is used up stays in the slot of an offer.) *)
AcceptedSeen ==
    \A p \in Players : Trading(p) /\ trade[p].accepted =>
        agreed[p] = [mine |-> Terms(trade[p]), his |-> Terms(trade[trade[p].trader])]

(* A trade makes no money and loses none, and nobody pays what he does not have or
   gets more than MAX_MONEY_AMOUNT, although money is spent and earned while two
   acceptances are on their way. *)
MoneyKept ==
    /\ money \in [Players -> 0..MaxMoney]
    /\ SumFunction(money) + outside = Outside + SumFunction(Coins)

(* No item is lost on its way from one bag to the other: CanStoreItems looks at
   all items at once, moveItems stores them slot by slot. *)
ItemsKept == \A i \in Items : owner[i] # Lost

(* In this step something of p becomes something of q. *)
PassedFrom(p, q) ==
    \/ \E i \in Items : owner[i] = p /\ owner'[i] = q
    \/ money'[p] < money[p] /\ money'[q] > money[q]

(* The items that an offer names, there or not. *)
Promised(terms) == {terms.items[s] : s \in 1..Traded} \ {NoItem}

(* In this step p, who has been shown what q offers, and q, who has accepted both
   offers as they are, exchange what q agreed to and nothing else: each item that
   was promised and that its owner still has, and all the money.  Their trade is
   over. *)
Exchanged(p, q) ==
    LET mine == agreed[q].mine
        his == agreed[q].his
    IN  /\ trade[p].trader = q /\ trade[q].accepted
        /\ mine = Terms(trade[q]) /\ his = Terms(trade[p])
        /\ View(trade[q]) \in Range(view[p])
        /\ \A i \in Items : owner'[i] =
              IF i \in Promised(his) /\ owner[i] = p THEN q
              ELSE IF i \in Promised(mine) /\ owner[i] = q THEN p ELSE owner[i]
        /\ money' = [money EXCEPT ![p] = @ - his.money + mine.money,
                                  ![q] = @ - mine.money + his.money]
        /\ ~Trading(p)' /\ ~Trading(q)'

(* Between two players items and money change hands only in one step and as
   agreed: never an offer that was changed after the other had accepted it, never
   less than is there of it, never twice (HandleAcceptTradeOpcode, moveItems).
   What this does not promise is a whole offer: an item used up since it was
   offered does not hold up the trade, and is paid for. *)
TradesAsAgreed ==
    [][\A p, q \in Players : p # q /\ PassedFrom(p, q) =>
            Exchanged(p, q) \/ Exchanged(q, p)]_vars

(* What HandleAcceptTradeOpcode says of its checks: "not accept if some items now
   can't be trade (cheating)" (TradeHandler.cpp:306).  The code does not keep this: an
   item that is no longer there is not looked at. *)
OffersWhole ==
    [][\A p, q \in Players : p # q /\ PassedFrom(p, q) =>
            \A r \in {p, q} : \A i \in Promised(Terms(trade[r])) : owner[i] = r]_vars
=============================================================================
