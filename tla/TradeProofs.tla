----------------------------- MODULE TradeProofs -----------------------------
(***************************************************************************)
(* Proofs about Trade, for any players, items, money, and bounds: the two  *)
(* TradeData of a trade are always paired, an acceptance stands only while *)
(* both offers are what the client saw when it accepted, and a trade makes *)
(* and loses neither money nor items.                                      *)
(*                                                                         *)
(* The second rests on the state indexes: a client that answers with the   *)
(* index of an offer has been shown that offer as it is.  The last rests   *)
(* on what moveItems, a fold over the slots, comes to (MoveItemsSwaps).    *)
(***************************************************************************)
EXTENDS Trade, SequenceTheorems, FiniteSetTheorems, WellFoundedInduction, TLAPS

Offers == [money: 0..MaxMoney, spell: BOOLEAN, items: [Slots -> Items \cup {NoItem}]]

TradeData == [trader: Players \cup {Nobody}, accepted: BOOLEAN, money: 0..MaxMoney,
              spell: BOOLEAN, items: [Slots -> Items \cup {NoItem}],
              index: Nat \ {0}]

Views == [index: Nat \ {0}, terms: Offers]

(* The types of what a trade is made of; those of bags and purses are in
   GoodsType. *)
DataType ==
    /\ online \subseteq Players
    /\ trade \in [Players -> TradeData]
    /\ indexes \in Nat \ {0}
    /\ view \in [Players -> Seq(Views)]
    /\ agreed \in [Players -> [mine: Offers, his: Offers]]

(* Nobody trades with himself. *)
NotAlone == \A p \in Players : trade[p].trader # p

(* No offer has an index that UpdateServerStateIndex has yet to draw. *)
IndexesDrawn ==
    \A p \in Players : /\ trade[p].index <= indexes
                       /\ \A v \in Range(view[p]) : v.index <= indexes

(* The first index is the one of an empty offer. *)
FirstEmpty ==
    \A p \in Players :
        /\ trade[p].index = 1 => Terms(trade[p]) = Terms(NoTrade)
        /\ \A v \in Range(view[p]) : v.index = 1 => v.terms = Terms(NoTrade)

(* What a client was shown with the index the offer has now is the offer. *)
ShownAsIs ==
    \A p \in Players : Trading(p) =>
        \A v \in Range(view[p]) :
            v.index = trade[trade[p].trader].index =>
                v.terms = Terms(trade[trade[p].trader])

IInv ==
    /\ DataType
    /\ NotAlone /\ IndexesDrawn /\ FirstEmpty /\ ShownAsIs
    /\ Paired /\ AcceptedSeen

-----------------------------------------------------------------------------
(* The offers of a trade, and an empty one, have their types. *)
LEMMA NoTradeType ==
  /\ NoTrade \in TradeData /\ NoTrade.trader = Nobody /\ ~NoTrade.accepted /\ NoTrade.index = 1
  /\ \A q \in Players : /\ NewTrade(q) \in TradeData /\ NewTrade(q).trader = q
                        /\ ~NewTrade(q).accepted /\ NewTrade(q).index = 1
                        /\ Terms(NewTrade(q)) = Terms(NoTrade)
  /\ \A t \in TradeData : Terms(t) \in Offers
  /\ NothingAgreed \in [mine: Offers, his: Offers]
<1>1. 0 \in 0..MaxMoney /\ NoItems \in [Slots -> Items \cup {NoItem}]
  BY ConstantsAssumption DEF NoItems
<1>2. \A t \in TradeData : Terms(t) \in Offers
  BY DEF Terms, Offers, TradeData
<1>3. \A q \in Players \cup {Nobody} : NewTrade(q) \in TradeData
  BY <1>1 DEF NewTrade, TradeData
<1> QED
  BY <1>2, <1>3 DEF NewTrade, NoTrade, Terms, NothingAgreed

(* After SendUpdateTrade a client knows what it knew, and the offer. *)
LEMMA ShownRange ==
  ASSUME DataType, NEW p \in Players, NEW t \in TradeData
  PROVE  /\ Shown(p, t) \in Seq(Views)
         /\ \A v \in Range(Shown(p, t)) : v \in Range(view[p]) \/ v = View(t)
<1> DEFINE all == Append(view[p], View(t))
           k   == IF Len(all) > Late THEN 2 ELSE 1
<1>1. view[p] \in Seq(Views) /\ View(t) \in Views
  BY NoTradeType DEF DataType, View, Views, TradeData
<1>2. /\ all \in Seq(Views) /\ Len(all) = Len(view[p]) + 1 /\ Len(view[p]) \in Nat
      /\ \A i \in 1..Len(all) : (i \in 1..Len(view[p]) /\ all[i] = view[p][i]) \/ all[i] = View(t)
  BY <1>1
<1>3. /\ SubSeq(all, k, Len(all)) \in Seq(Views)
      /\ \A i \in 1..Len(SubSeq(all, k, Len(all))) :
            k + i - 1 \in 1..Len(all) /\ SubSeq(all, k, Len(all))[i] = all[k + i - 1]
  <2> HIDE DEF all
  <2>1. k \in {1, 2} /\ Len(all) \in Nat \ {0}
    BY <1>2
  <2>2. \A i \in k..Len(all) : all[i] \in Views
    BY <1>2, <2>1
  <2>3. /\ SubSeq(all, k, Len(all)) \in Seq(Views)
        /\ Len(SubSeq(all, k, Len(all))) = IF k <= Len(all) THEN Len(all) - k + 1 ELSE 0
        /\ \A i \in 1..Len(all) - k + 1 : SubSeq(all, k, Len(all))[i] = all[k + i - 1]
    <3> HIDE DEF k
    <3> QED
      BY <2>1, <2>2, SubSeqProperties
  <2> QED
    BY <2>1, <2>3
<1>4. Shown(p, t) = SubSeq(all, k, Len(all))
  BY DEF Shown
<1> HIDE DEF k
<1>5. ASSUME NEW v \in Range(Shown(p, t)) PROVE \E i \in 1..Len(all) : v = all[i]
  <2>1. DOMAIN Shown(p, t) = 1..Len(Shown(p, t))
    BY <1>3, <1>4, LenProperties
  <2>2. PICK i \in 1..Len(Shown(p, t)) : v = Shown(p, t)[i]
    BY <2>1 DEF Range
  <2> QED
    BY <1>3, <1>4, <2>2
<1>6. \A i \in 1..Len(view[p]) : view[p][i] \in Range(view[p])
  <2>1. DOMAIN view[p] = 1..Len(view[p])
    BY <1>1, LenProperties
  <2> QED
    BY <2>1 DEF Range
<1>7. ASSUME NEW v \in Range(Shown(p, t)) PROVE v \in Range(view[p]) \/ v = View(t)
  <2>1. PICK i \in 1..Len(all) : v = all[i]
    BY <1>5
  <2> HIDE DEF all
  <2> QED
    BY <1>2, <1>6, <2>1
<1> QED
  BY <1>3, <1>4, <1>7

(* Two traders are two players who trade with each other. *)
LEMMA PairOfTraders ==
  ASSUME IInv, NEW p \in Players, Trading(p)
  PROVE  /\ trade[p].trader \in Players /\ trade[p].trader # p
         /\ trade[trade[p].trader].trader = p
         /\ \A r \in Players : trade[r].trader = p => r = trade[p].trader
         /\ \A r \in Players : trade[r].trader = trade[p].trader => r = p
BY ConstantsAssumption DEF IInv, DataType, TradeData, NotAlone, Paired, Trading

LEMMA InitIInv == Init => IInv
<1> SUFFICES ASSUME Init PROVE IInv
  OBVIOUS
<1>1. \A p \in Players : trade[p] = NoTrade /\ view[p] = <<>> /\ ~Trading(p)
  BY NoTradeType DEF Init, Trading
<1>2. \A p \in Players : Range(view[p]) = {}
  BY <1>1 DEF Range
<1>3. DataType
  BY NoTradeType DEF Init, DataType
<1>4. NotAlone
  BY <1>1, NoTradeType, ConstantsAssumption DEF NotAlone
<1> QED
  BY <1>1, <1>2, <1>3, <1>4, NoTradeType
  DEF IInv, Init, IndexesDrawn, FirstEmpty, ShownAsIs, Paired, AcceptedSeen

(* A step that touches no trade; a player may come, or one may leave who has
   none. *)
LEMMA SameIInv ==
  ASSUME IInv, UNCHANGED <<trade, indexes, view, agreed>>, online' \subseteq Players,
         \A r \in Players : Trading(r) => r \in online'
  PROVE  IInv'
<1>1. ASSUME NEW r \in Players, Trading(r)
      PROVE  /\ trade[r].trader \in Players /\ trade[trade[r].trader].trader = r
             /\ {r, trade[r].trader} \subseteq online'
  <2>1. trade[r].trader \in Players /\ trade[trade[r].trader].trader = r
    BY <1>1, PairOfTraders
  <2> QED
    BY <1>1, <2>1, ConstantsAssumption DEF Trading
<1>2. Paired'
  BY <1>1 DEF Paired, Trading
<1> QED
  BY <1>2 DEF IInv, DataType, NotAlone, IndexesDrawn, FirstEmpty, ShownAsIs, AcceptedSeen,
     Trading

(* HandleInitiateTradeOpcode: two players who trade with nobody. *)
LEMMA InitiateIInv ==
  ASSUME IInv, NEW p \in Players, NEW q \in Players, HandleInitiateTrade(p, q)
  PROVE  IInv'
<1>1. /\ DataType /\ NotAlone /\ IndexesDrawn /\ FirstEmpty /\ ShownAsIs /\ Paired /\ AcceptedSeen
      /\ p # q /\ ~Trading(p) /\ ~Trading(q) /\ {p, q} \subseteq online
  BY DEF IInv, HandleInitiateTrade
<1>2. /\ trade'[p] = NewTrade(q) /\ trade'[q] = NewTrade(p)
      /\ \A r \in Players \ {p, q} : trade'[r] = trade[r]
      /\ view'[p] = Shown(p, NoTrade) /\ view'[q] = Shown(q, NoTrade)
      /\ \A r \in Players \ {p, q} : view'[r] = view[r]
      /\ \A r \in Players : agreed'[r] = IF trade'[r].accepted THEN agreed[r] ELSE NothingAgreed
      /\ UNCHANGED <<online, indexes>>
  BY <1>1 DEF HandleInitiateTrade, DataType, Standing
<1>3. DataType'
  <2>1. trade' \in [Players -> TradeData]
    BY <1>1, NoTradeType DEF HandleInitiateTrade, DataType
  <2>2. view' \in [Players -> Seq(Views)]
    <3>1. Shown(p, NoTrade) \in Seq(Views) /\ Shown(q, NoTrade) \in Seq(Views)
      BY <1>1, NoTradeType, ShownRange
    <3> QED
      BY <1>1, <3>1 DEF HandleInitiateTrade, DataType
  <2>3. agreed' \in [Players -> [mine: Offers, his: Offers]]
    BY <1>1, NoTradeType DEF HandleInitiateTrade, DataType, Standing
  <2>4. online' \subseteq Players /\ indexes' \in Nat \ {0}
    BY <1>1, <1>2 DEF DataType
  <2> QED
    BY ONLY <2>1, <2>2, <2>3, <2>4 DEF DataType
<1>4. ASSUME NEW r \in Players, NEW v \in Range(view'[r])
      PROVE  v \in Range(view[r]) \/ v = View(NoTrade)
  <2>1. CASE r \in {p, q}
    <3>1. view'[r] = Shown(r, NoTrade)
      BY ONLY <1>2, <2>1
    <3>2. \A c \in Range(Shown(r, NoTrade)) : c \in Range(view[r]) \/ c = View(NoTrade)
      BY <1>1, ShownRange, NoTradeType
    <3> QED
      BY ONLY <1>4, <3>1, <3>2
  <2>2. CASE r \notin {p, q}
    BY ONLY <1>2, <1>4, <2>2, r \in Players
  <2> QED
    BY <2>1, <2>2
<1>5. View(NoTrade).index = 1 /\ View(NoTrade).terms = Terms(NoTrade)
  BY NoTradeType DEF View
<1>6. \A r \in Players \ {p, q} : Trading(r) => trade[r].trader \in Players \ {p, q}
  BY <1>1, PairOfTraders, ConstantsAssumption DEF Trading
<1>7. \A r \in Players \ {p, q} : Trading(r)' <=> Trading(r)
  BY <1>2 DEF Trading
<1>8. NotAlone' /\ Paired'
  BY <1>1, <1>2, <1>6, <1>7, NoTradeType DEF NotAlone, Paired
<1>9. IndexesDrawn' /\ FirstEmpty'
  <2>1. 1 <= indexes
    BY <1>1 DEF DataType
  <2>2. \A r \in Players : \/ trade'[r] = trade[r]
                           \/ trade'[r].index = 1 /\ Terms(trade'[r]) = Terms(NoTrade)
    BY <1>2, NoTradeType
  <2>3. IndexesDrawn'
    BY <1>1, <1>2, <1>4, <1>5, <2>1, <2>2 DEF IndexesDrawn
  <2>4. FirstEmpty'
    BY <1>1, <1>4, <1>5, <2>2 DEF FirstEmpty
  <2> QED
    BY <2>3, <2>4
<1>10. ShownAsIs'
  <2>1. ASSUME NEW r \in {p, q}, NEW v \in Range(view'[r]), v.index = 1
        PROVE  v.terms = Terms(NoTrade)
    BY <1>1, <1>4, <1>5, <2>1 DEF FirstEmpty
  <2>2. ASSUME NEW r \in Players \ {p, q}, Trading(r), NEW v \in Range(view'[r]),
               v.index = trade'[trade'[r].trader].index
        PROVE  v.terms = Terms(trade'[trade'[r].trader])
    BY <1>1, <1>2, <1>6, <2>2 DEF ShownAsIs
  <2> QED
    BY <1>2, <1>7, <2>1, <2>2, NoTradeType DEF ShownAsIs
<1>11. AcceptedSeen'
  BY <1>1, <1>2, <1>6, <1>7, NoTradeType DEF AcceptedSeen
<1> QED
  BY <1>3, <1>8, <1>9, <1>10, <1>11 DEF IInv

(* TradeCancel ends the trade for both, whoever calls it and whyever. *)
LEMMA CancelIInv ==
  ASSUME IInv, NEW p \in Players, TradeCancel(p), UNCHANGED <<indexes, view>>,
         online' \in {online, online \ {p}}
  PROVE  IInv'
<1>1. /\ DataType /\ NotAlone /\ IndexesDrawn /\ FirstEmpty /\ ShownAsIs /\ Paired /\ AcceptedSeen
      /\ online' \subseteq Players
  BY DEF IInv, DataType
<1>2. CASE ~Trading(p)
  <2>1. \A r \in Players : Trading(r) => r \in online'
    BY <1>1, <1>2 DEF Paired
  <2> QED
    BY <1>1, <1>2, <2>1, SameIInv DEF TradeCancel
<1>3. CASE Trading(p)
  <2>1. PICK q \in Players \ {p} : q = trade[p].trader
    BY <1>3, PairOfTraders
  <2>2. /\ trade'[p] = NoTrade /\ trade'[q] = NoTrade
        /\ \A r \in Players \ {p, q} : trade'[r] = trade[r]
        /\ \A r \in Players : agreed'[r] = IF trade'[r].accepted THEN agreed[r] ELSE NothingAgreed
    BY <1>3, <2>1 DEF TradeCancel, Standing
  <2>3. DataType'
    <3>1. \A r \in Players : trade'[r] \in TradeData
      BY <1>1, <2>2, NoTradeType DEF DataType
    <3>2. trade' \in [Players -> TradeData]
      BY <1>3, <3>1 DEF TradeCancel
    <3>3. agreed' \in [Players -> [mine: Offers, his: Offers]]
      BY <1>1, <1>3, NoTradeType DEF TradeCancel, DataType, Standing
    <3> QED
      BY <1>1, <3>2, <3>3 DEF DataType
  <2>4. \A r \in Players \ {p, q} : Trading(r) => trade[r].trader \in Players \ {p, q}
    BY <1>3, <2>1, PairOfTraders
  <2>5. /\ \A r \in Players \ {p, q} : Trading(r)' <=> Trading(r)
        /\ ~Trading(p)' /\ ~Trading(q)'
    BY <2>2, NoTradeType DEF Trading
  <2>6. NotAlone' /\ Paired'
    <3>1. Nobody \notin Players
      BY ConstantsAssumption
    <3>2. NotAlone'
      BY <1>1, <2>2, <3>1, NoTradeType DEF NotAlone
    <3>3. Paired'
      BY <1>1, <2>1, <2>2, <2>4, <2>5 DEF Paired
    <3> QED
      BY <3>2, <3>3
  <2>7. IndexesDrawn' /\ FirstEmpty'
    <3>1. 1 <= indexes
      BY <1>1 DEF DataType
    <3>2. \A r \in Players : \/ trade'[r] = trade[r]
                             \/ trade'[r].index = 1 /\ Terms(trade'[r]) = Terms(NoTrade)
      BY <2>2, NoTradeType
    <3> QED
      BY <1>1, <3>1, <3>2 DEF IndexesDrawn, FirstEmpty
  <2>8. ShownAsIs' /\ AcceptedSeen'
    BY <1>1, <2>1, <2>2, <2>4, <2>5, NoTradeType DEF ShownAsIs, AcceptedSeen
  <2> QED
    BY <2>3, <2>6, <2>7, <2>8 DEF IInv
<1> QED
  BY <1>2, <1>3

(* A changed offer has an index that no client can have answered with, and
   nobody accepts it yet. *)
LEMMA ChangeIInv ==
  ASSUME IInv, NEW p \in Players, NEW mine \in TradeData, NEW clear \in BOOLEAN,
         Trading(p), mine.trader = trade[p].trader, Change(p, mine, clear),
         UNCHANGED online
  PROVE  IInv'
<1>q. PICK q \in Players : q = trade[p].trader
  BY PairOfTraders
<1> DEFINE his == [trade[q] EXCEPT !.accepted = FALSE, !.spell = @ /\ ~clear,
                                   !.index = IF clear /\ trade[q].spell
                                             THEN indexes + 1 ELSE @]
           my == [mine EXCEPT !.accepted = FALSE, !.index = indexes + 1]
<1>1. /\ DataType /\ NotAlone /\ IndexesDrawn /\ FirstEmpty /\ ShownAsIs /\ Paired /\ AcceptedSeen
  BY DEF IInv
<1>2. q \in Players \ {p} /\ trade[q].trader = p /\ trade[q] \in TradeData
      /\ indexes \in Nat \ {0} /\ indexes + 1 \in Nat \ {0}
  BY <1>1, <1>q, PairOfTraders DEF DataType
<1>3. /\ my \in TradeData /\ my.trader = q /\ ~my.accepted /\ my.index = indexes + 1
  <2>1. my \in TradeData
    BY <1>2 DEF TradeData
  <2>2. my.trader = q /\ ~my.accepted /\ my.index = indexes + 1
    BY <1>q DEF TradeData
  <2> QED
    BY <2>1, <2>2
<1>4. /\ his \in TradeData /\ his.trader = p /\ ~his.accepted
      /\ \/ his.index = indexes + 1
         \/ his.index = trade[q].index /\ Terms(his) = Terms(trade[q])
  <2>1. his \in TradeData
    <3>1. /\ (trade[q].spell /\ ~clear) \in BOOLEAN
          /\ (IF clear /\ trade[q].spell THEN indexes + 1 ELSE trade[q].index) \in Nat \ {0}
      BY <1>2 DEF TradeData
    <3> QED
      BY <1>2, <3>1 DEF TradeData
  <2>2. his.trader = p /\ ~his.accepted
    BY <1>2 DEF TradeData
  <2>3. \/ his.index = indexes + 1
        \/ his.index = trade[q].index /\ Terms(his) = Terms(trade[q])
    <3>1. CASE clear /\ trade[q].spell
      BY <1>2, <3>1 DEF TradeData
    <3>2. CASE ~(clear /\ trade[q].spell)
      <4>1. his.money = trade[q].money /\ his.items = trade[q].items /\ his.index = trade[q].index
        BY <1>2, <3>2 DEF TradeData
      <4>2. his.spell = trade[q].spell
        BY <1>2, <3>2 DEF TradeData
      <4> QED
        BY <4>1, <4>2 DEF Terms
    <3> QED
      BY <3>1, <3>2
  <2> QED
    BY <2>1, <2>2, <2>3
<1>5. /\ trade' = [trade EXCEPT ![p] = my, ![q] = his]
      /\ indexes' = indexes + 1
      /\ view' = [view EXCEPT ![q] = Shown(q, my),
                               ![p] = IF his.index # trade[q].index THEN Shown(p, his) ELSE @]
      /\ agreed' = [r \in Players |-> IF trade'[r].accepted THEN agreed[r] ELSE NothingAgreed]
  BY <1>q DEF Change, Standing
<1> HIDE DEF his, my
<1>t. /\ trade'[p] = my /\ trade'[q] = his
      /\ \A r \in Players \ {p, q} : trade'[r] = trade[r]
      /\ trade' \in [Players -> TradeData]
  BY <1>1, <1>2, <1>3, <1>4, <1>5 DEF DataType
<1>v. /\ view'[q] = Shown(q, my)
      /\ view'[p] = IF his.index # trade[q].index THEN Shown(p, his) ELSE view[p]
      /\ \A r \in Players \ {p, q} : view'[r] = view[r]
  BY <1>1, <1>2, <1>5 DEF DataType
<1>6. /\ \A v \in Range(view'[q]) : v \in Range(view[q]) \/ v = View(my)
      /\ \A v \in Range(view'[p]) :
            v \in Range(view[p]) \/ (v = View(his) /\ his.index = indexes + 1)
      /\ view'[p] \in Seq(Views) /\ view'[q] \in Seq(Views)
  <2>1. view[p] \in Seq(Views)
    BY <1>1 DEF DataType
  <2> QED
    BY <1>1, <1>2, <1>3, <1>4, <1>v, <2>1, ShownRange
<1>7. DataType'
  <2>1. view' \in [Players -> Seq(Views)]
    <3>1. Shown(p, his) \in Seq(Views) /\ Shown(q, my) \in Seq(Views)
      BY <1>1, <1>2, <1>3, <1>4, ShownRange
    <3> QED
      BY <1>1, <1>2, <1>5, <3>1 DEF DataType
  <2>2. agreed' \in [Players -> [mine: Offers, his: Offers]]
    BY <1>1, <1>5, NoTradeType DEF DataType
  <2>3. online' \subseteq Players /\ indexes' \in Nat \ {0}
    BY <1>1, <1>2, <1>5 DEF DataType
  <2> QED
    BY <1>t, <2>1, <2>2, <2>3 DEF DataType
<1>8. /\ View(my).index = my.index /\ View(my).terms = Terms(my)
      /\ View(his).index = his.index /\ View(his).terms = Terms(his)
  BY DEF View
<1>9. \A r \in Players \ {p, q} : Trading(r) => trade[r].trader \in Players \ {p, q}
  BY <1>q, <1>2, PairOfTraders, ConstantsAssumption DEF Trading
<1>10. \A r \in Players : trade'[r].trader = trade[r].trader
  BY <1>q, <1>2, <1>3, <1>4, <1>t
<1>11. \A r \in Players : Trading(r)' <=> Trading(r)
  BY <1>10 DEF Trading
<1>12. NotAlone' /\ Paired'
  <2>1. NotAlone'
    BY <1>1, <1>10 DEF NotAlone
  <2>2. ASSUME NEW r \in Players, Trading(r)
        PROVE  trade[r].trader \in Players
    BY <2>2, PairOfTraders
  <2> QED
    BY <1>1, <1>10, <1>11, <2>1, <2>2 DEF Paired
<1>13. \A r \in Players : trade[r].index \in Nat /\ trade[r].index <= indexes
  BY <1>1 DEF DataType, TradeData, IndexesDrawn
<1>14. ASSUME NEW r \in Players, NEW v \in Range(view[r])
       PROVE  v.index \in Nat /\ v.index <= indexes /\ v.index # indexes + 1
  <2>1. view[r] \in Seq(Views) /\ DOMAIN view[r] = 1..Len(view[r])
    BY <1>1, LenProperties DEF DataType
  <2>2. v \in Views
    BY <2>1, ElementOfSeq DEF Range
  <2>3. v.index \in Nat /\ v.index <= indexes
    BY <1>1, <2>2 DEF IndexesDrawn, Views
  <2> QED
    BY <1>2, <2>3
<1>15. ASSUME NEW r \in Players, NEW v \in Range(view'[r])
       PROVE  \/ v \in Range(view[r])
              \/ r = q /\ v.index = indexes + 1 /\ v.terms = Terms(my)
              \/ r = p /\ v.index = indexes + 1 /\ v.terms = Terms(his) /\ his.index = indexes + 1
  BY <1>3, <1>6, <1>8, <1>v
<1>16. IndexesDrawn'
  <2>1. ASSUME NEW r \in Players, NEW v \in Range(view'[r]) PROVE v.index <= indexes + 1
    BY <1>2, <1>14, <1>15
  <2>2. ASSUME NEW r \in Players PROVE trade'[r].index <= indexes + 1
    <3>1. trade'[r].index \in {indexes + 1, trade[r].index}
      BY <1>3, <1>4, <1>t
    <3> QED
      BY <1>2, <1>13, <3>1
  <2> QED
    BY <1>5, <2>1, <2>2 DEF IndexesDrawn
<1>17. FirstEmpty'
  <2>1. indexes + 1 # 1
    BY <1>2
  <2>2. ASSUME NEW r \in Players, trade'[r].index = 1 PROVE Terms(trade'[r]) = Terms(NoTrade)
    <3>1. trade[r].index = 1 /\ Terms(trade'[r]) = Terms(trade[r])
      BY <1>3, <1>4, <1>t, <2>1, <2>2
    <3> QED
      BY <1>1, <3>1 DEF FirstEmpty
  <2>3. ASSUME NEW r \in Players, NEW v \in Range(view'[r]), v.index = 1
        PROVE  v.terms = Terms(NoTrade)
    BY <1>1, <1>15, <2>1, <2>3 DEF FirstEmpty
  <2> QED
    BY <2>2, <2>3 DEF FirstEmpty
<1>18. ShownAsIs'
  <2>1. ASSUME NEW v \in Range(view'[q]), v.index = my.index PROVE v.terms = Terms(my)
    BY <1>2, <1>3, <1>14, <1>15, <2>1
  <2>2. ASSUME NEW v \in Range(view'[p]), v.index = his.index PROVE v.terms = Terms(his)
    <3>1. CASE v \in Range(view[p])
      <4>1. v.index = trade[q].index /\ Terms(his) = Terms(trade[q])
        BY <1>4, <1>14, <2>2, <3>1
      <4> QED
        BY <1>1, <1>q, <3>1, <4>1 DEF ShownAsIs
    <3>2. CASE v \notin Range(view[p])
      BY <1>2, <1>15, <3>2
    <3> QED
      BY <3>1, <3>2
  <2>3. ASSUME NEW r \in Players \ {p, q}, Trading(r), NEW v \in Range(view'[r]),
               v.index = trade'[trade[r].trader].index
        PROVE  v.terms = Terms(trade'[trade[r].trader])
    <3>1. v \in Range(view[r]) /\ trade'[trade[r].trader] = trade[trade[r].trader]
      BY <1>9, <1>t, <1>v, <2>3
    <3> QED
      BY <1>1, <2>3, <3>1 DEF ShownAsIs
  <2>4. ASSUME NEW r \in Players, Trading(r), NEW v \in Range(view'[r]),
               v.index = trade'[trade[r].trader].index
        PROVE  v.terms = Terms(trade'[trade[r].trader])
    <3>1. CASE r = p
      BY <1>q, <1>t, <2>2, <2>4, <3>1
    <3>2. CASE r = q
      BY <1>2, <1>t, <2>1, <2>4, <3>2
    <3> QED
      BY <2>3, <2>4, <3>1, <3>2
  <2> QED
    BY <1>10, <1>11, <2>4 DEF ShownAsIs
<1>19. AcceptedSeen'
  <2>1. ASSUME NEW r \in Players, Trading(r), trade'[r].accepted
        PROVE  agreed'[r] = [mine |-> Terms(trade'[r]), his |-> Terms(trade'[trade[r].trader])]
    <3>1. r \notin {p, q}
      BY <1>3, <1>4, <1>t, <2>1
    <3>2. trade'[r] = trade[r] /\ trade'[trade[r].trader] = trade[trade[r].trader]
      BY <1>9, <1>t, <2>1, <3>1
    <3>3. agreed'[r] = agreed[r]
      BY <1>5, <2>1
    <3> QED
      BY <1>1, <2>1, <3>2, <3>3 DEF AcceptedSeen
  <2> QED
    BY <1>10, <1>11, <2>1 DEF AcceptedSeen
<1> QED
  BY <1>7, <1>12, <1>16, <1>17, <1>18, <1>19 DEF IInv

(* SetAccepted of the player who answers to the update v of his partner's offer,
   and of his partner: a player who accepts has seen both offers, and one who
   accepted before has not been shown others since. *)
LEMMA AcceptedIInv ==
  ASSUME IInv, NEW p \in Players, NEW v \in Range(view[p]), Trading(p),
         NEW mine \in BOOLEAN, NEW his \in BOOLEAN, Accepted(p, v, mine, his),
         mine => v.index = trade[trade[p].trader].index,
         his => trade[trade[p].trader].accepted
  PROVE  IInv'
<1> DEFINE q == trade[p].trader
<1>1. /\ DataType /\ NotAlone /\ IndexesDrawn /\ FirstEmpty /\ ShownAsIs /\ Paired /\ AcceptedSeen
  BY DEF IInv
<1>2. q \in Players \ {p} /\ trade[q].trader = p /\ trade[q] \in TradeData
      /\ trade[p] \in TradeData /\ Terms(trade[p]) \in Offers
  BY <1>1, PairOfTraders, NoTradeType DEF DataType
<1>3. v.terms \in Offers
  <2>1. view[p] \in Seq(Views) /\ DOMAIN view[p] = 1..Len(view[p])
    BY <1>1, LenProperties DEF DataType
  <2>2. v \in Views
    BY <2>1, ElementOfSeq DEF Range
  <2> QED
    BY <2>2 DEF Views
<1>4. /\ trade' = [trade EXCEPT ![p].accepted = mine, ![q].accepted = his]
      /\ UNCHANGED <<online, indexes, view>>
      /\ agreed' = Standing([agreed EXCEPT ![p] = [mine |-> Terms(trade[p]), his |-> v.terms]])
  BY DEF Accepted
<1>5. /\ \A r \in Players : /\ Terms(trade'[r]) = Terms(trade[r])
                            /\ trade'[r].trader = trade[r].trader
                            /\ trade'[r].index = trade[r].index
      /\ trade'[p].accepted = mine /\ trade'[q].accepted = his
      /\ \A r \in Players \ {p, q} : trade'[r] = trade[r]
      /\ trade' \in [Players -> TradeData]
  <2>1. \A r \in Players : trade[r] \in TradeData
    BY <1>1 DEF DataType
  <2>2. /\ trade'[p] = [trade[p] EXCEPT !.accepted = mine]
        /\ trade'[q] = [trade[q] EXCEPT !.accepted = his]
        /\ \A r \in Players \ {p, q} : trade'[r] = trade[r]
    BY <1>1, <1>2, <1>4 DEF DataType
  <2>3. \A r \in {p, q} : /\ trade'[r] \in TradeData
                          /\ Terms(trade'[r]) = Terms(trade[r])
                          /\ trade'[r].trader = trade[r].trader
                          /\ trade'[r].index = trade[r].index
    BY <1>2, <2>1, <2>2 DEF TradeData, Terms
  <2>4. trade'[p].accepted = mine /\ trade'[q].accepted = his
    BY <1>2, <2>2 DEF TradeData
  <2>5. trade' \in [Players -> TradeData]
    BY <1>1, <1>2, <1>4, <2>1, <2>2, <2>3 DEF DataType
  <2> QED
    BY <2>2, <2>3, <2>4, <2>5
<1> HIDE DEF q
<1>6. /\ agreed' \in [Players -> [mine: Offers, his: Offers]]
      /\ mine => agreed'[p] = [mine |-> Terms(trade[p]), his |-> v.terms]
      /\ his => agreed'[q] = agreed[q]
      /\ \A r \in Players \ {p, q} : trade[r].accepted => agreed'[r] = agreed[r]
  BY <1>1, <1>2, <1>3, <1>4, <1>5, NoTradeType DEF Standing, DataType
<1>7. DataType' /\ NotAlone' /\ IndexesDrawn' /\ FirstEmpty'
  <2>1. DataType'
    BY <1>1, <1>4, <1>5, <1>6 DEF DataType
  <2>2. NotAlone' /\ FirstEmpty'
    BY <1>1, <1>4, <1>5 DEF NotAlone, FirstEmpty
  <2>3. IndexesDrawn'
    BY <1>1, <1>4, <1>5 DEF IndexesDrawn
  <2> QED
    BY <2>1, <2>2, <2>3
<1>8. \A r \in Players : Trading(r)' <=> Trading(r)
  BY <1>5 DEF Trading
<1>9. \A r \in Players : Trading(r) => trade[r].trader \in Players
  BY PairOfTraders
<1>10. ShownAsIs' /\ Paired'
  BY <1>1, <1>4, <1>5, <1>8, <1>9 DEF ShownAsIs, Paired
<1>11. AcceptedSeen'
  <2>1. mine => v.terms = Terms(trade[q])
    BY <1>1 DEF ShownAsIs, q
  <2>2. ASSUME NEW r \in Players, Trading(r)', trade'[r].accepted
        PROVE  agreed'[r] = [mine |-> Terms(trade[r]), his |-> Terms(trade[trade[r].trader])]
    <3>1. CASE r = p
      BY <1>5, <1>6, <2>1, <2>2, <3>1 DEF q
    <3>2. CASE r = q
      BY <1>1, <1>2, <1>5, <1>6, <1>8, <2>2, <3>2 DEF AcceptedSeen, q
    <3>3. CASE r \notin {p, q}
      BY <1>1, <1>5, <1>6, <1>8, <2>2, <3>3 DEF AcceptedSeen
    <3> QED
      BY <3>1, <3>2, <3>3
  <2> QED
    BY <1>5, <1>8, <1>9, <2>2 DEF AcceptedSeen
<1> QED
  BY <1>7, <1>10, <1>11 DEF IInv

LEMMA UnacceptIInv ==
  ASSUME IInv, NEW p \in Players, HandleUnacceptTrade(p)
  PROVE  IInv'
<1>1. /\ DataType /\ NotAlone /\ IndexesDrawn /\ FirstEmpty /\ ShownAsIs /\ Paired /\ AcceptedSeen
  BY DEF IInv
<1>2. /\ trade'[p] = [trade[p] EXCEPT !.accepted = FALSE]
      /\ \A r \in Players \ {p} : trade'[r] = trade[r]
      /\ trade' \in [Players -> TradeData]
      /\ \A r \in Players : agreed'[r] = IF trade'[r].accepted THEN agreed[r] ELSE NothingAgreed
      /\ agreed' \in [Players -> [mine: Offers, his: Offers]]
      /\ UNCHANGED <<online, indexes, view>>
  <2>1. trade' = [trade EXCEPT ![p].accepted = FALSE] /\ trade[p] \in TradeData
    BY <1>1 DEF HandleUnacceptTrade, DataType
  <2>2. [trade[p] EXCEPT !.accepted = FALSE] \in TradeData
    BY <2>1 DEF TradeData
  <2>3. trade' = [trade EXCEPT ![p] = [trade[p] EXCEPT !.accepted = FALSE]]
    BY <2>1
  <2> QED
    BY <1>1, <2>2, <2>3, NoTradeType DEF HandleUnacceptTrade, DataType, Standing
<1>3. /\ \A r \in Players : /\ Terms(trade'[r]) = Terms(trade[r])
                            /\ trade'[r].trader = trade[r].trader
                            /\ trade'[r].index = trade[r].index
                            /\ trade'[r].accepted => trade[r].accepted
  <2>1. trade[p] \in TradeData
    BY <1>1 DEF DataType
  <2>2. /\ trade'[p].money = trade[p].money /\ trade'[p].spell = trade[p].spell
        /\ trade'[p].items = trade[p].items /\ trade'[p].trader = trade[p].trader
        /\ trade'[p].index = trade[p].index /\ ~trade'[p].accepted
    BY <1>2, <2>1 DEF TradeData
  <2>3. Terms(trade'[p]) = Terms(trade[p])
    BY <2>2 DEF Terms
  <2>4. \A r \in Players \ {p} : trade'[r] = trade[r]
    BY <1>2
  <2> QED
    BY <2>2, <2>3, <2>4
<1>4. \A r \in Players : Trading(r)' <=> Trading(r)
  BY <1>3 DEF Trading
<1>5. \A r \in Players : Trading(r) => trade[r].trader \in Players
  BY PairOfTraders
<1>6. DataType'
  BY <1>1, <1>2 DEF DataType
<1>7. NotAlone' /\ IndexesDrawn' /\ FirstEmpty'
  BY <1>1, <1>2, <1>3 DEF NotAlone, IndexesDrawn, FirstEmpty
<1>8. ShownAsIs' /\ Paired'
  BY <1>1, <1>2, <1>3, <1>4, <1>5 DEF ShownAsIs, Paired
<1>9. AcceptedSeen'
  <2>1. ASSUME NEW r \in Players, Trading(r), trade'[r].accepted
        PROVE  agreed'[r] = [mine |-> Terms(trade[r]), his |-> Terms(trade[trade[r].trader])]
    <3>1. trade[r].accepted /\ agreed'[r] = agreed[r]
      BY <1>2, <1>3, <2>1
    <3> QED
      BY <1>1, <2>1, <3>1 DEF AcceptedSeen
  <2>2. ASSUME NEW r \in Players, Trading(r)
        PROVE  Terms(trade'[trade'[r].trader]) = Terms(trade[trade[r].trader])
    BY <1>3, <1>5, <2>2
  <2> QED
    BY <1>3, <1>4, <2>1, <2>2 DEF AcceptedSeen
<1> QED
  BY <1>6, <1>7, <1>8, <1>9 DEF IInv

-----------------------------------------------------------------------------
(* HandleSetTradeItemOpcode, HandleClearTradeItemOpcode, Item::SetCount,
   HandleSetTradeGoldOpcode and the spells. *)
LEMMA OffersIInv ==
  ASSUME IInv, NEW p \in Players,
         \/ \E s \in Slots : \/ \E i \in Items : HandleSetTradeItem(p, s, i)
                             \/ HandleClearTradeItem(p, s)
                             \/ SetCount(p, s)
         \/ \E m \in 0..MaxMoney : HandleSetTradeGold(p, m)
         \/ SetSpell(p)
  PROVE  IInv'
<1>1. trade[p] \in TradeData
  BY DEF IInv, DataType
<1>2. ASSUME Trading(p), NEW s \in Slots, NEW i \in Items \cup {NoItem}, SetItem(p, s, i)
      PROVE  IInv'
  <2> DEFINE mine == [trade[p] EXCEPT !.items[s] = i, !.spell = FALSE]
  <2>1. mine \in TradeData /\ mine.trader = trade[p].trader
    BY <1>1 DEF TradeData
  <2>2. Change(p, mine, s = NonTraded) /\ UNCHANGED online
    BY <1>2 DEF SetItem, Change
  <2> HIDE DEF mine
  <2> QED
    BY <1>2, <2>1, <2>2, ChangeIInv
<1>3. ASSUME NEW m \in 0..MaxMoney, HandleSetTradeGold(p, m) PROVE IInv'
  <2>1. [trade[p] EXCEPT !.money = m] \in TradeData
        /\ [trade[p] EXCEPT !.money = m].trader = trade[p].trader
    BY <1>1 DEF TradeData
  <2>2. Trading(p) /\ Change(p, [trade[p] EXCEPT !.money = m], FALSE) /\ UNCHANGED online
    BY <1>3 DEF HandleSetTradeGold, Change
  <2> QED
    BY <2>1, <2>2, ChangeIInv
<1>4. ASSUME SetSpell(p) PROVE IInv'
  <2>1. [trade[p] EXCEPT !.spell = TRUE] \in TradeData
        /\ [trade[p] EXCEPT !.spell = TRUE].trader = trade[p].trader
    BY <1>1 DEF TradeData
  <2>2. Trading(p) /\ Change(p, [trade[p] EXCEPT !.spell = TRUE], FALSE) /\ UNCHANGED online
    BY <1>4 DEF SetSpell, Change
  <2> QED
    BY <2>1, <2>2, ChangeIInv
<1>5. ASSUME NEW s \in Slots, SetCount(p, s) PROVE IInv'
  <2>1. trade[p].items[s] \in Items \cup {NoItem}
    BY <1>1 DEF TradeData
  <2> QED
    BY <1>2, <1>5, <2>1 DEF SetCount
<1> QED
  BY <1>2, <1>3, <1>4, <1>5 DEF HandleSetTradeItem, HandleClearTradeItem

(* HandleAcceptTradeOpcode, whatever becomes of it. *)
LEMMA AcceptIInv ==
  ASSUME IInv, NEW p \in Players, NEW v \in Range(view[p]), HandleAcceptTrade(p, v)
  PROVE  IInv'
<1> DEFINE q == trade[p].trader
<1>1. Trading(p) /\ q \in Players /\ trade[q] \in TradeData /\ trade[q].accepted \in BOOLEAN
      /\ trade[q].trader = p
  <2>1. Trading(p)
    BY DEF HandleAcceptTrade, AcceptRefused, AcceptTraderRefused, AcceptFirst,
       AcceptSpellFails, AcceptNoRoom, AcceptTrade, BothAccept
  <2> QED
    BY <2>1, PairOfTraders DEF IInv, DataType, TradeData
<1>2. ~PlayerRefused(p, v) => v.index = trade[q].index
  BY DEF PlayerRefused
<1>3. CASE AcceptRefused(p, v)
  BY <1>1, <1>3, AcceptedIInv DEF AcceptRefused
<1>4. CASE AcceptTraderRefused(p, v)
  BY <1>1, <1>2, <1>4, AcceptedIInv DEF AcceptTraderRefused
<1>5. CASE AcceptFirst(p, v)
  <2>1. ~PlayerRefused(p, v) /\ Accepted(p, v, TRUE, trade[q].accepted)
    BY <1>5 DEF AcceptFirst
  <2> QED
    BY <1>1, <1>2, <2>1, AcceptedIInv
<1>6. CASE AcceptNoRoom(p, v)
  BY <1>1, <1>6, AcceptedIInv DEF AcceptNoRoom
<1>7. CASE AcceptSpellFails(p, v)
  <2>1. PICK r \in {p, q} : Change(r, [trade[r] EXCEPT !.spell = FALSE], FALSE)
    BY <1>7 DEF AcceptSpellFails
  <2>2. r \in Players /\ Trading(r) /\ trade[r] \in TradeData
    BY <1>1, ConstantsAssumption DEF IInv, DataType, Trading
  <2>3. [trade[r] EXCEPT !.spell = FALSE] \in TradeData
        /\ [trade[r] EXCEPT !.spell = FALSE].trader = trade[r].trader
    BY <2>2 DEF TradeData
  <2>4. UNCHANGED online
    BY <2>1 DEF Change
  <2> QED
    BY <2>1, <2>2, <2>3, <2>4, ChangeIInv
<1>8. CASE AcceptTrade(p, v)
  BY <1>8, CancelIInv DEF AcceptTrade
<1> QED
  BY <1>3, <1>4, <1>5, <1>6, <1>7, <1>8 DEF HandleAcceptTrade

LEMMA NextIInv ==
  ASSUME IInv, [Next]_vars
  PROVE  IInv'
<1>1. CASE UNCHANGED vars
  BY <1>1, SameIInv DEF vars, IInv, DataType, Paired
<1>2. ASSUME NEW p \in Players, HandleCancelTrade(p) \/ Logout(p) PROVE IInv'
  BY <1>2, CancelIInv DEF HandleCancelTrade, Logout
<1>3. ASSUME NEW p \in Players, Login(p) \/ Spend(p) \/ Earn(p) PROVE IInv'
  BY <1>3, SameIInv DEF Login, Spend, Earn, IInv, DataType, Paired
<1>4. ASSUME NEW i \in Items, Vanish(i) PROVE IInv'
  BY <1>4, SameIInv DEF Vanish, IInv, DataType, Paired
<1> QED
  BY <1>1, <1>2, <1>3, <1>4, InitiateIInv, OffersIInv, UnacceptIInv, AcceptIInv DEF Next

-----------------------------------------------------------------------------
(* The invariant of the trades holds in every reachable state. *)
THEOREM Invariance == Spec => []IInv
<1>1. Init => IInv
  BY InitIInv
<1>2. IInv /\ [Next]_vars => IInv'
  BY NextIInv
<1> QED
  BY <1>1, <1>2, PTL DEF Spec

(* The two TradeData of a trade name each other and both players are in the
   world: _trader and GetTraderData() never dangle, although a player may begin,
   cancel, complete or leave in any order. *)
THEOREM PairedCorrect == Spec => []Paired
<1>1. IInv => Paired
  BY DEF IInv
<1> QED
  BY <1>1, Invariance, PTL

(* HandleAcceptTradeOpcode never accepts, and so never completes, a trade other
   than the one the client has seen. *)
THEOREM AcceptedSeenCorrect == Spec => []AcceptedSeen
<1>1. IInv => AcceptedSeen
  BY DEF IInv
<1> QED
  BY <1>1, Invariance, PTL

-----------------------------------------------------------------------------
(* Induction over numbers, and what the folds of the community modules are: a
   recursive function over the subsets of a finite set. *)

(* A set of naturals that is not empty has a least element. *)
LEMMA Least ==
  ASSUME NEW T \in SUBSET Nat, T # {}
  PROVE  \E x \in T : \A y \in T : x <= y
<1> DEFINE R == {ss \in Nat \X Nat : ss[1] < ss[2]}
<1>1. IsWellFoundedOn(R, Nat)
  BY NatLessThanWellFounded DEF OpToRel
<1>2. \A x, y \in T : <<y, x>> \in R <=> y < x
  OBVIOUS
<1> HIDE DEF R
<1>3. PICK x \in T : \A y \in T : ~(<<y, x>> \in R)
  BY <1>1, WFMin
<1>4. \A y \in T : ~(y < x)
  BY <1>2, <1>3
<1>5. \A y \in T : y \in Nat /\ x \in Nat
  OBVIOUS
<1>6. \A y \in T : x <= y
  BY <1>4, <1>5
<1> QED
  BY <1>6

(* Induction, for a set of naturals instead of a predicate. *)
LEMMA SetInduction ==
  ASSUME NEW T \in SUBSET Nat, 0 \in T, \A n \in T : n + 1 \in T
  PROVE  T = Nat
<1> SUFFICES ASSUME T # Nat PROVE FALSE
  OBVIOUS
<1>1. Nat \ T # {}
  OBVIOUS
<1>2. PICK x \in Nat \ T : \A y \in Nat \ T : x <= y
  BY <1>1, Least
<1>3. x - 1 \in Nat /\ x - 1 \in T
  BY <1>2
<1>4. (x - 1) + 1 = x
  BY <1>2
<1> QED
  BY <1>2, <1>3, <1>4

(* How the community modules fold over a finite set D: pick chooses an element,
   step combines it with the value for the others, in V, and t has the value of
   every subset. *)
Picks(pick, D) == \A S \in (SUBSET D) \ {{}} : pick[S] \in S
Steps(step, D, V) == \A x \in D, v \in V : step[x][v] \in V
Folded(t, D, base, pick, step) ==
    \A S \in SUBSET D :
        t[S] = IF S = {} THEN base ELSE step[pick[S]][t[S \ {pick[S]}]]

(* The function by which they fold exists. *)
LEMMA FoldExists ==
  ASSUME NEW D, IsFiniteSet(D), NEW V, NEW base \in V,
         NEW pick, Picks(pick, D), NEW step, Steps(step, D, V)
  PROVE  \E t \in [SUBSET D -> V] : Folded(t, D, base, pick, step)
<1> DEFINE Upto(n) == {S \in SUBSET D : Cardinality(S) <= n}
           Folds(n, t) == \A S \in Upto(n) :
              t[S] = IF S = {} THEN base ELSE step[pick[S]][t[S \ {pick[S]}]]
           T == {n \in Nat : \E t \in [Upto(n) -> V] : Folds(n, t)}
<1>1. \A S \in SUBSET D : IsFiniteSet(S) /\ Cardinality(S) \in Nat
  BY FS_Subset, FS_CardinalityType
<1>2. ASSUME NEW S \in SUBSET D, S # {}
      PROVE  /\ pick[S] \in D /\ S \ {pick[S]} \in SUBSET D
             /\ Cardinality(S \ {pick[S]}) = Cardinality(S) - 1
             /\ S \ {pick[S]} # S
  BY <1>1, <1>2, FS_RemoveElement DEF Picks
<1>3. 0 \in T
  <2>1. \A S \in Upto(0) : S = {}
    BY <1>1, FS_EmptySet
  <2>2. [S \in Upto(0) |-> base] \in [Upto(0) -> V] /\ Folds(0, [S \in Upto(0) |-> base])
    BY <2>1
  <2> QED
    BY <2>2
<1>4. ASSUME NEW n \in T PROVE n + 1 \in T
  <2>1. PICK t \in [Upto(n) -> V] : Folds(n, t)
    BY <1>4
  <2> DEFINE next(S) == IF S = {} THEN base ELSE step[pick[S]][t[S \ {pick[S]}]]
             u == [S \in Upto(n + 1) |-> next(S)]
  <2>2. n \in Nat /\ n + 1 \in Nat
    BY <1>4
  <2>3. ASSUME NEW S \in Upto(n + 1), S # {}
        PROVE  S \ {pick[S]} \in Upto(n) /\ pick[S] \in D
    BY <1>1, <1>2, <2>2, <2>3
  <2>4. \A S \in Upto(n) : S \in Upto(n + 1) /\ u[S] = t[S]
    <3>1. \A S \in Upto(n) : S \in Upto(n + 1)
      BY <1>1, <2>2
    <3> QED
      BY <2>1, <3>1
  <2>5. u \in [Upto(n + 1) -> V]
    <3>1. ASSUME NEW S \in Upto(n + 1) PROVE next(S) \in V
      BY <2>1, <2>3 DEF Steps
    <3> HIDE DEF next
    <3> QED
      BY <3>1
  <2>6. Folds(n + 1, u)
    <3> HIDE DEF Upto
    <3>1. \A S \in Upto(n + 1) : S # {} => u[S \ {pick[S]}] = t[S \ {pick[S]}]
      BY <2>3, <2>4
    <3> QED
      BY <3>1
  <2> QED
    BY <2>2, <2>5, <2>6
<1>5. T = Nat
  <2> HIDE DEF T
  <2>1. T \subseteq Nat
    BY DEF T
  <2> QED
    BY <1>3, <1>4, <2>1, SetInduction
<1>6. Cardinality(D) \in Nat /\ Upto(Cardinality(D)) = SUBSET D
  BY <1>1, FS_CardinalityType, FS_Subset
<1>7. PICK t \in [Upto(Cardinality(D)) -> V] : Folds(Cardinality(D), t)
  <2>1. Cardinality(D) \in T
    BY <1>5, <1>6
  <2> HIDE DEF Upto, Folds
  <2> QED
    BY <2>1
<1> QED
  BY <1>6, <1>7 DEF Folded

(* The recursive function by which SumFunction adds up the values of f. *)
IsSum(t, f) ==
    \A S \in SUBSET Players :
        t[S] = IF S = {} THEN 0
               ELSE f[CHOOSE p \in S : TRUE] + t[S \ {CHOOSE p \in S : TRUE}]

(* It exists, and SumFunction is its value for all players. *)
LEMMA SumExists ==
  ASSUME NEW f \in [Players -> Int]
  PROVE  \E t : IsSum(t, f) /\ SumFunction(f) = t[Players]
<1> DEFINE t == CHOOSE t : t = [S \in SUBSET Players |->
                  IF S = {} THEN 0
                  ELSE f[CHOOSE p \in S : TRUE] + t[S \ {CHOOSE p \in S : TRUE}]]
           pick == [S \in SUBSET Players |-> CHOOSE p \in S : TRUE]
           step == [p \in Players |-> [v \in Int |-> f[p] + v]]
<1>1. SumFunction(f) = t[Players]
  BY DEF SumFunction, SumFunctionOnSet, FoldFunctionOnSet, MapThenFoldSet
<1>2. PICK u \in [SUBSET Players -> Int] : Folded(u, Players, 0, pick, step)
  <2> DEFINE V == Int
  <2>1. /\ Picks(pick, Players) /\ Steps(step, Players, V)
        /\ IsFiniteSet(Players) /\ 0 \in V
    BY ConstantsAssumption DEF Picks, Steps
  <2> HIDE DEF pick, step, V
  <2>2. \E u \in [SUBSET Players -> V] : Folded(u, Players, 0, pick, step)
    BY <2>1, FoldExists
  <2> QED
    BY <2>2 DEF V
<1>3. ASSUME NEW S \in SUBSET Players
      PROVE  u[S] = IF S = {} THEN 0
                    ELSE f[CHOOSE p \in S : TRUE] + u[S \ {CHOOSE p \in S : TRUE}]
  <2>1. S # {} => (CHOOSE p \in S : TRUE) \in Players
    OBVIOUS
  <2>2. u[S \ {CHOOSE p \in S : TRUE}] \in Int
    OBVIOUS
  <2> QED
    BY <1>2, <2>1, <2>2 DEF Folded
<1>4. u = [S \in SUBSET Players |->
             IF S = {} THEN 0
             ELSE f[CHOOSE p \in S : TRUE] + u[S \ {CHOOSE p \in S : TRUE}]]
  BY <1>3
<1>5. t = [S \in SUBSET Players |->
             IF S = {} THEN 0
             ELSE f[CHOOSE p \in S : TRUE] + t[S \ {CHOOSE p \in S : TRUE}]]
  BY <1>4
<1> HIDE DEF t
<1>6. IsSum(t, f)
  BY <1>5 DEF IsSum
<1> QED
  BY <1>1, <1>6

(* If g differs from f at p only, its sum differs by what g has more at p. *)
LEMMA SumChanges ==
  ASSUME NEW f \in [Players -> Int], NEW g \in [Players -> Int], NEW p \in Players,
         \A q \in Players \ {p} : g[q] = f[q]
  PROVE  /\ SumFunction(f) \in Int
         /\ SumFunction(g) = SumFunction(f) + (g[p] - f[p])
<1>1. PICK t : IsSum(t, f) /\ SumFunction(f) = t[Players]
  BY SumExists
<1>2. PICK u : IsSum(u, g) /\ SumFunction(g) = u[Players]
  BY SumExists
<1> DEFINE more(S) == IF p \in S THEN g[p] - f[p] ELSE 0
           T == {n \in Nat : \A S \in SUBSET Players :
                   Cardinality(S) = n => t[S] \in Int /\ u[S] = t[S] + more(S)}
<1>3. 0 \in T
  <2>1. \A S \in SUBSET Players : Cardinality(S) = 0 => S = {}
    BY ConstantsAssumption, FS_Subset, FS_EmptySet
  <2>2. t[{}] = 0 /\ u[{}] = 0 /\ more({}) = 0
    BY <1>1, <1>2 DEF IsSum
  <2> HIDE DEF more
  <2>3. ASSUME NEW S \in SUBSET Players, Cardinality(S) = 0
        PROVE  t[S] \in Int /\ u[S] = t[S] + more(S)
    <3>1. S = {}
      BY <2>1, <2>3
    <3> QED
      BY <2>2, <3>1
  <2> QED
    BY <2>3
<1>4. ASSUME NEW n \in T PROVE n + 1 \in T
  <2>1. n \in Nat /\ n + 1 \in Nat /\ n + 1 # 0
    BY <1>4
  <2>2. ASSUME NEW S \in SUBSET Players, Cardinality(S) = n + 1
        PROVE  t[S] \in Int /\ u[S] = t[S] + more(S)
    <3>1. IsFiniteSet(S) /\ S # {}
      BY <2>1, <2>2, ConstantsAssumption, FS_Subset, FS_EmptySet
    <3>2. PICK q : q = CHOOSE r \in S : TRUE
      OBVIOUS
    <3>3. q \in S /\ q \in Players /\ S \ {q} \in SUBSET Players
      BY <3>1, <3>2
    <3>4. Cardinality(S \ {q}) = n
      <4>1. Cardinality(S \ {q}) = Cardinality(S) - 1
        BY <3>1, <3>3, FS_RemoveElement
      <4> QED
        BY <2>1, <2>2, <4>1
    <3>5. t[S \ {q}] \in Int /\ u[S \ {q}] = t[S \ {q}] + more(S \ {q})
      BY <1>4, <3>3, <3>4
    <3>6. t[S] = f[q] + t[S \ {q}] /\ u[S] = g[q] + u[S \ {q}]
      BY <1>1, <1>2, <3>1, <3>2 DEF IsSum
    <3>7. f[q] \in Int /\ g[q] \in Int /\ f[p] \in Int /\ g[p] \in Int
      BY <3>3
    <3>8. CASE q = p
      <4>1. more(S) = g[p] - f[p] /\ more(S \ {q}) = 0
        BY <3>3, <3>8
      <4> QED
        BY <3>5, <3>6, <3>7, <3>8, <4>1
    <3>9. CASE q # p
      <4>1. more(S) = more(S \ {q}) /\ more(S) \in Int /\ g[q] = f[q]
        BY <3>3, <3>7, <3>9
      <4> HIDE DEF more
      <4> QED
        BY <3>5, <3>6, <3>7, <4>1
    <3> QED
      BY <3>8, <3>9
  <2> HIDE DEF more
  <2> QED
    BY <2>1, <2>2
<1>5. T = Nat
  <2> HIDE DEF T
  <2>1. T \subseteq Nat
    BY DEF T
  <2> QED
    BY <1>3, <1>4, <2>1, SetInduction
<1>6. t[Players] \in Int /\ u[Players] = t[Players] + more(Players)
  <2>1. Cardinality(Players) \in Nat
    BY ConstantsAssumption, FS_CardinalityType
  <2> HIDE DEF more
  <2> QED
    BY <1>5, <2>1
<1> QED
  BY <1>1, <1>2, <1>6

(* A sum is a number. *)
LEMMA SumType ==
  ASSUME NEW f \in [Players -> Int]
  PROVE  SumFunction(f) \in Int
<1>1. CASE Players = {}
  <2>1. PICK t : IsSum(t, f) /\ SumFunction(f) = t[Players]
    BY SumExists
  <2> QED
    BY <1>1, <2>1 DEF IsSum
<1>2. ASSUME NEW p \in Players PROVE SumFunction(f) \in Int
  BY SumChanges
<1> QED
  BY <1>1, <1>2

-----------------------------------------------------------------------------
(* No item is in two slots of an offer. *)
OneEach(items) ==
    \A s, u \in Slots : items[s] = items[u] /\ items[s] # NoItem => s = u
OneSlot == \A p \in Players : OneEach(trade[p].items)

-----------------------------------------------------------------------------
(* moveItems: the local definitions of MoveItems, and its result. *)

(* The item of p in a slot, as a set. *)
Mine(p, s) == IF Item(p, s) THEN {trade[p].items[s]} ELSE {}

(* Has r room for another item when the items are where o says? *)
Room(o, r) == Cardinality({i \in Items : o[i] = r}) < Capacity

Give(o, is, r) ==
    [i \in Items |-> IF i \in is THEN (IF Room(o, r) THEN r ELSE Lost) ELSE o[i]]

MoveSlot(p, q, o, s) ==
    IF (Mine(p, s) = {} \/ Room(o, q)) /\ (Mine(q, s) = {} \/ Room(o, p))
    THEN Give(Give(o, Mine(p, s), q), Mine(q, s), p)
    ELSE Give(Give(o, Mine(p, s), p), Mine(q, s), q)

(* What p offers in the first k slots. *)
Off(p, k) == {trade[p].items[s] : s \in {u \in 1..k : Item(p, u)}}

(* Where the items are after k slots. *)
After(p, q, k) ==
    [i \in Items |-> IF i \in Off(p, k) THEN q
                     ELSE IF i \in Off(q, k) THEN p
                     ELSE IF i \in Offered(p) \cup Offered(q) THEN Lost
                     ELSE owner[i]]

(* The two offers have changed hands and everything else is where it was. *)
Swapped(p, q) ==
    [i \in Items |-> IF i \in Offered(p) THEN q
                     ELSE IF i \in Offered(q) THEN p
                     ELSE owner[i]]

(* Two players whose bags hold what they are about to receive. *)
Swappable(p, q) ==
    /\ p \in Players /\ q \in Players /\ p # q
    /\ owner \in [Items -> Players \cup {Gone, Lost}]
    /\ trade[p].items \in [Slots -> Items \cup {NoItem}]
    /\ trade[q].items \in [Slots -> Items \cup {NoItem}]
    /\ OneSlot
    /\ CanStoreItems(p, q) /\ CanStoreItems(q, p)

(* The sets of items of one of the two. *)
LEMMA OffFacts ==
  ASSUME NEW p \in Players, trade[p].items \in [Slots -> Items \cup {NoItem}], OneSlot,
         NEW k \in Nat, k < Traded
  PROVE  /\ Mine(p, k + 1) \subseteq Offered(p) /\ Mine(p, k + 1) \cap Off(p, k) = {}
         /\ Off(p, k) \cup Mine(p, k + 1) = Off(p, k + 1) /\ Off(p, k + 1) \subseteq Offered(p)
         /\ Offered(p) \subseteq Bags(p)
         /\ \A i \in Mine(p, k + 1) : Mine(p, k + 1) = {i}
<1>1. Traded \in Nat /\ NoItem \notin Items /\ NonTraded = Traded + 1
  BY ConstantsAssumption DEF NonTraded
<1>2. k + 1 \in 1..Traded /\ 1..k \subseteq 1..Traded /\ 1..Traded \subseteq Slots
      /\ 1..(k + 1) = 1..k \cup {k + 1} /\ k + 1 \notin 1..k /\ 1..(k + 1) \subseteq 1..Traded
  BY <1>1 DEF Slots
<1>3. Off(p, Traded) = Offered(p)
  BY DEF Off, Offered
<1>4. Off(p, k) \cup Mine(p, k + 1) = Off(p, k + 1)
  BY <1>2 DEF Off, Mine
<1>5. Off(p, k + 1) \subseteq Offered(p)
  BY <1>2 DEF Off, Offered
<1>6. Mine(p, k + 1) \cap Off(p, k) = {}
  <2>1. \A s \in 1..k : Item(p, s) /\ Item(p, k + 1) => trade[p].items[s] # trade[p].items[k + 1]
    BY <1>2 DEF OneSlot, OneEach, Item
  <2> QED
    BY <2>1 DEF Off, Mine
<1>7. Offered(p) \subseteq Bags(p)
  BY <1>2 DEF Offered, Bags, Item
<1>8. \A i \in Mine(p, k + 1) : Mine(p, k + 1) = {i}
  BY DEF Mine
<1> QED
  BY <1>4, <1>5, <1>6, <1>7, <1>8

(* While an item of p is still on its way there is room for it in the bags of q,
   who has been given nothing else than p's offer. *)
LEMMA RoomLeft ==
  ASSUME NEW p \in Players, NEW q \in Players, NEW i \in Items, CanStoreItems(q, p),
         NEW o, {j \in Items : o[j] = q} \subseteq (Bags(q) \ Offered(q)) \cup Offered(p),
         i \in Offered(p), Offered(p) \subseteq Items, o[i] # q
  PROVE  Room(o, q)
<1> DEFINE held == {j \in Items : o[j] = q}
           all == (Bags(q) \ Offered(q)) \cup Offered(p)
<1>1. IsFiniteSet(all) /\ held \in SUBSET all /\ i \in all /\ i \notin held
  <2>1. all \in SUBSET Items
    BY DEF Bags
  <2> QED
    BY <2>1, ConstantsAssumption, FS_Subset
<1>2. Cardinality(all) <= Capacity /\ Capacity \in Nat
  BY ConstantsAssumption DEF CanStoreItems
<1> HIDE DEF held, all
<1>3. /\ Cardinality(held) \in Nat /\ Cardinality(all) \in Nat
      /\ Cardinality(held) <= Cardinality(all) /\ Cardinality(held) # Cardinality(all)
  BY <1>1, FS_Subset, FS_CardinalityType
<1>4. Cardinality(held) < Capacity
  BY <1>2, <1>3
<1> QED
  BY <1>4 DEF Room, held

(* A slot: its two items find room, so nothing goes back and nothing is lost. *)
LEMMA MoveSlotSwaps ==
  ASSUME NEW p, NEW q, Swappable(p, q), NEW k \in Nat, k < Traded
  PROVE  MoveSlot(p, q, After(p, q, k), k + 1) = After(p, q, k + 1)
<1> DEFINE o  == After(p, q, k)
           mp == Mine(p, k + 1)
           mq == Mine(q, k + 1)
           o1 == Give(o, mp, q)
<1>1. /\ p \in Players /\ q \in Players /\ p # q /\ p # Lost /\ q # Lost
      /\ CanStoreItems(p, q) /\ CanStoreItems(q, p)
  BY ConstantsAssumption DEF Swappable
<1>2. /\ mp \subseteq Offered(p) /\ mp \cap Off(p, k) = {} /\ Offered(p) \subseteq Bags(p)
      /\ Off(p, k) \cup mp = Off(p, k + 1) /\ Off(p, k + 1) \subseteq Offered(p)
  BY OffFacts DEF Swappable
<1>3. /\ mq \subseteq Offered(q) /\ mq \cap Off(q, k) = {} /\ Offered(q) \subseteq Bags(q)
      /\ Off(q, k) \cup mq = Off(q, k + 1) /\ Off(q, k + 1) \subseteq Offered(q)
  BY OffFacts DEF Swappable
<1>4. /\ Bags(p) \cap Bags(q) = {} /\ Bags(p) \subseteq Items /\ Bags(q) \subseteq Items
      /\ \A i \in Items : /\ owner[i] = p <=> i \in Bags(p)
                         /\ owner[i] = q <=> i \in Bags(q)
  BY <1>1 DEF Bags
<1>5. \A i \in Items : o[i] = IF i \in Off(p, k) THEN q
                              ELSE IF i \in Off(q, k) THEN p
                              ELSE IF i \in Offered(p) \cup Offered(q) THEN Lost
                              ELSE owner[i]
  BY DEF After
<1> HIDE DEF o, mp, mq
<1>6. \A i \in mp \cup mq : i \in Items /\ o[i] = Lost
  BY <1>2, <1>3, <1>4, <1>5
<1>7. /\ {j \in Items : o[j] = q} \subseteq (Bags(q) \ Offered(q)) \cup Offered(p)
      /\ {j \in Items : o[j] = p} \subseteq (Bags(p) \ Offered(p)) \cup Offered(q)
  <2>1. Off(p, k) \subseteq Offered(p) /\ Off(q, k) \subseteq Offered(q)
    BY <1>2, <1>3
  <2>2. ASSUME NEW j \in Items, o[j] = q
        PROVE  j \in (Bags(q) \ Offered(q)) \cup Offered(p)
    <3>1. CASE j \in Off(p, k)
      BY <2>1, <3>1
    <3>2. CASE j \notin Off(p, k)
      <4>1. j \notin Off(q, k) /\ j \notin Offered(p) \cup Offered(q) /\ owner[j] = q
        BY <1>1, <1>5, <2>2, <3>2
      <4>2. j \in Items /\ j \in Bags(q) /\ j \notin Offered(q)
        BY <4>1 DEF Bags
      <4> QED
        BY <4>2
    <3> QED
      BY <3>1, <3>2
  <2>3. ASSUME NEW j \in Items, o[j] = p
        PROVE  j \in (Bags(p) \ Offered(p)) \cup Offered(q)
    <3>1. CASE j \in Off(q, k)
      BY <2>1, <3>1
    <3>2. CASE j \notin Off(q, k)
      <4>1. j \notin Off(p, k) /\ j \notin Offered(p) \cup Offered(q) /\ owner[j] = p
        BY <1>1, <1>5, <2>3, <3>2
      <4>2. j \in Items /\ j \in Bags(p) /\ j \notin Offered(p)
        BY <4>1 DEF Bags
      <4> QED
        BY <4>2
    <3> QED
      BY <3>1, <3>2
  <2> QED
    BY <2>2, <2>3
<1>8. mp = {} \/ Room(o, q)
  <2>1. ASSUME NEW i \in mp PROVE Room(o, q)
    BY <1>1, <1>2, <1>4, <1>6, <1>7, RoomLeft
  <2> QED
    BY <2>1
<1>9. mq = {} \/ Room(o, p)
  <2>1. ASSUME NEW i \in mq PROVE Room(o, p)
    BY <1>1, <1>3, <1>4, <1>6, <1>7, RoomLeft
  <2> QED
    BY <2>1
<1>10. \A i \in Items : o1[i] = IF i \in mp THEN q ELSE o[i]
  BY <1>8 DEF Give
<1>11. mq = {} \/ Room(o1, p)
  <2>1. {i \in Items : o1[i] = p} = {i \in Items : o[i] = p}
    BY <1>1, <1>6, <1>10
  <2> QED
    BY <1>9, <2>1 DEF Room
<1>12. MoveSlot(p, q, o, k + 1) = Give(o1, mq, p)
  BY <1>8, <1>9 DEF MoveSlot, mp, mq
<1>13. Give(o1, mq, p) = [i \in Items |-> IF i \in mq THEN p ELSE o1[i]]
  BY <1>11 DEF Give
<1>14. ASSUME NEW i \in Items
       PROVE  (IF i \in mq THEN p ELSE o1[i]) = After(p, q, k + 1)[i]
  BY <1>2, <1>3, <1>4, <1>5, <1>10 DEF After
<1>15. [i \in Items |-> IF i \in mq THEN p ELSE o1[i]] = After(p, q, k + 1)
  BY <1>14 DEF After
<1> QED
  BY <1>12, <1>13, <1>15 DEF o

(* The fold of MoveItems, as a function. *)
Seq1 == [s \in 1..Traded |-> s]
Removed(p, q) ==
    [i \in Items |-> IF i \in Offered(p) \cup Offered(q) THEN Lost ELSE owner[i]]

(* moveItems exchanges exactly what is on offer. *)
LEMMA MoveItemsSwaps ==
  ASSUME NEW p, NEW q, Swappable(p, q)
  PROVE  MoveItems(p, q) = Swapped(p, q)
<1> DEFINE D == DOMAIN Seq1
           t == CHOOSE t : t = [S \in SUBSET D |->
                   IF S = {} THEN Removed(p, q)
                   ELSE MoveSlot(p, q, t[S \ {Max(S)}], Seq1[Max(S)])]
           V == [Items -> Players \cup {Gone, Lost}]
           pick == [S \in SUBSET D |-> Max(S)]
           step == [s \in D |-> [o \in V |-> MoveSlot(p, q, o, Seq1[s])]]
<1>1. MoveItems(p, q) = t[D]
  BY DEF MoveItems, FoldLeft, MapThenFoldSet, MoveSlot, Room, Mine, Give, Removed, Seq1
<1>2. D = 1..Traded /\ IsFiniteSet(D) /\ Traded \in Nat /\ \A s \in D : Seq1[s] = s
  <2>1. D = 1..Traded /\ Traded \in Nat
    BY ConstantsAssumption DEF Seq1
  <2> QED
    BY <2>1, FS_Interval DEF Seq1
<1> HIDE DEF D
<1>3. \A S \in (SUBSET D) \ {{}} : Max(S) \in S
  <2>1. ASSUME NEW S \in SUBSET D, S # {}
        PROVE  \E x \in S : \A y \in S : x >= y
    <3> DEFINE Z == {Traded - x : x \in S}
    <3>1. Z \in SUBSET Nat /\ Z # {}
      <4>1. \A x \in S : x \in 1..Traded /\ Traded - x \in Nat
        BY <1>2, <2>1
      <4> QED
        BY <2>1, <4>1
    <3>2. PICK z \in Z : \A y \in Z : z <= y
      BY <3>1, Least
    <3>3. PICK x \in S : z = Traded - x
      BY <3>2
    <3>4. ASSUME NEW y \in S PROVE x >= y
      <4>1. Traded - x <= Traded - y
        BY <3>2, <3>3
      <4>2. x \in Int /\ y \in Int
        BY <1>2, <2>1
      <4> QED
        BY <1>2, <4>1, <4>2
    <3> QED
      BY <3>4
  <2> QED
    BY <2>1 DEF Max
<1>4. ASSUME NEW o \in V, NEW s \in D PROVE MoveSlot(p, q, o, s) \in V
  <2>1. p \in Players /\ q \in Players
    BY DEF Swappable
  <2>2. \A v \in V, r \in Players : \A is : Give(v, is, r) \in V
    BY DEF Give
  <2> HIDE DEF V
  <2> QED
    BY <2>1, <2>2 DEF MoveSlot
<1>5. Removed(p, q) \in V
  BY DEF Removed, Swappable
<1>6. PICK u \in [SUBSET D -> V] : Folded(u, D, Removed(p, q), pick, step)
  <2>1. Picks(pick, D)
    BY <1>3 DEF Picks
  <2>2. Steps(step, D, V)
    <3> HIDE DEF V
    <3> QED
      BY <1>2, <1>4 DEF Steps
  <2> HIDE DEF pick, step, V
  <2> QED
    BY <1>2, <1>5, <2>1, <2>2, FoldExists
<1>7. \A S \in SUBSET D :
        u[S] = IF S = {} THEN Removed(p, q)
               ELSE MoveSlot(p, q, u[S \ {Max(S)}], Seq1[Max(S)])
  <2> HIDE DEF V
  <2>1. ASSUME NEW S \in SUBSET D, S # {}
        PROVE  step[pick[S]][u[S \ {pick[S]}]] = MoveSlot(p, q, u[S \ {Max(S)}], Seq1[Max(S)])
    BY <1>3, <2>1
  <2> HIDE DEF pick, step
  <2> QED
    BY <1>6, <2>1 DEF Folded
<1>8. u = [S \in SUBSET D |-> IF S = {} THEN Removed(p, q)
                             ELSE MoveSlot(p, q, u[S \ {Max(S)}], Seq1[Max(S)])]
  BY <1>7
<1>9. t = [S \in SUBSET D |-> IF S = {} THEN Removed(p, q)
                             ELSE MoveSlot(p, q, t[S \ {Max(S)}], Seq1[Max(S)])]
  BY <1>8
<1> HIDE DEF t, V, pick, step
<1> DEFINE T == {k \in Nat : k <= Traded => t[1..k] = After(p, q, k)}
<1>10. 0 \in T
  <2>1. 1..0 = {} /\ {} \in SUBSET D
    OBVIOUS
  <2>2. t[{}] = Removed(p, q)
    BY <1>9, <2>1
  <2>3. Off(p, 0) = {} /\ Off(q, 0) = {}
    BY DEF Off
  <2>4. After(p, q, 0) = Removed(p, q)
    BY <2>3 DEF After, Removed
  <2> QED
    BY <2>1, <2>2, <2>4
<1>11. ASSUME NEW k \in T PROVE k + 1 \in T
  <2>1. k \in Nat /\ k + 1 \in Nat
    BY <1>11
  <2>2. ASSUME k + 1 <= Traded PROVE t[1..(k + 1)] = After(p, q, k + 1)
    <3>1. k < Traded /\ k <= Traded /\ 1..(k + 1) \in SUBSET D /\ 1..(k + 1) # {} /\ k + 1 \in D
      BY <1>2, <2>1, <2>2
    <3>2. Max(1..(k + 1)) = k + 1
      <4>1. k + 1 \in 1..(k + 1) /\ \A y \in 1..(k + 1) : k + 1 >= y
        BY <2>1
      <4>2. \A x \in 1..(k + 1) : (\A y \in 1..(k + 1) : x >= y) => x = k + 1
        BY <2>1
      <4> QED
        BY <4>1, <4>2 DEF Max
    <3>3. 1..(k + 1) \ {k + 1} = 1..k
      BY <2>1
    <3>4. \A S \in SUBSET D : S # {} => t[S] = MoveSlot(p, q, t[S \ {Max(S)}], Seq1[Max(S)])
      BY <1>9
    <3>5. t[1..(k + 1)] = MoveSlot(p, q, t[1..k], k + 1)
      <4>1. PICK S \in SUBSET D : S = 1..(k + 1)
        BY <3>1
      <4>2. S # {} /\ Max(S) = k + 1 /\ S \ {k + 1} = 1..k /\ Seq1[k + 1] = k + 1
        BY <1>2, <3>1, <3>2, <3>3, <4>1
      <4>3. t[S] = MoveSlot(p, q, t[S \ {Max(S)}], Seq1[Max(S)])
        BY <3>4, <4>2
      <4>4. t[S] = MoveSlot(p, q, t[1..k], k + 1)
        BY <4>2, <4>3
      <4> QED
        BY <4>1, <4>4
    <3> QED
      BY <1>11, <2>1, <3>1, <3>5, MoveSlotSwaps
  <2> QED
    BY <2>1, <2>2
<1>12. T = Nat
  <2> HIDE DEF T
  <2>1. T \subseteq Nat
    BY DEF T
  <2> QED
    BY <1>10, <1>11, <2>1, SetInduction
<1>13. t[D] = After(p, q, Traded)
  BY <1>2, <1>12
<1>14. Off(p, Traded) = Offered(p) /\ Off(q, Traded) = Offered(q)
  BY DEF Off, Offered
<1>15. After(p, q, Traded) = Swapped(p, q)
  BY <1>14 DEF After, Swapped
<1> QED
  BY <1>1, <1>13, <1>15

-----------------------------------------------------------------------------
(* Bags and purses. *)

GoodsType ==
    /\ owner \in [Items -> Players \cup {Gone, Lost}]
    /\ money \in [Players -> 0..MaxMoney] /\ outside \in Nat
    /\ indexes <= MaxChanges + 1

Goods == GoodsType /\ OneSlot /\ MoneyKept /\ ItemsKept

LEMMA InitGoods == Init => Goods
<1> SUFFICES ASSUME Init PROVE Goods
  OBVIOUS
<1>1. Players \cap {Gone, Lost} = {} /\ Owner \in [Items -> Players]
      /\ Coins \in [Players -> 0..MaxMoney] /\ Outside \in Nat /\ MaxChanges \in Nat
  BY ConstantsAssumption
<1>2. GoodsType
  BY <1>1 DEF GoodsType, Init
<1>3. OneSlot
  <2>1. \A p \in Players : trade[p].items = NoItems
    BY DEF Init, NoTrade, NewTrade
  <2> QED
    BY <2>1 DEF OneSlot, OneEach, NoItems
<1>4. MoneyKept
  <2>0. money \in [Players -> 0..MaxMoney]
    BY <1>2 DEF GoodsType
  <2>1. SumFunction(Coins) \in Int
    <3>1. Coins \in [Players -> Int] /\ MaxMoney \in Nat
      BY ConstantsAssumption
    <3> QED
      BY <3>1, SumType
  <2> QED
    BY <1>1, <2>0, <2>1 DEF MoneyKept, Init
<1>5. ItemsKept
  BY <1>1 DEF ItemsKept, Init
<1> QED
  BY <1>2, <1>3, <1>4, <1>5 DEF Goods

(* A step that moves neither items nor money. *)
LEMMA SameGoods ==
  ASSUME Goods, UNCHANGED <<owner, money, outside>>, indexes' <= MaxChanges + 1, OneSlot'
  PROVE  Goods'
BY DEF Goods, GoodsType, MoneyKept, ItemsKept

(* A changed offer. *)
LEMMA ChangeGoods ==
  ASSUME IInv, Goods, NEW p \in Players, NEW mine \in TradeData, NEW clear \in BOOLEAN,
         Trading(p), mine.trader = trade[p].trader, Change(p, mine, clear),
         OneEach(mine.items)
  PROVE  Goods'
<1>1. PICK q \in Players : q = trade[p].trader
  BY PairOfTraders
<1> DEFINE his == [trade[q] EXCEPT !.accepted = FALSE, !.spell = @ /\ ~clear,
                                   !.index = IF clear /\ trade[q].spell
                                             THEN indexes + 1 ELSE @]
           my == [mine EXCEPT !.accepted = FALSE, !.index = indexes + 1]
<1>2. trade[q] \in TradeData /\ trade \in [Players -> TradeData] /\ indexes \in Nat
  BY DEF IInv, DataType
<1>3. his.items = trade[q].items /\ my.items = mine.items
  BY <1>2 DEF TradeData
<1>4. /\ trade' = [trade EXCEPT ![p] = my, ![q] = his]
      /\ indexes <= MaxChanges /\ indexes' = indexes + 1
      /\ UNCHANGED <<owner, money, outside>>
  BY <1>1 DEF Change
<1> HIDE DEF his, my
<1>5. \A r \in Players : trade'[r].items \in {mine.items, trade[r].items}
  BY <1>2, <1>3, <1>4
<1>6. OneSlot'
  BY <1>5 DEF Goods, OneSlot
<1>7. indexes' <= MaxChanges + 1
  BY <1>2, <1>4, ConstantsAssumption
<1> QED
  BY <1>4, <1>6, <1>7, SameGoods

(* A step that changes nothing of the offers' items, or takes them all back. *)
LEMMA ItemsSameGoods ==
  ASSUME Goods, UNCHANGED <<owner, money, outside, indexes>>,
         \A r \in Players : trade'[r].items \in {NoItems, trade[r].items}
  PROVE  Goods'
<1>1. OneEach(NoItems)
  BY DEF OneEach, NoItems
<1>2. OneSlot'
  BY <1>1 DEF Goods, OneSlot
<1> QED
  BY <1>2, SameGoods DEF Goods, GoodsType

LEMMA CancelItems ==
  ASSUME IInv, NEW p \in Players, TradeCancel(p)
  PROVE  \A r \in Players : trade'[r].items \in {NoItems, trade[r].items}
BY DEF TradeCancel, NoTrade, NewTrade, IInv, DataType

(* The trade takes place: the checks of money and room are enough that ModifyMoney
   clips nothing and moveItems exchanges the offers. *)
LEMMA AcceptTradeMoves ==
  ASSUME IInv, Goods, NEW p \in Players, NEW q, q = trade[p].trader, NEW v, AcceptTrade(p, v)
  PROVE  /\ q \in Players /\ p # q /\ trade[q].trader = p
         /\ trade[p].money \in 0..MaxMoney /\ trade[q].money \in 0..MaxMoney
         /\ money[p] - trade[p].money + trade[q].money \in 0..MaxMoney
         /\ money[q] - trade[q].money + trade[p].money \in 0..MaxMoney
         /\ money' = [money EXCEPT ![p] = @ - trade[p].money + trade[q].money,
                                   ![q] = @ - trade[q].money + trade[p].money]
         /\ owner' = Swapped(p, q)
<1>1. Trading(p)
  BY DEF AcceptTrade, BothAccept
<1>2. q \in Players /\ p # q /\ trade[q].trader = p
  BY <1>1, PairOfTraders
<1>3. /\ trade[p] \in TradeData /\ trade[q] \in TradeData
      /\ GoodsType /\ OneSlot /\ MaxMoney \in Nat
  BY <1>2, ConstantsAssumption DEF IInv, DataType, Goods
<1>4. PICK pays, gets \in 0..MaxMoney : pays = trade[p].money /\ gets = trade[q].money
  BY <1>3 DEF TradeData
<1>5. /\ owner' = MoveItems(p, q)
      /\ money' = [money EXCEPT ![p] = ModifyMoney(@, pays, gets),
                                ![q] = ModifyMoney(@, gets, pays)]
      /\ CanStoreItems(p, q) /\ CanStoreItems(q, p)
  BY <1>4 DEF AcceptTrade
<1>6. money[p] \in 0..MaxMoney /\ money[q] \in 0..MaxMoney
  BY <1>2, <1>3 DEF GoodsType
<1>7. /\ pays <= money[p] /\ gets <= money[q]
      /\ money[p] <= MaxMoney - gets /\ money[q] <= MaxMoney - pays
  <2>1. ~PlayerRefused(p, v) /\ ~TraderRefused(p)
    BY DEF AcceptTrade, BothAccept
  <2>2. /\ ~(money[p] < pays) /\ (money[q] >= gets => ~(money[p] > MaxMoney - gets))
        /\ ~(money[q] < gets) /\ ~(money[q] > MaxMoney - pays)
    BY <1>4, <2>1 DEF PlayerRefused, TraderRefused
  <2> QED
    BY <1>3, <1>6, <2>2
<1>8. /\ ModifyMoney(money[p], pays, gets) = money[p] - pays + gets
      /\ ModifyMoney(money[q], gets, pays) = money[q] - gets + pays
      /\ money[p] - pays + gets \in 0..MaxMoney
      /\ money[q] - gets + pays \in 0..MaxMoney
  BY <1>3, <1>6, <1>7 DEF ModifyMoney
<1>9. money' = [money EXCEPT ![p] = @ - pays + gets, ![q] = @ - gets + pays]
  <2>1. money' = [money EXCEPT ![p] = ModifyMoney(money[p], pays, gets),
                               ![q] = ModifyMoney(money[q], gets, pays)]
    BY <1>2, <1>5
  <2>2. money' = [money EXCEPT ![p] = money[p] - pays + gets,
                               ![q] = money[q] - gets + pays]
    BY <1>8, <2>1
  <2> QED
    BY <1>2, <2>2
<1>10. owner' = Swapped(p, q)
  <2>1. /\ trade[p].items \in [Slots -> Items \cup {NoItem}]
        /\ trade[q].items \in [Slots -> Items \cup {NoItem}]
    BY <1>3 DEF TradeData
  <2>2. Swappable(p, q)
    BY <1>2, <1>3, <1>5, <2>1 DEF Swappable, GoodsType
  <2> QED
    BY <1>5, <2>2, MoveItemsSwaps
<1> QED
  BY <1>2, <1>4, <1>8, <1>9, <1>10

(* The trade takes place: neither an item nor a coin is lost. *)
LEMMA AcceptTradeGoods ==
  ASSUME IInv, Goods, NEW p \in Players, NEW v, AcceptTrade(p, v)
  PROVE  Goods'
<1>1. PICK q \in Players : q = trade[p].trader /\ p # q /\ trade[q].trader = p
  BY AcceptTradeMoves
<1>2. /\ GoodsType /\ OneSlot /\ MoneyKept /\ ItemsKept
      /\ Players \cap {Gone, Lost} = {} /\ MaxMoney \in Nat
  BY ConstantsAssumption DEF Goods
<1>3. PICK pays, gets \in 0..MaxMoney : pays = trade[p].money /\ gets = trade[q].money
  BY <1>1, AcceptTradeMoves
<1>4. TradeCancel(p) /\ UNCHANGED <<outside, indexes>>
  BY DEF AcceptTrade
<1>5. /\ money' = [money EXCEPT ![p] = @ - pays + gets, ![q] = @ - gets + pays]
      /\ owner' = Swapped(p, q)
  BY <1>1, <1>3, AcceptTradeMoves
<1>6. money[p] - pays + gets \in 0..MaxMoney /\ money[q] - gets + pays \in 0..MaxMoney
  BY <1>1, <1>3, AcceptTradeMoves
<1>7. money' \in [Players -> 0..MaxMoney]
  BY <1>1, <1>2, <1>5, <1>6 DEF GoodsType
<1>8. MoneyKept'
  <2> DEFINE half == [money EXCEPT ![p] = money[p] - pays + gets]
  <2>1. /\ money \in [Players -> Int] /\ half \in [Players -> Int]
        /\ money' \in [Players -> Int]
    BY <1>2, <1>6, <1>7 DEF GoodsType
  <2>2. /\ half[p] = money[p] - pays + gets /\ half[q] = money[q]
        /\ money'[q] = money[q] - gets + pays
        /\ \A r \in Players \ {p} : half[r] = money[r]
        /\ \A r \in Players \ {q} : money'[r] = half[r]
    BY <1>1, <1>2, <1>5, <1>6 DEF GoodsType
  <2> HIDE DEF half
  <2>3. /\ SumFunction(money) \in Int
        /\ SumFunction(half) = SumFunction(money) + (half[p] - money[p])
    BY <2>1, <2>2, SumChanges
  <2>4. SumFunction(money') = SumFunction(half) + (money'[q] - half[q])
    BY <2>1, <2>2, SumChanges
  <2>5. SumFunction(money') = SumFunction(money)
    <3>1. money[p] \in Int /\ money[q] \in Int
      BY <2>1
    <3> QED
      BY <2>2, <2>3, <2>4, <3>1
  <2> QED
    BY <1>2, <1>4, <1>7, <2>5 DEF MoneyKept
<1>9. owner' \in [Items -> Players \cup {Gone, Lost}] /\ ItemsKept'
  BY <1>1, <1>2, <1>5 DEF Swapped, ItemsKept, GoodsType
<1>10. OneSlot'
  <2>1. \A r \in Players : trade'[r].items \in {NoItems, trade[r].items}
    BY <1>4, CancelItems
  <2>2. OneEach(NoItems)
    BY DEF OneEach, NoItems
  <2> QED
    BY <1>2, <2>1, <2>2 DEF OneSlot
<1> QED
  BY <1>2, <1>4, <1>7, <1>8, <1>9, <1>10 DEF Goods, GoodsType

(* Money comes from the rest of the world, or goes there. *)
LEMMA MoneyGoods ==
  ASSUME Goods, NEW p \in Players, Spend(p) \/ Earn(p)
  PROVE  Goods'
<1>1. GoodsType /\ OneSlot /\ MoneyKept /\ ItemsKept /\ MaxMoney \in Nat
  BY ConstantsAssumption DEF Goods
<1>2. PICK d \in {-1, 1} :
        /\ money' = [money EXCEPT ![p] = @ + d] /\ outside' = outside - d
        /\ money[p] + d \in 0..MaxMoney /\ outside - d \in Nat
  <2>1. money[p] \in 0..MaxMoney /\ outside \in Nat
    BY <1>1 DEF GoodsType
  <2>2. CASE Spend(p)
    <3>1. money' = [money EXCEPT ![p] = @ + (-1)]
      <4>1. money' = [money EXCEPT ![p] = money[p] - 1] /\ money[p] - 1 = money[p] + (-1)
        BY <2>1, <2>2 DEF Spend
      <4> QED
        BY <4>1
    <3>2. outside' = outside - (-1) /\ money[p] + (-1) \in 0..MaxMoney /\ outside - (-1) \in Nat
      BY <1>1, <2>1, <2>2 DEF Spend
    <3> QED
      BY <3>1, <3>2
  <2>3. CASE Earn(p)
    BY <1>1, <2>1, <2>3 DEF Earn
  <2> QED
    BY <2>2, <2>3
<1>3. money' \in [Players -> 0..MaxMoney] /\ money'[p] = money[p] + d
      /\ \A r \in Players \ {p} : money'[r] = money[r]
  BY <1>1, <1>2 DEF GoodsType
<1>4. MoneyKept'
  <2>1. money \in [Players -> Int] /\ money' \in [Players -> Int]
    BY <1>1, <1>3 DEF GoodsType
  <2>2. /\ SumFunction(money) \in Int
        /\ SumFunction(money') = SumFunction(money) + (money'[p] - money[p])
    BY <1>3, <2>1, SumChanges
  <2>3. money'[p] - money[p] = d
    BY <1>2, <1>3, <2>1
  <2>4. outside \in Int /\ d \in Int
    BY <1>1, <1>2 DEF GoodsType
  <2>5. SumFunction(money') + outside' = SumFunction(money) + outside
    BY <1>2, <2>2, <2>3, <2>4
  <2> QED
    BY <1>1, <1>3, <2>5 DEF MoneyKept
<1>5. UNCHANGED <<owner, indexes, trade>>
  BY DEF Spend, Earn
<1> QED
  BY <1>1, <1>2, <1>3, <1>4, <1>5 DEF Goods, GoodsType, OneSlot, ItemsKept

(* An item is used up. *)
LEMMA VanishGoods ==
  ASSUME Goods, NEW i \in Items, Vanish(i)
  PROVE  Goods'
<1>1. Gone # Lost
  BY DEF Gone, Lost
<1>2. GoodsType /\ OneSlot /\ MoneyKept /\ ItemsKept
  BY DEF Goods
<1>3. /\ owner' = [owner EXCEPT ![i] = Gone]
      /\ UNCHANGED <<money, outside, trade, indexes>>
  BY DEF Vanish
<1>4. GoodsType' /\ ItemsKept'
  BY <1>1, <1>2, <1>3 DEF GoodsType, ItemsKept
<1>5. OneSlot' /\ MoneyKept'
  BY <1>2, <1>3 DEF OneSlot, MoneyKept
<1> QED
  BY <1>4, <1>5 DEF Goods

(* An item that is put on offer is not on offer yet. *)
LEMMA OffersGoods ==
  ASSUME IInv, Goods, NEW p \in Players,
         \/ \E s \in Slots : \/ \E i \in Items : HandleSetTradeItem(p, s, i)
                             \/ HandleClearTradeItem(p, s)
                             \/ SetCount(p, s)
         \/ \E m \in 0..MaxMoney : HandleSetTradeGold(p, m)
         \/ SetSpell(p)
  PROVE  Goods'
<1>1. trade[p] \in TradeData /\ OneEach(trade[p].items)
      /\ trade[p].items \in [Slots -> Items \cup {NoItem}] /\ NoItem \notin Items
  BY ConstantsAssumption DEF IInv, DataType, TradeData, Goods, OneSlot
<1>2. ASSUME Trading(p), NEW s \in Slots, NEW i \in Items \cup {NoItem}, SetItem(p, s, i),
             \A u \in Slots \ {s} : i # NoItem => trade[p].items[u] # i
      PROVE  Goods'
  <2> DEFINE mine == [trade[p] EXCEPT !.items[s] = i, !.spell = FALSE]
  <2>1. mine \in TradeData /\ mine.trader = trade[p].trader
    BY <1>1 DEF TradeData
  <2>2. mine.items = [trade[p].items EXCEPT ![s] = i]
    BY <1>1 DEF TradeData
  <2>3. Change(p, mine, s = NonTraded)
    BY <1>2 DEF SetItem
  <2> HIDE DEF mine
  <2>4. OneEach(mine.items)
    BY <1>1, <1>2, <2>2 DEF OneEach
  <2> QED
    BY <1>2, <2>1, <2>3, <2>4, ChangeGoods
<1>3. ASSUME NEW m \in 0..MaxMoney, HandleSetTradeGold(p, m) PROVE Goods'
  <2> DEFINE mine == [trade[p] EXCEPT !.money = m]
  <2>1. mine \in TradeData /\ mine.trader = trade[p].trader /\ mine.items = trade[p].items
    BY <1>1 DEF TradeData
  <2>2. Trading(p) /\ Change(p, mine, FALSE)
    BY <1>3 DEF HandleSetTradeGold
  <2> HIDE DEF mine
  <2> QED
    BY <1>1, <2>1, <2>2, ChangeGoods
<1>4. ASSUME SetSpell(p) PROVE Goods'
  <2> DEFINE mine == [trade[p] EXCEPT !.spell = TRUE]
  <2>1. mine \in TradeData /\ mine.trader = trade[p].trader /\ mine.items = trade[p].items
    BY <1>1 DEF TradeData
  <2>2. Trading(p) /\ Change(p, mine, FALSE)
    BY <1>4 DEF SetSpell
  <2> HIDE DEF mine
  <2> QED
    BY <1>1, <2>1, <2>2, ChangeGoods
<1>5. ASSUME NEW s \in Slots, SetCount(p, s) PROVE Goods'
  <2> DEFINE i == trade[p].items[s]
  <2>1. /\ i \in Items \cup {NoItem} /\ Trading(p) /\ SetItem(p, s, i)
        /\ \A u \in Slots \ {s} : i # NoItem => trade[p].items[u] # i
    BY <1>1, <1>5 DEF SetCount, OneEach
  <2> HIDE DEF i
  <2> QED
    BY <1>2, <2>1
<1>6. ASSUME NEW s \in Slots, NEW i \in Items, HandleSetTradeItem(p, s, i) PROVE Goods'
  BY <1>2, <1>6 DEF HandleSetTradeItem
<1>7. ASSUME NEW s \in Slots, HandleClearTradeItem(p, s) PROVE Goods'
  BY <1>2, <1>7 DEF HandleClearTradeItem
<1> QED
  BY <1>3, <1>4, <1>5, <1>6, <1>7

(* SetAccepted touches no item. *)
LEMMA AcceptedGoods ==
  ASSUME IInv, Goods, NEW p \in Players, NEW v, NEW mine, NEW his, Trading(p),
         Accepted(p, v, mine, his)
  PROVE  Goods'
<1>1. PICK q \in Players \ {p} : q = trade[p].trader
  BY PairOfTraders
<1>2. \A r \in Players : trade[r] \in TradeData
  BY DEF IInv, DataType
<1>3. /\ trade' = [trade EXCEPT ![p].accepted = mine, ![q].accepted = his]
      /\ UNCHANGED <<owner, money, outside, indexes>>
  BY <1>1 DEF Accepted
<1>4. \A r \in Players : trade'[r].items = trade[r].items
  <2>1. /\ trade'[p] = [trade[p] EXCEPT !.accepted = mine]
        /\ trade'[q] = [trade[q] EXCEPT !.accepted = his]
        /\ \A r \in Players \ {p, q} : trade'[r] = trade[r]
    BY <1>1, <1>3 DEF IInv, DataType
  <2> QED
    BY <1>1, <1>2, <2>1 DEF TradeData
<1> QED
  BY <1>3, <1>4, ItemsSameGoods

(* HandleAcceptTradeOpcode, whatever becomes of it. *)
LEMMA AcceptGoods ==
  ASSUME IInv, Goods, NEW p \in Players, NEW v \in Range(view[p]), HandleAcceptTrade(p, v)
  PROVE  Goods'
<1>1. CASE AcceptRefused(p, v) \/ AcceptTraderRefused(p, v)
  BY <1>1, AcceptedGoods DEF AcceptRefused, AcceptTraderRefused
<1>2. CASE AcceptFirst(p, v)
  BY <1>2, AcceptedGoods DEF AcceptFirst
<1>3. CASE AcceptNoRoom(p, v)
  BY <1>3, AcceptedGoods DEF AcceptNoRoom, BothAccept
<1>4. CASE AcceptSpellFails(p, v)
  <2>1. PICK r \in {p, trade[p].trader} : Change(r, [trade[r] EXCEPT !.spell = FALSE], FALSE)
    BY <1>4 DEF AcceptSpellFails
  <2>2. Trading(p)
    BY <1>4 DEF AcceptSpellFails, BothAccept
  <2>3. r \in Players /\ trade[r].trader \in Players
    BY <2>2, PairOfTraders
  <2>4. Trading(r)
    BY <2>3, ConstantsAssumption DEF Trading
  <2>5. trade[r] \in TradeData /\ OneEach(trade[r].items)
    BY <2>3 DEF IInv, DataType, Goods, OneSlot
  <2> DEFINE mine == [trade[r] EXCEPT !.spell = FALSE]
  <2>6. mine \in TradeData /\ mine.trader = trade[r].trader /\ mine.items = trade[r].items
    BY <2>5 DEF TradeData
  <2>7. Change(r, mine, FALSE)
    BY <2>1
  <2> HIDE DEF mine
  <2> QED
    BY <2>3, <2>4, <2>5, <2>6, <2>7, ChangeGoods
<1>5. CASE AcceptTrade(p, v)
  BY <1>5, AcceptTradeGoods
<1> QED
  BY <1>1, <1>2, <1>3, <1>4, <1>5 DEF HandleAcceptTrade

LEMMA NextGoods ==
  ASSUME IInv, Goods, [Next]_vars
  PROVE  Goods'
<1>1. CASE UNCHANGED vars
  BY <1>1, ItemsSameGoods DEF vars
<1>2. ASSUME NEW p \in Players, NEW q \in Players, HandleInitiateTrade(p, q) PROVE Goods'
  <2>1. \A r \in Players : trade'[r].items \in {NoItems, trade[r].items}
    BY <1>2 DEF HandleInitiateTrade, NewTrade, IInv, DataType
  <2> QED
    BY <1>2, <2>1, ItemsSameGoods DEF HandleInitiateTrade
<1>3. ASSUME NEW p \in Players, HandleCancelTrade(p) \/ Logout(p) PROVE Goods'
  BY <1>3, CancelItems, ItemsSameGoods DEF HandleCancelTrade, Logout
<1>4. ASSUME NEW p \in Players, Login(p) PROVE Goods'
  BY <1>4, ItemsSameGoods DEF Login
<1>5. ASSUME NEW p \in Players, HandleUnacceptTrade(p) PROVE Goods'
  <2>1. trade[p] \in TradeData /\ trade \in [Players -> TradeData]
    BY DEF IInv, DataType
  <2>2. \A r \in Players : trade'[r].items = trade[r].items
    BY <1>5, <2>1 DEF HandleUnacceptTrade, TradeData
  <2> QED
    BY <1>5, <2>2, ItemsSameGoods DEF HandleUnacceptTrade
<1> QED
  BY <1>1, <1>2, <1>3, <1>4, <1>5, OffersGoods, AcceptGoods, MoneyGoods, VanishGoods DEF Next

(* The invariant of the bags and purses, which rests on that of the trades. *)
THEOREM GoodsInvariance == Spec => []Goods
<1>1. Init => Goods
  BY InitGoods
<1>2. IInv /\ Goods /\ [Next]_vars => Goods'
  BY NextGoods
<1> QED
  BY <1>1, <1>2, Invariance, PTL DEF Spec

(* Every variable of the trades, the bags and the purses has its type in every
   reachable state. *)
THEOREM TypeCorrect == Spec => []TypeOK
<1>1. IInv /\ Goods => TypeOK
  <2> SUFFICES ASSUME IInv, Goods PROVE TypeOK
    OBVIOUS
  <2>1. \A p \in Players : trade[p] \in TradeData /\ trade[p].index \in 1..(MaxChanges + 1)
    <3>1. ASSUME NEW p \in Players
          PROVE  trade[p] \in TradeData /\ trade[p].index \in 1..(MaxChanges + 1)
      <4>1. /\ trade[p] \in TradeData /\ trade[p].index <= indexes
            /\ indexes \in Nat \ {0} /\ indexes <= MaxChanges + 1
        BY DEF IInv, DataType, IndexesDrawn, Goods, GoodsType
      <4>2. trade[p].index \in Nat \ {0} /\ MaxChanges \in Nat
        BY <4>1, ConstantsAssumption DEF TradeData
      <4> QED
        BY <4>1, <4>2
    <3> QED
      BY <3>1
  <2>2. indexes \in 1..(MaxChanges + 1)
    BY ConstantsAssumption DEF IInv, DataType, Goods, GoodsType
  <2> QED
    BY <2>1, <2>2 DEF TypeOK, IInv, DataType, Goods, GoodsType, TradeData
<1> QED
  BY <1>1, Invariance, GoodsInvariance, PTL

(* HandleAcceptTradeOpcode makes no money and loses none, nor does it give a player
   more than MAX_MONEY_AMOUNT or take what he does not have: the checks it makes
   before it moves the money are enough that ModifyMoney clips nothing. *)
THEOREM MoneyKeptCorrect == Spec => []MoneyKept
<1>1. Goods => MoneyKept
  BY DEF Goods
<1> QED
  BY <1>1, GoodsInvariance, PTL

(* No item is lost on its way from one bag to the other, whatever the bags hold
   and however many slots a trade has: CanStoreItems has looked at the outcome,
   and moveItems finds room for every item that it moves slot by slot. *)
THEOREM ItemsKeptCorrect == Spec => []ItemsKept
<1>1. Goods => ItemsKept
  BY DEF Goods
<1> QED
  BY <1>1, GoodsInvariance, PTL

-----------------------------------------------------------------------------
(* What a step does to what the players have. *)

(* Where the bags and purses stay as they are, or only one purse changes, nothing
   passes from one player to another. *)
LEMMA NothingPasses ==
  ASSUME GoodsType, NEW r \in Players,
         \A i \in Items : owner'[i] = owner[i] \/ owner'[i] = Gone,
         \A p \in Players \ {r} : money'[p] = money[p],
         NEW p \in Players, NEW q \in Players, p # q
  PROVE  ~PassedFrom(p, q)
<1>1. \A s \in Players : money[s] \in Int
  BY ConstantsAssumption DEF GoodsType
<1>2. \A i \in Items : ~(owner[i] = p /\ owner'[i] = q)
  BY ConstantsAssumption
<1>3. ~(money'[p] < money[p] /\ money'[q] > money[q])
  <2>1. CASE p # r
    BY <1>1, <2>1
  <2>2. CASE q # r
    BY <1>1, <2>2
  <2> QED
    BY <2>1, <2>2
<1> QED
  BY <1>2, <1>3 DEF PassedFrom

(* What changes hands is what the offer names and its owner has. *)
LEMMA PromisedOffered ==
  ASSUME NEW p \in Players
  PROVE  \A i \in Items : i \in Offered(p) <=> i \in Promised(Terms(trade[p])) /\ owner[i] = p
<1>1. Terms(trade[p]).items = trade[p].items
  BY DEF Terms
<1> QED
  BY <1>1, ConstantsAssumption DEF Promised, Offered, Item

(* AcceptTrade: the caller's client has been shown the partner's offer as it is,
   for it answers with its index, and the partner's acceptance stands. *)
LEMMA AcceptTradeExchanges ==
  ASSUME IInv, Goods, NEW p \in Players, NEW v \in Range(view[p]), AcceptTrade(p, v)
  PROVE  Exchanged(p, trade[p].trader)
<1>1. PICK q \in Players : q = trade[p].trader /\ p # q /\ trade[q].trader = p
  BY AcceptTradeMoves
<1>2. /\ Trading(p) /\ trade[q].accepted /\ v.index = trade[q].index /\ TradeCancel(p)
  BY <1>1 DEF AcceptTrade, BothAccept, PlayerRefused
<1>3. Trading(q)
  BY <1>1, ConstantsAssumption DEF Trading
<1>4. agreed[q] = [mine |-> Terms(trade[q]), his |-> Terms(trade[p])]
  BY <1>1, <1>2, <1>3 DEF IInv, AcceptedSeen
<1>5. View(trade[q]) \in Range(view[p])
  <2>1. v.terms = Terms(trade[q])
    BY <1>1, <1>2 DEF IInv, ShownAsIs
  <2>2. v \in Views
    <3>1. view[p] \in Seq(Views)
      BY DEF IInv, DataType
    <3>2. DOMAIN view[p] = 1..Len(view[p])
      BY <3>1, LenProperties
    <3>3. PICK i \in 1..Len(view[p]) : v = view[p][i]
      BY <3>2 DEF Range
    <3> QED
      BY <3>1, <3>3
  <2>3. v = [index |-> v.index, terms |-> v.terms]
    BY <2>2 DEF Views
  <2>4. v = View(trade[q])
    BY <1>2, <2>1, <2>3 DEF View
  <2> QED
    BY <2>4
<1>6. owner' = Swapped(p, q)
  BY <1>1, AcceptTradeMoves
<1>7. \A i \in Items : owner'[i] = IF i \in Offered(p) THEN q
                                  ELSE IF i \in Offered(q) THEN p ELSE owner[i]
  BY <1>6 DEF Swapped
<1>8. money' = [money EXCEPT ![p] = @ - trade[p].money + trade[q].money,
                            ![q] = @ - trade[q].money + trade[p].money]
  BY <1>1, AcceptTradeMoves
<1>9. ~Trading(p)' /\ ~Trading(q)'
  <2>1. trade'[p] = NoTrade /\ trade'[q] = NoTrade
    BY <1>1, <1>2 DEF TradeCancel
  <2> QED
    BY <2>1, NoTradeType DEF Trading
<1>10. /\ \A i \in Items : i \in Offered(p) <=> i \in Promised(Terms(trade[p])) /\ owner[i] = p
       /\ \A i \in Items : i \in Offered(q) <=> i \in Promised(Terms(trade[q])) /\ owner[i] = q
  BY PromisedOffered
<1>11. /\ agreed[q].mine = Terms(trade[q]) /\ agreed[q].his = Terms(trade[p])
       /\ agreed[q].mine.money = trade[q].money /\ agreed[q].his.money = trade[p].money
  BY <1>4 DEF Terms
<1>12. \A i \in Items : owner'[i] =
          IF i \in Promised(agreed[q].his) /\ owner[i] = p THEN q
          ELSE IF i \in Promised(agreed[q].mine) /\ owner[i] = q THEN p ELSE owner[i]
  BY <1>7, <1>10, <1>11
<1>13. Exchanged(p, q)
  BY <1>1, <1>2, <1>5, <1>8, <1>9, <1>11, <1>12 DEF Exchanged
<1> QED
  BY <1>1, <1>13

(* Only the two who trade have something else afterwards. *)
LEMMA OnlyTheTwo ==
  ASSUME Goods, NEW r \in Players, NEW t \in Players, Exchanged(r, t),
         NEW p \in Players, NEW q \in Players, p # q, PassedFrom(p, q)
  PROVE  {p, q} = {r, t}
<1>1. /\ \A s \in Players \ {r, t} : money'[s] = money[s]
      /\ \A s \in Players : money[s] \in Int
  BY ConstantsAssumption DEF Exchanged, Goods, GoodsType
<1>2. \A i \in Items : \/ owner'[i] = owner[i]
                       \/ owner[i] = r /\ owner'[i] = t
                       \/ owner[i] = t /\ owner'[i] = r
  BY DEF Exchanged
<1>3. CASE \E i \in Items : owner[i] = p /\ owner'[i] = q
  BY <1>2, <1>3
<1>4. CASE money'[p] < money[p] /\ money'[q] > money[q]
  <2>1. p \in {r, t} /\ q \in {r, t}
    BY <1>1, <1>4
  <2> QED
    BY <2>1
<1> QED
  BY <1>3, <1>4 DEF PassedFrom

(* What passes between two players in a step is an exchange they agreed to. *)
LEMMA StepAsAgreed ==
  ASSUME IInv, Goods, Next, NEW p \in Players, NEW q \in Players, p # q, PassedFrom(p, q)
  PROVE  Exchanged(p, q) \/ Exchanged(q, p)
<1>1. GoodsType /\ OneSlot
  BY DEF Goods
<1>2. ~UNCHANGED <<owner, money>>
  BY <1>1, NothingPasses
<1>3. ASSUME NEW r \in Players, Spend(r) \/ Earn(r) PROVE FALSE
  <2>1. owner' = owner /\ \A s \in Players \ {r} : money'[s] = money[s]
    BY <1>1, <1>3 DEF Spend, Earn, GoodsType
  <2> QED
    BY <1>1, <2>1, NothingPasses
<1>4. ASSUME NEW i \in Items, Vanish(i) PROVE FALSE
  <2>1. money' = money /\ \A j \in Items : owner'[j] = owner[j] \/ owner'[j] = Gone
    BY <1>1, <1>4 DEF Vanish, GoodsType
  <2> QED
    BY <1>1, <2>1, NothingPasses
<1>5. ASSUME NEW r \in Players, NEW v \in Range(view[r]), HandleAcceptTrade(r, v)
      PROVE  AcceptTrade(r, v)
  <2>1. ~(\E w, x, y : Accepted(w, v, x, y))
    BY <1>2 DEF Accepted
  <2>2. ~(\E w, x, y : Change(w, x, y))
    BY <1>2 DEF Change
  <2>3. ~(AcceptRefused(r, v) \/ AcceptTraderRefused(r, v))
    BY <2>1 DEF AcceptRefused, AcceptTraderRefused
  <2>4. ~AcceptFirst(r, v)
    BY <2>1 DEF AcceptFirst
  <2>5. ~AcceptNoRoom(r, v)
    BY <2>1 DEF AcceptNoRoom
  <2>6. ~AcceptSpellFails(r, v)
    BY <2>2 DEF AcceptSpellFails
  <2> QED
    BY <1>5, <2>3, <2>4, <2>5, <2>6 DEF HandleAcceptTrade
<1> DEFINE Offering(r) ==
             \/ \E s \in Slots : \/ \E i \in Items : HandleSetTradeItem(r, s, i)
                                 \/ HandleClearTradeItem(r, s)
                                 \/ SetCount(r, s)
             \/ \E m \in 0..MaxMoney : HandleSetTradeGold(r, m)
             \/ SetSpell(r)
           Coming(r) ==
             \/ \E s \in Players : HandleInitiateTrade(r, s)
             \/ HandleCancelTrade(r) \/ Logout(r) \/ Login(r)
<1>6. PICK r \in Players : \E v \in Range(view[r]) : AcceptTrade(r, v)
  <2>1. ASSUME NEW r \in Players
        PROVE  ~Coming(r) /\ ~HandleUnacceptTrade(r)
    BY <1>2 DEF HandleInitiateTrade, HandleCancelTrade, Logout, Login, HandleUnacceptTrade
  <2>2. ~(\E w, x, y : Change(w, x, y))
    BY <1>2 DEF Change
  <2>3. ASSUME NEW r \in Players
        PROVE  ~Offering(r)
    BY <2>2 DEF HandleSetTradeItem, HandleClearTradeItem, SetCount, SetItem,
       HandleSetTradeGold, SetSpell
  <2>4. ASSUME NEW r \in Players PROVE ~Spend(r) /\ ~Earn(r)
    BY <1>3
  <2>5. ASSUME NEW i \in Items PROVE ~Vanish(i)
    BY <1>4
  <2>6. PICK r \in Players : \/ Coming(r) \/ HandleUnacceptTrade(r) \/ Offering(r)
                            \/ Spend(r) \/ Earn(r)
                            \/ \E v \in Range(view[r]) : HandleAcceptTrade(r, v)
    BY <2>5 DEF Next
  <2> HIDE DEF Coming, Offering
  <2> QED
    BY <1>5, <2>1, <2>3, <2>4, <2>6
<1>7. PICK t \in Players : t = trade[r].trader
  BY <1>6, AcceptTradeMoves
<1>8. Exchanged(r, t)
  BY <1>6, <1>7, AcceptTradeExchanges
<1>9. {p, q} = {r, t}
  BY <1>7, <1>8, OnlyTheTwo
<1> QED
  BY <1>8, <1>9

(* Between two players items and money change hands only in one step and as both
   agreed, whatever was changed, spent or answered late in the meantime: each item
   promised that its owner still has, and all the money (HandleAcceptTradeOpcode,
   moveItems). *)
THEOREM TradesAsAgreedCorrect == Spec => TradesAsAgreed
<1>1. IInv /\ Goods /\ [Next]_vars =>
        [\A p, q \in Players : p # q /\ PassedFrom(p, q) =>
            Exchanged(p, q) \/ Exchanged(q, p)]_vars
  BY StepAsAgreed
<1> QED
  BY <1>1, Invariance, GoodsInvariance, PTL DEF Spec, TradesAsAgreed
=============================================================================
