-------------------------- MODULE PolymarketProofs --------------------------
(***************************************************************************)
(* The polling adapter publishes no fill twice and nothing under a market  *)
(* it was not meant for, for any number of cycles and trades, any page     *)
(* size, and any trades without an id.                                     *)
(*                                                                         *)
(* The argument is that there is one market: before it is known nobody     *)
(* has asked for anything (Fresh), and once it is known it stays (Homed),  *)
(* so that whatever is under way was asked for in it (OneMarket).  The     *)
(* memory of trades is then never thrown away (Remembered).                *)
(*                                                                         *)
(* The cursor of trades passes nothing by, because a page begins where the *)
(* cursor is, is gone through to its end before the next cursor is taken,  *)
(* and that one is not beyond the page (Passed).                           *)
(***************************************************************************)
EXTENDS Polymarket, TLAPS

(* Until Start has a market, nothing has been asked for.                   *)
Fresh ==
  main = "start" =>
    /\ announced = None /\ lastMarket = None
    /\ orders = None /\ trades = None /\ place = None
    /\ ordersCursor = First /\ tradesCursor = First

(* The loops run in a market, which was announced.                         *)
Homed ==
  /\ main = "announce" => market # None
  /\ Running => market # None /\ announced = market /\ lastMarket = market

(* A cursor that is not at the beginning is one of the market's lists.     *)
Own(cursor) == cursor.pos > 0 => cursor.of = market

OneMarket ==
  /\ Own(ordersCursor) /\ Own(tradesCursor)
  /\ orders # None => orders.market = market /\ Own(orders.cursor)
  /\ trades # None => trades.market = market /\ Own(trades.next)
  /\ place # None => place.decided = market /\ place.token \in {None, market}
  /\ astray = {}

(* A trade that became a fill, and has an id, is remembered.               *)
Remembered ==
  \A t \in Trade :
    t[2] \notin Anonymous => filled[t] <= 1 /\ (filled[t] > 0 => t \in seen)

IInv == TypeOK /\ Fresh /\ Homed /\ OneMarket /\ Remembered

-----------------------------------------------------------------------------
(* A page ends within the list, and a next cursor within the page or where *)
(* the page began.                                                         *)
LEMMA PageFacts ==
  ASSUME TypeOK, NEW c \in Cursors, NEW m \in Cycles
  PROVE  /\ PageEnd(c, m) \in 0..MaxTrades
         /\ \A next \in NextCursors(c, m) :
              next \in Cursors /\ (next = c \/ next.of = m)
<1>1. c.pos \in 0..MaxTrades /\ made[m] \in 0..MaxTrades /\ PageSize \in Nat
  BY PolymarketAssumption DEF TypeOK, Cursors
<1>2. PageEnd(c, m) \in 0..MaxTrades
  BY <1>1, PolymarketAssumption DEF PageEnd, Least
<1>3. ASSUME NEW i \in c.pos..PageEnd(c, m)
      PROVE  [of |-> m, pos |-> i] \in Cursors
  BY <1>1, <1>2, <1>3, PolymarketAssumption DEF Cursors
<1> QED
  BY <1>2, <1>3 DEF NextCursors

(* Discovery leaves a market alone, or finds one where there was none.     *)
LEMMA DiscoverFacts ==
  ASSUME NEW next, NEW failed, Discover(next, failed)
  PROVE  /\ main' \in {next, failed}
         /\ market # None => main' = next /\ market' = market /\ endDate' = endDate
         /\ \/ market' = market /\ endDate' = endDate
            \/ market' \in Cycles /\ endDate' \in Cycles
         /\ market' # None \/ main' = failed
<1>1. \A m \in Found : m \in Cycles /\ m # None
  BY PolymarketAssumption DEF Found, Cycles
<1> QED
  BY <1>1 DEF Discover

(* The inductive invariant holds before Start.                             *)
LEMMA InitInv == Init => IInv
<1> SUFFICES ASSUME Init PROVE IInv
  OBVIOUS
<1> USE PolymarketAssumption DEF Init
<1>1. TypeOK
  <2>1. 0 \in Cycles /\ First \in Cursors /\ 0 \in 0..MaxTrades
    BY DEF Cycles, Cursors, First
  <2>2. made \in [Cycles -> 0..MaxTrades] /\ filled \in [Trade -> 0..2]
    BY <2>1
  <2>3. main \in {"start", "announce", "failed", "running", "discover", "reset",
                  "snapshot"}
    OBVIOUS
  <2> QED
    BY <2>1, <2>2, <2>3 DEF TypeOK
<1>2. Fresh /\ Homed
  BY DEF Fresh, Homed, Running
<1>3. OneMarket
  BY DEF OneMarket, Own, First
<1>4. Remembered
  BY DEF Remembered
<1> QED
  BY <1>1, <1>2, <1>3, <1>4 DEF IInv

-----------------------------------------------------------------------------
(* Every step keeps the types.                                             *)
LEMMA TypeStep ==
  ASSUME TypeOK, Homed, Next
  PROVE  TypeOK'
<1> USE PolymarketAssumption
<1>1. CASE StartDiscovers
  BY <1>1, DiscoverFacts DEF StartDiscovers, TypeOK, tradesVars
<1>2. CASE StartAnnounces
  BY <1>2 DEF StartAnnounces, TypeOK
<1>3. CASE Rotate
  BY <1>3 DEF Rotate, TypeOK, tradesVars
<1>4. CASE RotateDiscovers
  BY <1>4, DiscoverFacts DEF RotateDiscovers, TypeOK, tradesVars
<1>5. CASE ResetCursor
  <2>1. First \in Cursors
    BY DEF First, Cursors
  <2> QED
    BY <1>5, <2>1 DEF ResetCursor, TypeOK, tradesVars
<1>6. CASE AnnounceAgain
  BY <1>6 DEF AnnounceAgain, TypeOK, tradesVars
<1>7. CASE AskOrders
  <2>1. market \in Cycles
    BY <1>7 DEF AskOrders, TypeOK, Homed
  <2> QED
    BY <1>7, <2>1 DEF AskOrders, TypeOK, tradesVars
<1>8. CASE OrdersAnswer
  <2>1. orders.cursor \in Cursors /\ orders.market \in Cycles
    BY <1>8 DEF OrdersAnswer, TypeOK
  <2>2. ordersCursor' \in Cursors /\ orders' = None
    BY <1>8, <2>1, PageFacts DEF OrdersAnswer, TypeOK
  <2> QED
    BY <1>8, <2>2 DEF OrdersAnswer, TypeOK, tradesVars
<1>9. CASE AskTrades
  <2>1. market \in Cycles
    BY <1>9 DEF AskTrades, TypeOK, Homed
  <2>2. First \in Cursors /\ 0 \in 0..MaxTrades
    BY DEF First, Cursors
  <2>3. trades' \in [market : Cycles, at : {"asked", "answered"}, pos : 0..MaxTrades,
                     end : 0..MaxTrades, next : Cursors]
    BY <1>9, <2>1, <2>2 DEF AskTrades
  <2>4. tradesCursor' \in Cursors /\ seen' \subseteq Trade /\ lastMarket' \in Cycles \cup {None}
    BY <1>9, <2>1, <2>2 DEF AskTrades, TypeOK
  <2> QED
    BY <1>9, <2>3, <2>4 DEF AskTrades, TypeOK
<1>10. CASE TradesAnswer
  <2>1. trades.market \in Cycles /\ tradesCursor \in Cursors
    BY <1>10 DEF TradesAnswer, TypeOK
  <2>2. PICK next \in NextCursors(tradesCursor, trades.market) :
          trades' = [trades EXCEPT !.at = "answered", !.pos = tradesCursor.pos,
                       !.end = PageEnd(tradesCursor, trades.market), !.next = next]
    BY <1>10 DEF TradesAnswer
  <2>3. next \in Cursors /\ PageEnd(tradesCursor, trades.market) \in 0..MaxTrades
    BY <2>1, PageFacts
  <2>4. tradesCursor.pos \in 0..MaxTrades
    BY <2>1 DEF Cursors
  <2>5. trades' \in [market : Cycles, at : {"asked", "answered"}, pos : 0..MaxTrades,
                     end : 0..MaxTrades, next : Cursors]
    BY <1>10, <2>2, <2>3, <2>4 DEF TradesAnswer, TypeOK
  <2> QED
    BY <1>10, <2>5 DEF TradesAnswer, TypeOK
<1>11. CASE EmitFill
  <2>1. trades \in [market : Cycles, at : {"asked", "answered"}, pos : 0..MaxTrades,
                    end : 0..MaxTrades, next : Cursors]
    BY <1>11 DEF EmitFill, TypeOK
  <2>2. trades.pos + 1 \in 0..MaxTrades /\ <<trades.market, trades.pos + 1>> \in Trade
    <3>1. trades.pos \in 0..MaxTrades /\ trades.end \in 0..MaxTrades
      BY <2>1
    <3>2. trades.pos + 1 \in Numbers /\ trades.pos + 1 \in 0..MaxTrades
      BY <1>11, <3>1 DEF EmitFill, Numbers
    <3> QED
      BY <2>1, <3>2 DEF Trade
  <2>3. trades' \in [market : Cycles, at : {"asked", "answered"}, pos : 0..MaxTrades,
                     end : 0..MaxTrades, next : Cursors]
    BY <1>11, <2>1, <2>2 DEF EmitFill
  <2>4. \A k \in 0..2 : Least(k + 1, 2) \in 0..2
    BY DEF Least
  <2>5. filled' \in [Trade -> 0..2]
    BY <1>11, <2>2, <2>4 DEF EmitFill, TypeOK
  <2>6. seen' \subseteq Trade /\ astray' \subseteq {"fill", "order"}
    BY <1>11, <2>2 DEF EmitFill, TypeOK
  <2> QED
    BY <1>11, <2>3, <2>5, <2>6 DEF EmitFill, TypeOK
<1>12. CASE TradesReturn
  BY <1>12 DEF TradesReturn, TypeOK
<1>13. CASE TradesFail
  BY <1>13 DEF TradesFail, TypeOK
<1>14. CASE Decide
  <2>1. announced \in Cycles
    BY <1>14 DEF Decide, TypeOK, Homed
  <2> QED
    BY <1>14, <2>1 DEF Decide, TypeOK, tradesVars
<1>15. CASE ReadToken
  <2>1. place \in [decided : Cycles, token : Cycles \cup {None}]
    BY <1>15 DEF ReadToken, TypeOK
  <2>2. place' \in [decided : Cycles, token : Cycles \cup {None}]
    BY <1>15, <2>1 DEF ReadToken, TypeOK
  <2> QED
    BY <1>15, <2>2 DEF ReadToken, TypeOK, tradesVars
<1>16. CASE SendOrder
  <2>1. place.token \in Cycles
    BY <1>16 DEF SendOrder, TypeOK
  <2>2. made' \in [Cycles -> 0..MaxTrades]
    BY <1>16, <2>1 DEF SendOrder, TypeOK
  <2>3. astray' \subseteq {"fill", "order"}
    BY <1>16 DEF SendOrder, TypeOK
  <2> QED
    BY <1>16, <2>2, <2>3 DEF SendOrder, TypeOK, tradesVars
<1>17. CASE NextCycle
  <2>1. clock' \in Cycles
    BY <1>17 DEF NextCycle, TypeOK, Cycles
  <2> QED
    BY <1>17, <2>1 DEF NextCycle, TypeOK, tradesVars
<1> QED
  BY <1>1, <1>2, <1>3, <1>4, <1>5, <1>6, <1>7, <1>8, <1>9, <1>10, <1>11, <1>12,
     <1>13, <1>14, <1>15, <1>16, <1>17 DEF Next, MainLoop, TradesLoop

(* Every step keeps Start before the loops, and the loops in their market. *)
LEMMA StartStep ==
  ASSUME TypeOK, Fresh, Homed, Next
  PROVE  Fresh' /\ Homed'
<1> USE DEF Fresh, Homed, Running
<1>1. CASE StartDiscovers
  BY <1>1, DiscoverFacts DEF StartDiscovers, tradesVars
<1>2. CASE StartAnnounces
  BY <1>2 DEF StartAnnounces
<1>3. CASE Rotate
  BY <1>3 DEF Rotate, tradesVars
<1>4. CASE RotateDiscovers
  BY <1>4, DiscoverFacts DEF RotateDiscovers, tradesVars
<1>5. CASE ResetCursor
  BY <1>5 DEF ResetCursor, tradesVars
<1>6. CASE AnnounceAgain
  BY <1>6 DEF AnnounceAgain, tradesVars
<1>7. CASE AskOrders \/ OrdersAnswer
  BY <1>7 DEF AskOrders, OrdersAnswer, tradesVars
<1>8. CASE AskTrades
  BY <1>8 DEF AskTrades
<1>9. CASE TradesAnswer \/ EmitFill \/ TradesReturn \/ TradesFail
  BY <1>9 DEF TradesAnswer, EmitFill, TradesReturn, TradesFail
<1>10. CASE Decide \/ ReadToken \/ SendOrder \/ NextCycle
  BY <1>10 DEF Decide, ReadToken, SendOrder, NextCycle, tradesVars
<1> QED
  BY <1>1, <1>2, <1>3, <1>4, <1>5, <1>6, <1>7, <1>8, <1>9, <1>10
  DEF Next, MainLoop, TradesLoop

(* The market never changes once there is one: while Start looks for it    *)
(* nothing is under way, and the loop that rotates finds it set.           *)
LEMMA MarketStep ==
  ASSUME TypeOK, Homed, Next
  PROVE  market # None => market' = market
<1>1. CASE StartDiscovers \/ RotateDiscovers
  BY <1>1, DiscoverFacts DEF StartDiscovers, RotateDiscovers
<1>2. CASE StartAnnounces \/ Rotate \/ ResetCursor \/ AnnounceAgain
  BY <1>2 DEF StartAnnounces, Rotate, ResetCursor, AnnounceAgain
<1>3. CASE AskOrders \/ OrdersAnswer \/ AskTrades \/ TradesAnswer \/ EmitFill
           \/ TradesReturn \/ TradesFail
  BY <1>3 DEF AskOrders, OrdersAnswer, AskTrades, TradesAnswer, EmitFill, TradesReturn,
     TradesFail
<1>4. CASE Decide \/ ReadToken \/ SendOrder \/ NextCycle
  BY <1>4 DEF Decide, ReadToken, SendOrder, NextCycle
<1> QED
  BY <1>1, <1>2, <1>3, <1>4 DEF Next, MainLoop, TradesLoop

(* What is under way stays in the market, and nothing goes astray.         *)
LEMMA OneMarketStep ==
  ASSUME TypeOK, Fresh, Homed, OneMarket, Next
  PROVE  OneMarket'
<1>m. market # None => market' = market
  BY MarketStep
<1>1. CASE StartDiscovers
  BY <1>1 DEF StartDiscovers, Fresh, OneMarket, Own, First, tradesVars
<1>2. CASE RotateDiscovers
  <2>1. market' = market
    BY <1>2, <1>m DEF RotateDiscovers, Homed, Running
  <2> QED
    BY <1>2, <2>1 DEF RotateDiscovers, OneMarket, Own, tradesVars
<1>3. CASE StartAnnounces
  BY <1>3 DEF StartAnnounces, OneMarket, Own
<1>4. CASE Rotate \/ AnnounceAgain \/ NextCycle
  BY <1>4 DEF Rotate, AnnounceAgain, NextCycle, OneMarket, Own, tradesVars
<1>5. CASE ResetCursor
  BY <1>5 DEF ResetCursor, OneMarket, Own, First, tradesVars
<1>6. CASE AskOrders
  BY <1>6 DEF AskOrders, OneMarket, Own, tradesVars
<1>7. CASE OrdersAnswer
  <2>1. orders.cursor \in Cursors /\ orders.market \in Cycles
    BY <1>7 DEF OrdersAnswer, TypeOK
  <2>2. orders.market = market /\ Own(orders.cursor)
    BY <1>7 DEF OrdersAnswer, OneMarket
  <2>3. ordersCursor' = ordersCursor \/ ordersCursor' = orders.cursor
        \/ ordersCursor'.of = market
    BY <1>7, <2>1, <2>2, PageFacts DEF OrdersAnswer
  <2>4. ordersCursor'.pos > 0 => ordersCursor'.of = market
    BY <2>2, <2>3 DEF OneMarket, Own
  <2> QED
    BY <1>7, <2>4 DEF OrdersAnswer, OneMarket, Own, tradesVars
<1>8. CASE AskTrades
  <2>1. First.pos = 0
    BY DEF First
  <2>2. (tradesCursor' = First \/ tradesCursor' = tradesCursor) /\ market' = market
    BY <1>8 DEF AskTrades
  <2>3. tradesCursor'.pos > 0 => tradesCursor'.of = market
    BY <2>1, <2>2 DEF OneMarket, Own
  <2>4. trades'.market = market /\ trades'.next = First
    BY <1>8 DEF AskTrades
  <2> QED
    BY <1>8, <2>1, <2>3, <2>4 DEF AskTrades, OneMarket, Own
<1>9. CASE TradesAnswer
  <2>1. trades.market \in Cycles /\ tradesCursor \in Cursors
    BY <1>9 DEF TradesAnswer, TypeOK
  <2>2. PICK next \in NextCursors(tradesCursor, trades.market) :
          trades' = [trades EXCEPT !.at = "answered", !.pos = tradesCursor.pos,
                       !.end = PageEnd(tradesCursor, trades.market), !.next = next]
    BY <1>9 DEF TradesAnswer
  <2>3. trades'.market = market /\ trades'.next = next
    BY <1>9, <2>2 DEF TradesAnswer, OneMarket, TypeOK
  <2>4. next = tradesCursor \/ next.of = market
    BY <1>9, <2>1, PageFacts DEF TradesAnswer, OneMarket
  <2>5. next.pos > 0 => next.of = market
    BY <2>4 DEF OneMarket, Own
  <2> QED
    BY <1>9, <2>3, <2>5 DEF TradesAnswer, OneMarket, Own
<1>10. CASE EmitFill
  <2>1. trades'.market = trades.market /\ trades'.next = trades.next
    BY <1>10 DEF EmitFill, TypeOK
  <2>2. astray' = {}
    BY <1>10 DEF EmitFill, OneMarket
  <2> QED
    BY <1>10, <2>1, <2>2 DEF EmitFill, OneMarket, Own
<1>11. CASE TradesReturn
  BY <1>11 DEF TradesReturn, OneMarket, Own
<1>12. CASE TradesFail
  BY <1>12 DEF TradesFail, OneMarket, Own
<1>13. CASE Decide
  <2>1. announced = market
    BY <1>13 DEF Decide, Homed
  <2> QED
    BY <1>13, <2>1 DEF Decide, OneMarket, Own, tradesVars
<1>14. CASE ReadToken
  <2>1. place \in [decided : Cycles, token : Cycles \cup {None}]
    BY <1>14 DEF ReadToken, TypeOK
  <2>2. place'.decided = market /\ place'.token = market
    BY <1>14, <2>1 DEF ReadToken, OneMarket
  <2> QED
    BY <1>14, <2>2 DEF ReadToken, OneMarket, Own, tradesVars
<1>15. CASE SendOrder
  <2>1. place.token = place.decided
    BY <1>15 DEF SendOrder, OneMarket
  <2> QED
    BY <1>15, <2>1 DEF SendOrder, OneMarket, Own, tradesVars
<1> QED
  BY <1>1, <1>2, <1>3, <1>4, <1>5, <1>6, <1>7, <1>8, <1>9, <1>10, <1>11, <1>12,
     <1>13, <1>14, <1>15 DEF Next, MainLoop, TradesLoop

(* A fill is remembered as long as its market lasts, which is for ever.    *)
LEMMA RememberedStep ==
  ASSUME TypeOK, Homed, Remembered, Next
  PROVE  Remembered'
<1>1. CASE EmitFill
  <2> DEFINE t == <<trades.market, trades.pos + 1>>
  <2>1. t \in Trade
    <3>1. trades.market \in Cycles /\ trades.pos \in 0..MaxTrades
          /\ trades.end \in 0..MaxTrades
      BY <1>1 DEF EmitFill, TypeOK
    <3>2. trades.pos + 1 \in Numbers
      BY <1>1, <3>1, PolymarketAssumption DEF EmitFill, Numbers
    <3> QED
      BY <3>1, <3>2 DEF Trade
  <2>2. filled \in [Trade -> 0..2] /\ t[2] = trades.pos + 1
    BY DEF TypeOK
  <2>3. CASE trades.pos + 1 \notin Anonymous /\ t \in seen
    BY <1>1, <2>3 DEF EmitFill, Remembered
  <2>4. CASE trades.pos + 1 \in Anonymous
    <3>1. seen' = seen /\ filled' = [filled EXCEPT ![t] = Least(@ + 1, 2)]
      BY <1>1, <2>4 DEF EmitFill
    <3>2. \A u \in Trade : u[2] \notin Anonymous => filled'[u] = filled[u]
      BY <2>1, <2>2, <2>4, <3>1
    <3> QED
      BY <3>1, <3>2 DEF Remembered
  <2>5. CASE trades.pos + 1 \notin Anonymous /\ t \notin seen
    <3>1. seen' = seen \cup {t} /\ filled' = [filled EXCEPT ![t] = Least(@ + 1, 2)]
      BY <1>1, <2>5 DEF EmitFill
    <3>2. filled[t] = 0
      BY <2>1, <2>2, <2>5 DEF Remembered
    <3>3. filled'[t] = 1
      BY <2>1, <2>2, <3>1, <3>2 DEF Least
    <3>4. \A u \in Trade : u # t => filled'[u] = filled[u]
      BY <2>1, <2>2, <3>1
    <3> QED
      BY <3>1, <3>3, <3>4 DEF Remembered
  <2> QED
    BY <2>3, <2>4, <2>5
<1>2. CASE AskTrades
  <2>1. seen' = seen /\ filled' = filled
    BY <1>2 DEF AskTrades, Homed
  <2> QED
    BY <2>1 DEF Remembered
<1>3. CASE MainLoop
  BY <1>3 DEF MainLoop, StartDiscovers, StartAnnounces, Rotate, RotateDiscovers,
     ResetCursor, AnnounceAgain, Remembered, tradesVars
<1>4. CASE AskOrders \/ OrdersAnswer \/ TradesAnswer \/ TradesReturn \/ TradesFail
  BY <1>4 DEF AskOrders, OrdersAnswer, TradesAnswer, TradesReturn, TradesFail,
     Remembered, tradesVars
<1>5. CASE Decide \/ ReadToken \/ SendOrder \/ NextCycle
  BY <1>5 DEF Decide, ReadToken, SendOrder, NextCycle, Remembered, tradesVars
<1> QED
  BY <1>1, <1>2, <1>3, <1>4, <1>5 DEF Next, TradesLoop

(* Every step keeps the inductive invariant.                               *)
LEMMA StepInv == IInv /\ [Next]_vars => IInv'
<1> SUFFICES ASSUME IInv, [Next]_vars PROVE IInv'
  OBVIOUS
<1>1. CASE Next
  <2>1. TypeOK'
    BY <1>1, TypeStep DEF IInv
  <2>2. Fresh' /\ Homed'
    BY <1>1, StartStep DEF IInv
  <2>3. OneMarket'
    BY <1>1, OneMarketStep DEF IInv
  <2>4. Remembered'
    BY <1>1, RememberedStep DEF IInv
  <2> QED
    BY <2>1, <2>2, <2>3, <2>4 DEF IInv
<1>2. CASE UNCHANGED vars
  <2>1. TypeOK'
    BY <1>2 DEF IInv, TypeOK, vars, tradesVars
  <2>2. Fresh' /\ Homed'
    BY <1>2 DEF IInv, Fresh, Homed, Running, vars, tradesVars
  <2>3. OneMarket'
    BY <1>2 DEF IInv, OneMarket, Own, vars, tradesVars
  <2>4. Remembered'
    BY <1>2 DEF IInv, Remembered, vars, tradesVars
  <2> QED
    BY <2>1, <2>2, <2>3, <2>4 DEF IInv
<1> QED
  BY <1>1, <1>2

-----------------------------------------------------------------------------
(* The trades of market m up to the one numbered n were published.         *)
Published(m, n) == \A k \in 1..n : filled[<<m, k>>] > 0

(* What the next cursor will have passed has been published, or is on the  *)
(* page that is being gone through, or was passed by the cursor before.    *)
Passed ==
  /\ main \in {"start", "announce"} => trades = None /\ tradesCursor = First
  /\ \A t \in seen : filled[t] > 0
  /\ Published(lastMarket, tradesCursor.pos)
  /\ trades # None =>
       /\ trades.market = lastMarket
       /\ trades.at = "answered" =>
            /\ Published(lastMarket, trades.pos)
            /\ tradesCursor.pos <= trades.pos
            /\ trades.next.pos <= trades.end \/ trades.next.pos <= tradesCursor.pos

(* A page's next cursor stays where it was or does not leave the page.     *)
LEMMA PageReach ==
  ASSUME TypeOK, NEW c \in Cursors, NEW m \in Cycles, NEW next \in NextCursors(c, m)
  PROVE  next.pos <= PageEnd(c, m) \/ next.pos <= c.pos
<1>1. c.pos \in Int /\ PageEnd(c, m) \in Int
  BY PageFacts DEF Cursors
<1>2. CASE next = c
  BY <1>1, <1>2
<1>3. ASSUME NEW i \in c.pos..PageEnd(c, m), next = [of |-> m, pos |-> i]
      PROVE  next.pos <= PageEnd(c, m)
  BY <1>1, <1>3
<1> QED
  BY <1>2, <1>3 DEF NextCursors

(* What was published up to a number was published up to a lower one, and  *)
(* the fills of a step that takes none back stay.                          *)
LEMMA PublishedMore ==
  ASSUME NEW m, NEW n \in 0..MaxTrades, NEW k \in Int, k <= n, MaxTrades \in Nat,
         Published(m, n)
  PROVE  Published(m, k)
BY DEF Published

(* Nothing but the loop of trades touches what Passed is about.            *)
LEMMA PassedElsewhere ==
  ASSUME Passed, UNCHANGED <<seen, filled, lastMarket, trades, tradesCursor>>,
         main' \in {"start", "announce"} => main \in {"start", "announce"}
  PROVE  Passed'
BY DEF Passed, Published

(* The item taken from a page is published, now or before.                 *)
LEMMA PassedEmit ==
  ASSUME TypeOK, Passed, EmitFill
  PROVE  Passed'
<1> DEFINE n == trades.pos + 1
           t == <<trades.market, n>>
<1>1. trades \in [market : Cycles, at : {"asked", "answered"}, pos : 0..MaxTrades,
                  end : 0..MaxTrades, next : Cursors]
  BY DEF EmitFill, TypeOK
<1>2. /\ trades.pos \in 0..MaxTrades /\ trades.end \in 0..MaxTrades
      /\ trades.market \in Cycles /\ MaxTrades \in Nat
      /\ tradesCursor.pos \in 0..MaxTrades /\ trades.next.pos \in 0..MaxTrades
  BY <1>1, PolymarketAssumption DEF TypeOK, Cursors
<1>3. n \in Numbers /\ t \in Trade
  BY <1>2 DEF EmitFill, Numbers, Trade
<1>4. filled \in [Trade -> 0..2]
  BY DEF TypeOK
<1>5. /\ trades' = [trades EXCEPT !.pos = n]
      /\ UNCHANGED <<main, lastMarket, tradesCursor>>
      /\ trades # None /\ trades.at = "answered"
  BY DEF EmitFill
<1>6. /\ filled'[t] > 0 /\ \A u \in seen' : filled'[u] > 0
      /\ \A u \in Trade : filled[u] > 0 => filled'[u] > 0
  <2>1. CASE n \notin Anonymous /\ t \in seen
    BY <1>3, <2>1 DEF EmitFill, Passed
  <2>2. CASE ~(n \notin Anonymous /\ t \in seen)
    <3>1. filled' = [filled EXCEPT ![t] = Least(@ + 1, 2)]
      BY <2>2 DEF EmitFill
    <3>2. seen' \subseteq seen \cup {t}
      BY <2>2 DEF EmitFill
    <3>3. filled[t] \in 0..2 /\ filled'[t] = Least(filled[t] + 1, 2)
      BY <1>3, <1>4, <3>1
    <3>4. filled'[t] > 0
      BY <3>3 DEF Least
    <3>5. \A u \in Trade : u # t => filled'[u] = filled[u]
      BY <1>4, <3>1
    <3>6. seen \subseteq Trade
      BY DEF TypeOK
    <3> QED
      BY <3>2, <3>4, <3>5, <3>6 DEF Passed
  <2> QED
    BY <2>1, <2>2
<1>7. \A k \in 1..MaxTrades : <<lastMarket, k>> \in Trade
  <2>1. trades.market = lastMarket
    BY <1>5 DEF Passed
  <2> QED
    BY <1>2, <2>1 DEF Trade, Numbers
<1>8. ASSUME NEW i \in 0..MaxTrades, Published(lastMarket, i)
      PROVE  Published(lastMarket, i)'
  <2>1. \A k \in 1..i : k \in 1..MaxTrades /\ filled[<<lastMarket, k>>] > 0
    BY <1>2, <1>8 DEF Published
  <2>2. \A k \in 1..i : filled'[<<lastMarket, k>>] > 0
    BY <1>6, <1>7, <2>1
  <2> QED
    BY <1>5, <2>2 DEF Published
<1>9. Published(lastMarket, tradesCursor.pos)'
  BY <1>2, <1>5, <1>8 DEF Passed
<1>10. Published(lastMarket, trades.pos)'
  <2>1. trades.market = lastMarket /\ Published(lastMarket, trades.pos)
    BY <1>5 DEF Passed
  <2>2. \A k \in 1..trades.pos : filled'[<<lastMarket, k>>] > 0
    BY <1>2, <1>5, <1>8, <2>1 DEF Published
  <2>3. \A k \in 1..n : k \in 1..trades.pos \/ k = n
    BY <1>2
  <2>4. \A k \in 1..n : filled'[<<lastMarket, k>>] > 0
    BY <1>6, <2>1, <2>2, <2>3
  <2>5. trades'.pos = n
    BY <1>1, <1>5
  <2> QED
    BY <1>5, <2>4, <2>5 DEF Published
<1>11. /\ trades'.market = trades.market /\ trades'.pos = trades.pos + 1
       /\ trades'.end = trades.end /\ trades'.next = trades.next
  BY <1>1, <1>5
<1>12. tradesCursor.pos <= trades.pos + 1
  BY <1>2, <1>5 DEF Passed
<1> QED
  BY <1>5, <1>6, <1>9, <1>10, <1>11, <1>12 DEF Passed

(* Every step keeps it.                                                    *)
LEMMA PassedStep ==
  ASSUME TypeOK, Homed, Passed, Next
  PROVE  Passed'
<1> USE PolymarketAssumption
<1>1. CASE MainLoop
  <2>1. UNCHANGED <<seen, filled, trades, tradesCursor>>
    BY <1>1 DEF MainLoop, StartDiscovers, StartAnnounces, Rotate, RotateDiscovers,
       ResetCursor, AnnounceAgain, tradesVars
  <2>2. main' \in {"start", "announce"} => main \in {"start", "announce"}
    <3>1. CASE StartDiscovers
      BY <3>1 DEF StartDiscovers
    <3>2. CASE RotateDiscovers
      BY <3>2, DiscoverFacts DEF RotateDiscovers
    <3>3. CASE StartAnnounces \/ Rotate \/ ResetCursor \/ AnnounceAgain
      BY <3>3 DEF StartAnnounces, Rotate, ResetCursor, AnnounceAgain
    <3> QED
      BY <1>1, <3>1, <3>2, <3>3 DEF MainLoop
  <2>3. CASE StartAnnounces
    <3>1. trades = None /\ tradesCursor = First /\ main' \notin {"start", "announce"}
      BY <2>3 DEF StartAnnounces, Passed
    <3>2. \A k \in 1..tradesCursor.pos : FALSE
      BY <3>1 DEF First
    <3> QED
      BY <2>1, <3>1, <3>2 DEF Passed, Published
  <2>4. CASE ~StartAnnounces
    <3>1. UNCHANGED lastMarket
      BY <1>1, <2>4 DEF MainLoop, StartDiscovers, Rotate, RotateDiscovers,
         ResetCursor, AnnounceAgain, tradesVars
    <3> QED
      BY <2>1, <2>2, <3>1, PassedElsewhere
  <2> QED
    BY <2>3, <2>4
<1>2. CASE AskOrders \/ OrdersAnswer \/ Decide \/ ReadToken \/ SendOrder \/ NextCycle
  <2>1. UNCHANGED <<seen, filled, lastMarket, trades, tradesCursor, main>>
    BY <1>2 DEF AskOrders, OrdersAnswer, Decide, ReadToken, SendOrder, NextCycle,
       tradesVars
  <2> QED
    BY <2>1, PassedElsewhere
<1>3. CASE AskTrades
  <2>1. /\ market = lastMarket
        /\ UNCHANGED <<seen, filled, lastMarket, tradesCursor, main>>
    BY <1>3 DEF AskTrades, Homed
  <2>2. trades'.market = lastMarket /\ trades'.at = "asked"
        /\ main \notin {"start", "announce"}
    BY <1>3, <2>1 DEF AskTrades, Running
  <2> QED
    BY <2>1, <2>2 DEF Passed, Published
<1>4. CASE TradesAnswer
  <2>1. trades.market \in Cycles /\ tradesCursor \in Cursors
    BY <1>4 DEF TradesAnswer, TypeOK
  <2>2. PICK next \in NextCursors(tradesCursor, trades.market) :
          trades' = [trades EXCEPT !.at = "answered", !.pos = tradesCursor.pos,
                       !.end = PageEnd(tradesCursor, trades.market), !.next = next]
    BY <1>4 DEF TradesAnswer
  <2>3. next.pos <= PageEnd(tradesCursor, trades.market) \/ next.pos <= tradesCursor.pos
    BY <2>1, PageReach
  <2>4. trades \in [market : Cycles, at : {"asked", "answered"}, pos : 0..MaxTrades,
                    end : 0..MaxTrades, next : Cursors]
    BY <1>4 DEF TradesAnswer, TypeOK
  <2>5. /\ trades'.market = trades.market /\ trades'.pos = tradesCursor.pos
        /\ trades'.next = next
        /\ trades'.end = PageEnd(tradesCursor, trades.market)
    BY <2>2, <2>4
  <2>6. UNCHANGED <<seen, filled, lastMarket, tradesCursor, main>>
        /\ trades # None
    BY <1>4 DEF TradesAnswer
  <2>7. tradesCursor.pos \in Int
    BY <2>1 DEF Cursors
  <2>8. tradesCursor.pos <= tradesCursor.pos
    BY <2>7
  <2> QED
    BY <2>3, <2>5, <2>6, <2>8 DEF Passed, Published
<1>5. CASE EmitFill
  BY <1>5, PassedEmit
<1>6. CASE TradesFail
  BY <1>6 DEF TradesFail, Passed, Published
<1>7. CASE TradesReturn
  <2>1. trades \in [market : Cycles, at : {"asked", "answered"}, pos : 0..MaxTrades,
                    end : 0..MaxTrades, next : Cursors]
    BY <1>7 DEF TradesReturn, TypeOK
  <2>2. /\ trades.pos \in 0..MaxTrades /\ trades.end \in Int
        /\ tradesCursor.pos \in Int /\ trades.next.pos \in Int
    BY <2>1 DEF TypeOK, Cursors
  <2>3. trades # None /\ trades.at = "answered" /\ trades.pos >= trades.end
    BY <1>7 DEF TradesReturn
  <2>4. /\ Published(lastMarket, trades.pos)
        /\ tradesCursor.pos <= trades.pos
        /\ trades.next.pos <= trades.end \/ trades.next.pos <= tradesCursor.pos
    BY <2>3 DEF Passed
  <2>5. trades.next.pos <= trades.pos
    BY <2>2, <2>3, <2>4
  <2>6. Published(lastMarket, trades.next.pos)
    BY <2>2, <2>4, <2>5, PublishedMore
  <2>7. trades' = None /\ tradesCursor' = trades.next
        /\ UNCHANGED <<seen, filled, lastMarket, main>>
    BY <1>7 DEF TradesReturn
  <2> QED
    BY <2>3, <2>6, <2>7 DEF Passed, Published
<1> QED
  BY <1>1, <1>2, <1>3, <1>4, <1>5, <1>6, <1>7 DEF Next, TradesLoop

-----------------------------------------------------------------------------
(* The inductive invariant holds in every reachable state.                 *)
THEOREM Invariance == Spec => []IInv
<1> QED
  BY InitInv, StepInv, PTL DEF Spec

(* The adapter's state has its type (polymarket.go, polymarket_trades.go). *)
THEOREM TypeCorrect == Spec => []TypeOK
<1>1. IInv => TypeOK
  BY DEF IInv
<1> QED
  BY <1>1, Invariance, PTL

(* No trade that has an id becomes a fill twice                            *)
(* (polymarket_trades.go:151-157).                                         *)
THEOREM NoneFilledTwice == Spec => []NoFillTwice
<1>1. IInv => NoFillTwice
  BY DEF IInv, Remembered, NoFillTwice
<1> QED
  BY <1>1, Invariance, PTL

(* What the cursor of trades has passed was published, in every state.     *)
THEOREM Progress == Spec => [](IInv /\ Passed)
<1>1. Init => Passed
  <2> SUFFICES ASSUME Init PROVE Passed
    OBVIOUS
  <2>1. \A k \in 1..tradesCursor.pos : FALSE
    BY DEF Init, First
  <2> QED
    BY <2>1 DEF Init, Passed, Published
<1>2. IInv /\ Passed /\ [Next]_vars => Passed'
  <2> SUFFICES ASSUME IInv, Passed, [Next]_vars PROVE Passed'
    OBVIOUS
  <2>1. CASE Next
    BY <2>1, PassedStep DEF IInv
  <2>2. CASE UNCHANGED vars
    BY <2>2 DEF vars, tradesVars, Passed, Published
  <2> QED
    BY <2>1, <2>2
<1> QED
  BY <1>1, <1>2, InitInv, StepInv, PTL DEF Spec

(* No trade is lost to the polls that fail or to the cursor, for any size  *)
(* of page and any number of trades (polymarket_trades.go:57-81).          *)
THEOREM NoTradeLost == Spec => []NothingSkipped
<1>1. Passed => NothingSkipped
  BY DEF Passed, Published, NothingSkipped
<1> QED
  BY <1>1, Progress, PTL

(* Fills are published in the market the polls of trades are of            *)
(* (polymarket_trades.go:139-180), and orders are sent in the market they  *)
(* were decided in, although the token is read when they are sent          *)
(* (polymarket_trading.go:115-123).                                        *)
THEOREM NoneAstray == Spec => []NothingAstray
<1>1. IInv => NothingAstray
  BY DEF IInv, OneMarket, NothingAstray
<1> QED
  BY <1>1, Invariance, PTL

(* The cursor of orders is one of the adapter's market                     *)
(* (polymarket.go:242, polymarket_orders.go:147-149).                      *)
THEOREM CursorStays == Spec => []CursorOfMarket
<1>1. IInv => CursorOfMarket
  BY DEF IInv, OneMarket, Own, CursorOfMarket
<1> QED
  BY <1>1, Invariance, PTL

(* The adapter never leaves the market it has found (polymarket.go:382).   *)
THEOREM NeverRotates == Spec => StaysInItsMarket
<1>1. IInv /\ [Next]_vars => [market # None => market' = market]_vars
  BY MarketStep DEF IInv
<1> QED
  BY <1>1, Invariance, PTL DEF Spec, StaysInItsMarket
=============================================================================
