----------------------------- MODULE Polymarket -----------------------------
(***************************************************************************)
(* The polling adapter of internal/market/polymarket*.go: Start, the loop  *)
(* that polls the book and rotates, the two loops that poll orders and     *)
(* trades, and the goroutines in which the OMS calls PlaceOrder.           *)
(*                                                                         *)
(* They share the fields of one struct without a lock: the market with its *)
(* tokens, slug and end date, and the cursor into the list of orders.  An  *)
(* HTTP call is a request and its answer, between which the others run.    *)
(*                                                                         *)
(* The market of a 15-minute cycle goes by the number of the cycle.  Of    *)
(* the venue we assume that a list of trades or orders only grows, that a  *)
(* page starts where its cursor says, and that the next cursor is not      *)
(* beyond what the page held; it may be short of it, so that pages         *)
(* overlap, or empty.                                                      *)
(***************************************************************************)
EXTENDS Integers

CONSTANTS
  LastCycle,  \* the clock stops at this cycle (bound)
  MaxTrades,  \* trades made in one market (bound)
  PageSize,   \* items the venue puts on a page
  Anonymous,  \* the numbers of the trades that are listed without an id
  None

Cycles == 0..LastCycle
Numbers == 1..MaxTrades

ASSUME PolymarketAssumption ==
  /\ LastCycle \in Nat /\ MaxTrades \in Nat /\ PageSize \in Nat \ {0}
  /\ Anonymous \subseteq Numbers
  /\ None \notin Int

VARIABLES
  clock,        \* the cycle the world is in
  market,       \* marketID, yesTokenID, noTokenID and marketSlug
  endDate,      \* the cycle at whose end the market expires, or None (zero)
  main,         \* where Start, and then pollLoop, has got to
  announced,    \* the market of the last snapshot published
  ordersCursor, \* p.ordersCursor: a place in the list of orders of a market
  orders,       \* pollOrdersLoop: its request under way, or None
  tradesCursor, seen, lastMarket, \* the variables of pollTradesLoop
  trades,       \* pollTradesLoop: its request or what is left of its answer
  place,        \* PlaceOrder: the call under way, or None
  made,         \* venue: how many trades were made in each market
  filled,       \* how often each trade was published as a fill, up to 2
  astray        \* what was published, or sent, under another market

tradesVars == <<tradesCursor, seen, lastMarket, trades>>
vars == <<clock, market, endDate, main, announced, ordersCursor, orders,
          tradesCursor, seen, lastMarket, trades, place, made, filled, astray>>

-----------------------------------------------------------------------------
Trade == Cycles \X Numbers

(* A cursor; "MA==" is the first place of every list.                      *)
Cursors == [of : Cycles \cup {None}, pos : 0..MaxTrades]
First == [of |-> None, pos |-> 0]

(* The cursors the venue may answer with a page that starts at c.          *)
Least(a, b) == IF a < b THEN a ELSE b
PageEnd(c, m) == Least(c.pos + PageSize, made[m])
NextCursors(c, m) ==
  {c} \cup {[of |-> m, pos |-> i] : i \in c.pos..PageEnd(c, m)}

-----------------------------------------------------------------------------
Found == {m \in {clock, clock + 1} : m \in Cycles}

(* Mutant: discover looks for the current market whatever it has.          *)
DiscoverAnew(next, failed) ==
  \/ \E m \in Found : market' = m /\ endDate' = m /\ main' = next
  \/ UNCHANGED <<market, endDate>> /\ main' = failed

(* discover: nothing to do when the ids are there; else the market of this *)
(* cycle or of the next, all fields at once, or an error and none.         *)
Discover(next, failed) ==
  IF market # None
  THEN main' = next /\ UNCHANGED <<market, endDate>>
  ELSE \/ \E m \in Found : market' = m /\ endDate' = m /\ main' = next
       \/ UNCHANGED <<market, endDate>> /\ main' = failed

(* Start: discovery unless everything is configured, which an end date     *)
(* never is; the snapshot; the credentials; and then the loops.            *)
StartDiscovers ==
  /\ main = "start"
  /\ Discover("announce", "failed")
  /\ UNCHANGED <<clock, announced, ordersCursor, orders, tradesVars, place, made,
                 filled, astray>>

StartAnnounces ==
  /\ main = "announce"
  /\ announced' = market
  /\ main' \in {"running", "failed"}
  /\ lastMarket' = market
  /\ UNCHANGED <<clock, market, endDate, ordersCursor, orders, tradesCursor, seen,
                 trades, place, made, filled, astray>>

-----------------------------------------------------------------------------
(* pollLoop: a market past its end date is announced again after discovery *)
(* and a reset of the orders' cursor.  Every round ends with the book, and *)
(* a tick whose price and quality are left to the engine's model.          *)
Expired == endDate # None /\ clock > endDate

Rotate ==
  /\ main = "running"
  /\ Expired
  /\ main' = "discover"
  /\ UNCHANGED <<clock, market, endDate, announced, ordersCursor, orders,
                 tradesVars, place, made, filled, astray>>

RotateDiscovers ==
  /\ main = "discover"
  /\ Discover("reset", "running")
  /\ UNCHANGED <<clock, announced, ordersCursor, orders, tradesVars, place, made,
                 filled, astray>>

(* Mutant of ResetCursor: no cursor at all in place of the first one.      *)
ResetCursorEmpty ==
  /\ main = "reset"
  /\ ordersCursor' = None
  /\ main' = "snapshot"
  /\ UNCHANGED <<clock, market, endDate, announced, orders, tradesVars, place,
                 made, filled, astray>>

ResetCursor ==
  /\ main = "reset"
  /\ ordersCursor' = First
  /\ main' = "snapshot"
  /\ UNCHANGED <<clock, market, endDate, announced, orders, tradesVars, place,
                 made, filled, astray>>

AnnounceAgain ==
  /\ main = "snapshot"
  /\ announced' = market
  /\ main' = "running"
  /\ UNCHANGED <<clock, market, endDate, ordersCursor, orders, tradesVars, place,
                 made, filled, astray>>

-----------------------------------------------------------------------------
Running == main \notin {"start", "announce", "failed"}

(* pollOrdersLoop: the answer's cursor is stored whatever has become of    *)
(* p.ordersCursor since the request; an error leaves it alone.             *)
AskOrders ==
  /\ Running
  /\ orders = None
  /\ orders' = [market |-> market, cursor |-> ordersCursor]
  /\ UNCHANGED <<clock, market, endDate, main, announced, ordersCursor, tradesVars,
                 place, made, filled, astray>>

OrdersAnswer ==
  /\ orders # None
  /\ orders' = None
  /\ \/ \E next \in NextCursors(orders.cursor, orders.market) : ordersCursor' = next
     \/ UNCHANGED ordersCursor
  /\ UNCHANGED <<clock, market, endDate, main, announced, tradesVars, place, made,
                 filled, astray>>

-----------------------------------------------------------------------------
(* Mutant of AskTrades: what was seen is forgotten with every poll.        *)
AskTradesForgetful ==
  /\ Running
  /\ trades = None
  /\ seen' = {}
  /\ lastMarket' = market
  /\ tradesCursor' = IF market = lastMarket THEN tradesCursor ELSE First
  /\ trades' = [market |-> market, at |-> "asked", pos |-> 0, end |-> 0, next |-> First]
  /\ UNCHANGED <<clock, market, endDate, main, announced, ordersCursor, orders,
                 place, made, filled, astray>>

(* pollTradesLoop: cursor and memory start again with a new market.        *)
AskTrades ==
  /\ Running
  /\ trades = None
  /\ IF market = lastMarket
     THEN UNCHANGED <<tradesCursor, seen, lastMarket>>
     ELSE tradesCursor' = First /\ seen' = {} /\ lastMarket' = market
  /\ trades' = [market |-> market, at |-> "asked", pos |-> 0, end |-> 0, next |-> First]
  /\ UNCHANGED <<clock, market, endDate, main, announced, ordersCursor, orders,
                 place, made, filled, astray>>

TradesAnswer ==
  /\ trades # None /\ trades.at = "asked"
  /\ \E next \in NextCursors(tradesCursor, trades.market) :
       trades' = [trades EXCEPT !.at = "answered", !.pos = tradesCursor.pos,
                    !.end = PageEnd(tradesCursor, trades.market), !.next = next]
  /\ UNCHANGED <<clock, market, endDate, main, announced, ordersCursor, orders,
                 tradesCursor, seen, lastMarket, place, made, filled, astray>>

(* Mutant of TradesFail: the page that failed is left behind.              *)
TradesFailAndSkip ==
  /\ trades # None /\ trades.at = "asked"
  /\ trades' = None
  /\ tradesCursor' = [of |-> trades.market, pos |-> PageEnd(tradesCursor, trades.market)]
  /\ UNCHANGED <<clock, market, endDate, main, announced, ordersCursor, orders,
                 seen, lastMarket, place, made, filled, astray>>

TradesFail ==
  /\ trades # None /\ trades.at = "asked"
  /\ trades' = None
  /\ UNCHANGED <<clock, market, endDate, main, announced, ordersCursor, orders,
                 tradesCursor, seen, lastMarket, place, made, filled, astray>>

(* One item of the page: published once if it has an id, under the market, *)
(* and with the side by the tokens, that the adapter has now.              *)
EmitFill ==
  LET n == trades.pos + 1
      t == <<trades.market, n>> IN
  /\ trades # None /\ trades.at = "answered" /\ n <= trades.end
  /\ trades' = [trades EXCEPT !.pos = n]
  /\ IF n \notin Anonymous /\ t \in seen
     THEN UNCHANGED <<seen, filled, astray>>
     ELSE /\ seen' = IF n \in Anonymous THEN seen ELSE seen \cup {t}
          /\ filled' = [filled EXCEPT ![t] = Least(@ + 1, 2)]
          /\ astray' = IF market = trades.market THEN astray ELSE astray \cup {"fill"}
  /\ UNCHANGED <<clock, market, endDate, main, announced, ordersCursor, orders,
                 tradesCursor, lastMarket, place, made>>

TradesReturn ==
  /\ trades # None /\ trades.at = "answered" /\ trades.pos >= trades.end
  /\ trades' = None
  /\ tradesCursor' = trades.next
  /\ UNCHANGED <<clock, market, endDate, main, announced, ordersCursor, orders,
                 seen, lastMarket, place, made, filled, astray>>

-----------------------------------------------------------------------------
(* PlaceOrder: the engine decides in the market announced; the call reads  *)
(* the token when it runs, looks whether the market is open, and sends.    *)
Decide ==
  /\ Running
  /\ place = None
  /\ place' = [decided |-> announced, token |-> None]
  /\ UNCHANGED <<clock, market, endDate, main, announced, ordersCursor, orders,
                 tradesVars, made, filled, astray>>

ReadToken ==
  /\ place # None /\ place.token = None
  /\ place' = [place EXCEPT !.token = market]
  /\ UNCHANGED <<clock, market, endDate, main, announced, ordersCursor, orders,
                 tradesVars, made, filled, astray>>

(* A fill-or-kill order makes a trade or none, or the market is closed.    *)
SendOrder ==
  /\ place # None /\ place.token # None
  /\ place' = None
  /\ made' \in {made, [made EXCEPT ![place.token] = @ + 1]}
  /\ made'[place.token] <= MaxTrades
  /\ astray' = IF place.token = place.decided THEN astray ELSE astray \cup {"order"}
  /\ UNCHANGED <<clock, market, endDate, main, announced, ordersCursor, orders,
                 tradesVars, filled>>

NextCycle ==
  /\ clock < LastCycle
  /\ clock' = clock + 1
  /\ UNCHANGED <<market, endDate, main, announced, ordersCursor, orders, tradesVars,
                 place, made, filled, astray>>

-----------------------------------------------------------------------------
(* The market is configured by its ids, without an end date, or not at all.*)
Init ==
  /\ clock = 0
  /\ market \in {None, 0} /\ endDate = None
  /\ main = "start" /\ announced = None
  /\ ordersCursor = First /\ orders = None
  /\ tradesCursor = First /\ seen = {} /\ lastMarket = None /\ trades = None
  /\ place = None
  /\ made = [m \in Cycles |-> 0]
  /\ filled = [t \in Trade |-> 0]
  /\ astray = {}

MainLoop == StartDiscovers \/ StartAnnounces \/ Rotate \/ RotateDiscovers
            \/ ResetCursor \/ AnnounceAgain
TradesLoop == AskTrades \/ TradesAnswer \/ EmitFill \/ TradesReturn

Next ==
  \/ MainLoop
  \/ AskOrders \/ OrdersAnswer
  \/ TradesLoop \/ TradesFail
  \/ Decide \/ ReadToken \/ SendOrder
  \/ NextCycle

Spec == Init /\ [][Next]_vars

(* The loops are goroutines woken by tickers; of the polls of trades not   *)
(* all fail, and of the answers not all leave the cursor where it is.      *)
Fairness ==
  /\ WF_vars(TradesLoop)
  /\ SF_vars(TradesAnswer /\ trades'.next # tradesCursor)

FairSpec == Spec /\ Fairness

-----------------------------------------------------------------------------
(* Every variable has its type.                                            *)
TypeOK ==
  /\ clock \in Cycles
  /\ market \in Cycles \cup {None} /\ endDate \in Cycles \cup {None}
  /\ main \in {"start", "announce", "failed", "running", "discover", "reset",
               "snapshot"}
  /\ announced \in Cycles \cup {None}
  /\ ordersCursor \in Cursors
  /\ orders \in [market : Cycles, cursor : Cursors] \cup {None}
  /\ tradesCursor \in Cursors
  /\ seen \subseteq Trade
  /\ lastMarket \in Cycles \cup {None}
  /\ trades \in [market : Cycles, at : {"asked", "answered"}, pos : 0..MaxTrades,
                 end : 0..MaxTrades, next : Cursors] \cup {None}
  /\ place \in [decided : Cycles, token : Cycles \cup {None}] \cup {None}
  /\ made \in [Cycles -> 0..MaxTrades]
  /\ filled \in [Trade -> 0..2]
  /\ astray \subseteq {"fill", "order"}

(* However pages overlap and polls fail, a trade that has an id reaches    *)
(* the position once (polymarket_trades.go:151-157).                       *)
NoFillTwice == \A t \in Trade : t[2] \notin Anonymous => filled[t] <= 1

(* Of the trades the cursor has left behind none was lost, whatever polls  *)
(* failed and pages overlapped (polymarket_trades.go:57-81).               *)
NothingSkipped == \A n \in 1..tradesCursor.pos : filled[<<lastMarket, n>>] > 0

(* A fill is published under the market it was asked for, although it is   *)
(* the adapter's market at the time of parsing that it is stamped with     *)
(* (polymarket_trades.go:163-180), and an order reaches the market it was  *)
(* decided in, although the token is read by a goroutine of its own        *)
(* (polymarket_trading.go:115-123).                                        *)
NothingAstray == astray = {}

(* The orders are polled from a place in the list of their own market: no  *)
(* late answer has put the cursor of another one back after a reset        *)
(* (polymarket.go:242, polymarket_orders.go:147).                          *)
CursorOfMarket == ordersCursor.pos > 0 => ordersCursor.of = market

(* A defect: the adapter never leaves the market it has found, although    *)
(* it is to "rotate market when it ends" (polymarket.go:216): discover     *)
(* returns early (382), and the expired market is announced with each poll.*)
StaysInItsMarket == [][market # None => market' = market]_vars

(* Every trade reaches the position (polymarket_trades.go:41-81).          *)
EveryTradeIsFilled ==
  \A t \in Trade :
    t[1] = market /\ made[t[1]] >= t[2] ~> filled[t] > 0
=============================================================================
