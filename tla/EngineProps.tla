----------------------------- MODULE EngineProps -----------------------------
(***************************************************************************)
(* What the engine and its OMS must never do, and what must happen in the  *)
(* end.  Properties that need an adapter which identifies orders and       *)
(* reports them truthfully say so.                                         *)
(***************************************************************************)
EXTENDS Engine

(* Every variable has its type; the ages stay within their bounds.         *)
TypeOK ==
  /\ OmsTypeOK
  /\ currentMarketID \in Markets \cup {NoMarket}
  /\ transitioning \in BOOLEAN
  /\ pendingSnapshot \in Markets \cup {NoMarket}
  /\ transitionAge \in 0..TransitionTimeout + 1
  /\ fillAge \in 0..QuietWindow + 1
  /\ lastRisk \in RiskStates
  /\ position \in SUBSET Markets
  /\ confidence \in {70, 90}

InPlay(c) == venue[c].phase \in {"sent", "live"}

(* Nothing the venue may still trade is unknown to the OMS: an order whose *)
(* place call is in flight, or that rests at the venue, is in the order    *)
(* table in an open state, through lost answers, failed cancels, timeouts  *)
(* and cycle switches (HasOpenOrders, oms.go:197-209).                     *)
NoOrphans ==
  deployment.trading /\ deployment.truthful =>
    \A c \in OrderIds : InPlay(c) => orders[c].state \in OpenStates

(* "Keep at most one open order" (oms.go:317), cancels that fail and       *)
(* answers that get lost included, as long as no strategy decides.  With a *)
(* strategy the limit that doc/策略层说明.md:157 speaks of is not kept.    *)
OneOpenOrder ==
  deployment.strategy = "none" /\ (deployment.trading => deployment.truthful) =>
    \A c, d \in Open(orders) : c = d

(* Without trading credentials no transition ever waits for an order: the  *)
(* snapshot that opens it leaves the book closed (engine.go:111-119).      *)
SimulationClosesAtOnce ==
  ~deployment.trading /\ transitioning => ~HasOpenOrders(orders)

(* A defect: when updates carry only the exchange's id, none ever reaches  *)
(* an order.  The OMS learns exchange ids from updates alone (oms.go:442,  *)
(* 466-500, polymarket_orders.go:156), so it sees an order created or      *)
(* cancelled by itself and nothing else, whatever the venue does with it,  *)
(* although polymarket_orders.go:20-21 wants the polls to drive its state. *)
OnlyOwnStates ==
  "client" \notin deployment.keys =>
    \A c \in OrderIds :
      orders[c] # NoOrder =>
        /\ orders[c].state \in {"NEW", "CANCELING", "CANCELED"}
        /\ orders[c].xid = NoId

(* While the OMS holds a kill, every open order has had its cancel request *)
(* (oms.go:216-221) and no later event, tick or poll makes it forget so,   *)
(* as long as updates do not name orders by client id.                     *)
KilledBookIsClosing ==
  omsKill /\ "client" \notin deployment.keys =>
    \A c \in OrderIds : orders[c].state \notin CancelableStates

(* simple_threshold buys either side at most once in a cycle               *)
(* (simple_threshold.go:26-30), whatever became of the order: cancelled,   *)
(* refused, filled, its transition given up.  The table keeps all orders   *)
(* of the cycle.                                                           *)
OneBuyPerSide ==
  deployment.strategy = "simple_threshold" =>
    \A c, d \in OrderIds :
      orders[c] # NoOrder /\ orders[d] # NoOrder /\ orders[c].side = orders[d].side
        => c = d

-----------------------------------------------------------------------------
SendsOrder ==
  \E c \in OrderIds : venue[c].phase = "none" /\ venue'[c].phase = "sent"

(* An order leaves only outside a transition, with the OMS free of a kill, *)
(* on a tick that neither kills nor freezes, and into an empty book unless *)
(* a strategy decides (engine.go:170-182, oms.go:238-247, 318).            *)
OrdersNeedPermission ==
  [][SendsOrder => /\ ~transitioning /\ ~transitioning'
                   /\ ~omsKill /\ ~lastRisk'.kill /\ ~lastRisk'.freeze
                   /\ deployment.strategy = "none" => ~HasOpenOrders(orders)]_vars

(* A cycle is never left with an order of it still in play at the venue    *)
(* (engine.go:286-319), the orders in flight when the transition began     *)
(* included.                                                               *)
SwitchFindsBookClosed ==
  [][currentMarketID' # currentMarketID
       /\ deployment.trading /\ deployment.truthful
     => \A c \in OrderIds : ~InPlay(c)]_vars

(* A transition comes to its end, by a closed book or by the 12 s timeout  *)
(* (engine.go:291), however often the adapter announces other markets and  *)
(* whatever becomes of the cancels: where a ticker makes the engine look.  *)
(* It has no timer of its own, so a stream that falls silent holds it up.  *)
TransitionEnds == (deployment.ticker /\ transitioning) ~> ~transitioning

-----------------------------------------------------------------------------
(* Taken together, the engine and its OMS keep the promise of a Session    *)
(* (engine.go:94-319, oms.go:197-330): an order is in play where the       *)
(* adapter trades, and reports truthfully enough to hear of its end.       *)
OrdersInPlay ==
  {c \in OrderIds : deployment.trading /\ deployment.truthful /\ InPlay(c)}

User == INSTANCE Session WITH
  market <- currentMarketID, announced <- pendingSnapshot,
  closing <- transitioning, killed <- omsKill,
  alone <- deployment.strategy = "none", inPlay <- OrdersInPlay

ImplementsSession == User!Spec

-----------------------------------------------------------------------------
(* "degrade data quality by emitting risk event" (polymarket_orders.go:62):*)
(* the event of a failed poll never lifts a kill switch that is on.        *)
PollErrorsOnlyDegrade ==
  [][deployment.trading /\ RiskEvent(Calm) => (omsKill => omsKill')]_vars
=============================================================================
