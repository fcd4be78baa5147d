-------------------------------- MODULE Oms --------------------------------
(***************************************************************************)
(* The order management system of internal/oms/oms.go, the place-order     *)
(* goroutines it spawns, and the trading venue behind the adapter.         *)
(*                                                                         *)
(* The OMS is driven by the engine goroutine only.  What runs beside it is *)
(* one goroutine per placed order and the timers of the deduplicator, and  *)
(* neither touches the order table.  A cancel is a synchronous call: the   *)
(* handler that issues it learns the answer before it returns.  One        *)
(* handler may do several of these things in a row (apply an update, then  *)
(* cancel what is left), so the operators below take the order table and   *)
(* the venue as they stand at that point of the handler.                   *)
(*                                                                         *)
(* Prices are in basis points (1/10000).  An identifier of OrderIds that   *)
(* neither the order table nor the venue mentions stands for a fresh       *)
(* client order id; a handler that would need one when none is left is     *)
(* disabled (the bound on orders).                                         *)
(***************************************************************************)
EXTENDS Integers

CONSTANTS
  OrderIds,       \* client order ids (bound on orders tracked at a time)
  NoId,           \* the empty id, ""
  Markets,        \* market (condition) ids
  NoMarket,       \* the empty market id, ""
  Prices,         \* limit prices
  Deployments     \* the adapters the program may be started with

(* What a deployment fixes for the life of the process: whether trading is *)
(* enabled (if not, the answer to every order call is "not configured"),   *)
(* whether the venue takes a client order id in a cancel request, whether  *)
(* an accepted order may rest (else it is fill-or-kill), whether order     *)
(* updates carry the client id or only the exchange's, and whether they    *)
(* tell the truth about the venue as it is (else: stale or unmapped ones); *)
(* whether a ticker publishes a tick every interval (else: ticks come with *)
(* messages of the venue, or stay away).  And the strategy the OMS is      *)
(* given, if any.                                                          *)
Deployment ==
  [trading : BOOLEAN, clientIds : BOOLEAN, resting : BOOLEAN,
   keys : SUBSET {"client", "exchange"}, truthful : BOOLEAN,
   ticker : BOOLEAN, strategy : {"none", "simple_threshold", "arbitrage"}]

ASSUME OmsAssumption ==
  /\ NoId \notin OrderIds
  /\ NoMarket \notin Markets
  /\ Prices \subseteq 0..10000
  /\ Deployments \subseteq Deployment

VARIABLES
  deployment, \* chosen when the program starts
  orders,   \* the order table: orders[c] is the *Order stored under c
  omsKill,  \* lastRisk.KillSwitch as the OMS last heard it
  held,     \* execution ids whose deduplicator bit is set
  bought,   \* the sides simple_threshold has asked for in this cycle
  cooling,  \* arbitrage has asked for orders less than a cooldown ago
  venue     \* venue[c]: the place request of c, in flight or at the venue

strategyVars == <<bought, cooling>>

-----------------------------------------------------------------------------
Sides == {"YES", "NO"}
OpenStates == {"NEW", "ACK", "PART_FILLED", "CANCELING"}
CancelableStates == {"NEW", "ACK", "PART_FILLED"}
ClosedStates == {"FILLED", "CANCELED", "REJECTED", "UNKNOWN"}
OrderStates == OpenStates \cup ClosedStates

NoOrder == [state |-> "NONE", xid |-> NoId, side |-> "YES", price |-> 0]
Order == [state : OrderStates, xid : OrderIds \cup {NoId},
          side : Sides, price : Prices]

(* The deduplication key of an order: its price in basis points, offset    *)
(* for NO, folded into 512 bits.                                           *)
ExecId(side, price) == (IF side = "NO" THEN price + 10000 ELSE price) % 512

ExecIds == {ExecId(s, p) : s \in Sides, p \in Prices}

(* sent: the goroutine is calling PlaceOrder; live: resting at the venue;  *)
(* filled: executed, and the fill has not been reported to the engine yet. *)
NoRequest == [phase |-> "none", market |-> NoMarket, exec |-> 0]
Request == [phase : {"sent", "live", "filled"}, market : Markets,
            exec : ExecIds]

(* An order decided on: its size is left out.                              *)
Decisions == [side : Sides, price : Prices]
None == [side |-> "NONE", price |-> 0]

EmptyBook == [c \in OrderIds |-> NoOrder]

Open(ords) == {c \in OrderIds : ords[c].state \in OpenStates}

(* Mutant: an order whose cancel was sent counts as gone.                  *)
HasCancelableOrders(ords) ==
  \E c \in OrderIds : ords[c].state \in CancelableStates

HasOpenOrders(ords) == Open(ords) # {}

-----------------------------------------------------------------------------
(* CancelOrder for every order of targets, one call after the other.       *)
(* Without trading credentials the answer is the error that counts as a    *)
(* simulated success.  Otherwise the venue removes some of the live orders *)
(* it can identify (gone) and acknowledges some of those (ok); any other   *)
(* answer, a lost one included, leaves the order CANCELING.                *)
Identified(ords, c) == deployment.clientIds \/ ords[c].xid # NoId

(* Mutant of CancelOrders: whatever the answer, the order counts as gone.  *)
CancelOrdersHopefully(ords, v, targets) ==
  \E gone \in SUBSET {c \in targets : v[c].phase = "live"
                                      /\ Identified(ords, c)} :
    /\ orders' = [c \in OrderIds |->
         IF c \in targets THEN [ords[c] EXCEPT !.state = "CANCELED"]
         ELSE ords[c]]
    /\ venue' = [c \in OrderIds |-> IF c \in gone THEN NoRequest ELSE v[c]]

CancelOrders(ords, v, targets) ==
  \E gone \in SUBSET {c \in targets : v[c].phase = "live"
                                      /\ Identified(ords, c)} :
  \E ok \in SUBSET gone :
    /\ orders' = [c \in OrderIds |->
         IF c \notin targets THEN ords[c]
         ELSE IF deployment.trading /\ c \notin ok
              THEN [ords[c] EXCEPT !.state = "CANCELING"]
              ELSE [ords[c] EXCEPT !.state = "CANCELED"]]
    /\ venue' = [c \in OrderIds |-> IF c \in gone THEN NoRequest ELSE v[c]]

(* Mutant: orders the venue has not acknowledged yet are left alone.       *)
CancelAllAcked(ords, v) ==
  CancelOrders(ords, v,
    {c \in OrderIds : ords[c].state \in {"ACK", "PART_FILLED"}})

CancelAllOpen(ords, v) ==
  CancelOrders(ords, v, {c \in OrderIds : ords[c].state \in CancelableStates})

-----------------------------------------------------------------------------
(* placeOrderFromDecision for each of a list of decisions, YES before NO   *)
(* and at most one of either: take the deduplicator bit or drop the order; *)
(* track it as NEW under a fresh id and start the goroutine that calls     *)
(* PlaceOrder.                                                             *)
Taken(ds) ==
  {d \in ds : /\ ExecId(d.side, d.price) \notin held
              /\ d.side = "NO" => ~\E e \in ds :
                   e.side = "YES" /\ ExecId(e.side, e.price) = ExecId(d.side, d.price)}

PlaceOrders(m, ds) ==
  \E new \in [OrderIds -> Taken(ds) \cup {None}] :
    /\ \A d \in Taken(ds) : \E c \in OrderIds : new[c] = d
    /\ \A c \in OrderIds : new[c] # None =>
         /\ orders[c] = NoOrder
         /\ venue[c] = NoRequest
         /\ \A b \in OrderIds : new[b] = new[c] => b = c
    /\ orders' = [c \in OrderIds |->
         IF new[c] = None THEN orders[c]
         ELSE [state |-> "NEW", xid |-> NoId,
               side |-> new[c].side, price |-> new[c].price]]
    /\ venue' = [c \in OrderIds |->
         IF new[c] = None THEN venue[c]
         ELSE [phase |-> "sent", market |-> m,
               exec |-> ExecId(new[c].side, new[c].price)]]
    /\ held' = held \cup {ExecId(d.side, d.price) : d \in Taken(ds)}

Conflicts(o, want) ==
  \/ o.side # want.side
  \/ o.price - want.price >= 100
  \/ want.price - o.price >= 100

(* Mutant of ExecuteSimple: an order being cancelled does not block.       *)
ExecuteBesideCanceling(m, want) ==
  \/ /\ \E c \in Open(orders) :
          /\ orders[c].state \in CancelableStates
          /\ Conflicts(orders[c], want)
          /\ CancelOrders(orders, venue, {c})
     /\ UNCHANGED held
  \/ /\ \A c \in OrderIds : orders[c].state \notin CancelableStates
     /\ PlaceOrders(m, {want})

(* executeSimple, for an order it wants: one open order at a time.         *)
(* firstOpen returns whichever open order the map iteration meets first.   *)
ExecuteSimple(m, want) ==
  \/ /\ \E c \in Open(orders) :
          \/ /\ Conflicts(orders[c], want)
             /\ CancelOrders(orders, venue, {c})
          \/ /\ ~Conflicts(orders[c], want)
             /\ UNCHANGED <<orders, venue>>
     /\ UNCHANGED held
  \/ /\ ~HasOpenOrders(orders)
     /\ PlaceOrders(m, {want})

(* Mutant of SimpleThreshold: a side is forgotten when its price leaves    *)
(* the threshold.                                                          *)
SimpleThresholdForgets(m, ds) ==
  /\ PlaceOrders(m, {d \in ds : d.side \notin bought})
  /\ bought' = {d.side : d \in ds}
  /\ UNCHANGED cooling

(* Execute of simple_threshold: ds are the sides that have reached the     *)
(* threshold, at the prices it would pay.                                  *)
SimpleThreshold(m, ds) ==
  /\ PlaceOrders(m, {d \in ds : d.side \notin bought})
  /\ bought' = bought \cup {d.side : d \in ds}
  /\ UNCHANGED cooling

(* Execute of arbitrage: both sides, when their asks leave a spread.       *)
Arbitrage(m, yes, no) ==
  /\ ~cooling
  /\ yes.side = "YES" /\ no.side = "NO"
  /\ yes.price + no.price <= 9980
  /\ PlaceOrders(m, {yes, no})
  /\ cooling' = TRUE
  /\ UNCHANGED bought

(* OnIntent below a kill and a freeze.  A tick may give no cause to act:   *)
(* a bias below 0.1, a price below the threshold, no spread.               *)
ExecuteIntent(m) ==
  \/ UNCHANGED <<orders, venue, held, strategyVars>>
  \/ /\ deployment.strategy = "none"
     /\ \E want \in Decisions : ExecuteSimple(m, want)
     /\ UNCHANGED strategyVars
  \/ /\ deployment.strategy = "simple_threshold"
     /\ \E ds \in SUBSET Decisions :
          /\ \A d, e \in ds : d.side = e.side => d = e
          /\ SimpleThreshold(m, ds)
  \/ /\ deployment.strategy = "arbitrage"
     /\ \E yes, no \in Decisions : Arbitrage(m, yes, no)

(* Mutant of OnIntent: the freeze of the intent is not looked at.          *)
OnIntentUnfrozen(m, freeze) ==
  /\ ~omsKill
  /\ ExecuteIntent(m)
  /\ UNCHANGED omsKill

(* OnIntent, called with the intent decided on the tick of market m that   *)
(* the OMS has just been handed, so the stored tick is that tick.          *)
OnIntent(m, freeze) ==
  /\ \/ /\ omsKill
        /\ UNCHANGED <<orders, venue, held, strategyVars>>
     \/ /\ ~omsKill
        /\ freeze
        /\ CancelAllOpen(orders, venue)
        /\ UNCHANGED <<held, strategyVars>>
     \/ /\ ~omsKill
        /\ ~freeze
        /\ ExecuteIntent(m)
  /\ UNCHANGED omsKill

(* Mutant of OnRisk: the kill is recorded and nothing is cancelled.        *)
OnRiskRecordsOnly(kill) ==
  /\ omsKill' = kill
  /\ UNCHANGED <<orders, venue, held, strategyVars>>

OnRisk(kill) ==
  /\ omsKill' = kill
  /\ IF kill THEN CancelAllOpen(orders, venue) ELSE UNCHANGED <<orders, venue>>
  /\ UNCHANGED <<held, strategyVars>>

(* Mutant of Updated: an order without an exchange id matches any.         *)
UpdatedLoosely(ords, u) ==
  [c \in OrderIds |->
    IF ords[c] # NoOrder /\ (u.cid = c \/ (u.cid = NoId /\ ords[c].xid = NoId))
    THEN [ords[c] EXCEPT !.state = u.state, !.xid = u.xid] ELSE ords[c]]

(* OnOrderUpdate: the order is found by client id, or else by an exchange  *)
(* id that an earlier update has recorded; the state is overwritten.       *)
Updated(ords, u) ==
  LET hit(c) == /\ ords[c] # NoOrder
                /\ \/ u.cid = c
                   \/ u.cid = NoId /\ u.xid # NoId /\ ords[c].xid = u.xid
  IN [c \in OrderIds |->
       IF ~hit(c) THEN ords[c]
       ELSE [ords[c] EXCEPT !.state = u.state,
                            !.xid = IF u.xid # NoId THEN u.xid ELSE @]]

(* Reset: the order table, the risk state and the deduplicator start over, *)
(* and so does simple_threshold; arbitrage goes on cooling.  Goroutines in *)
(* flight and the venue know nothing of it.                                *)
Reset ==
  /\ orders' = EmptyBook
  /\ omsKill' = FALSE
  /\ held' = {}
  /\ bought' = {}
  /\ UNCHANGED cooling

-----------------------------------------------------------------------------
(* The place goroutine of c hears from the adapter: accepted, refused, or  *)
(* accepted with the answer lost (an error to the goroutine).  A failure   *)
(* gives the deduplicator bit back; "not configured" keeps it; a success   *)
(* is only logged.                                                         *)
PlaceReturns(c) ==
  /\ venue[c].phase = "sent"
  /\ \/ /\ deployment.trading
        /\ \E ph \in (IF deployment.resting THEN {"live", "filled"} ELSE {"filled"}) :
             venue' = [venue EXCEPT ![c].phase = ph]
        /\ \/ UNCHANGED held
           \/ held' = held \ {venue[c].exec}
     \/ /\ deployment.trading
        /\ venue' = [venue EXCEPT ![c] = NoRequest]
        /\ held' = held \ {venue[c].exec}
     \/ /\ ~deployment.trading
        /\ venue' = [venue EXCEPT ![c] = NoRequest]
        /\ UNCHANGED held
  /\ UNCHANGED <<orders, omsKill, strategyVars>>

(* A resting order trades.                                                 *)
VenueFills(c) ==
  /\ venue[c].phase = "live"
  /\ venue' = [venue EXCEPT ![c].phase = "filled"]
  /\ UNCHANGED <<orders, omsKill, held, strategyVars>>

(* The release timer of an execution id fires.                             *)
WindowCloses(id) ==
  /\ id \in held
  /\ held' = held \ {id}
  /\ UNCHANGED <<orders, omsKill, venue, strategyVars>>

(* The cooldown of arbitrage is over.                                      *)
CooldownEnds ==
  /\ cooling
  /\ cooling' = FALSE
  /\ UNCHANGED <<orders, omsKill, held, venue, bought>>

-----------------------------------------------------------------------------
OmsInit ==
  /\ orders = EmptyBook
  /\ omsKill = FALSE
  /\ held = {}
  /\ bought = {}
  /\ cooling = FALSE
  /\ deployment \in Deployments
  /\ venue = [c \in OrderIds |-> NoRequest]

OmsTypeOK ==
  /\ deployment \in Deployments
  /\ orders \in [OrderIds -> Order \cup {NoOrder}]
  /\ omsKill \in BOOLEAN
  /\ held \in SUBSET ExecIds
  /\ bought \in SUBSET Sides
  /\ cooling \in BOOLEAN
  /\ venue \in [OrderIds -> Request \cup {NoRequest}]
=============================================================================
