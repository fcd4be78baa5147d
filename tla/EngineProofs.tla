---------------------------- MODULE EngineProofs ----------------------------
(***************************************************************************)
(* Proofs of the safety properties of EngineProps, for any number of       *)
(* orders, markets and prices, any deployments and any timeouts.           *)
(*                                                                         *)
(* None of the properties is inductive alone.  That no order at the venue  *)
(* is unknown to the OMS rests on updates reaching the order they name and *)
(* no other (OwnIds), that the book holds one open order rests on no       *)
(* closed order being opened again by an update, which in turn rests on    *)
(* the former; and that a switch finds the book closed rests on there      *)
(* being nothing at the venue before the first snapshot (Boot).            *)
(***************************************************************************)
EXTENDS EngineProps, TLAPS

(* The parts of the inductive invariant that speak of the order table ords *)
(* and the venue v as a handler may find them half way.                    *)
BookTyped(ords, v) ==
  /\ ords \in [OrderIds -> Order \cup {NoOrder}]
  /\ v \in [OrderIds -> Request \cup {NoRequest}]

OwnIds(ords) == \A c \in OrderIds : ords[c].xid \in {NoId, c}

Covered(ords, v) ==
  deployment.trading /\ deployment.truthful =>
    \A c \in OrderIds :
      v[c].phase \in {"sent", "live"} => ords[c].state \in OpenStates

Single(ords) ==
  deployment.strategy = "none" /\ (deployment.trading => deployment.truthful) =>
    \A c, d \in OrderIds :
      ords[c].state \in OpenStates /\ ords[d].state \in OpenStates => c = d

OwnStates(ords) ==
  "client" \notin deployment.keys =>
    \A c \in OrderIds :
      /\ ords[c].state \in {"NONE", "NEW", "CANCELING", "CANCELED"}
      /\ ords[c].xid = NoId

Simulated(ords) ==
  ~deployment.trading =>
    \A c \in OrderIds : ords[c].state \in {"NONE", "NEW", "CANCELED"}

Book(ords, v) ==
  /\ BookTyped(ords, v)
  /\ OwnIds(ords)
  /\ Covered(ords, v)
  /\ Single(ords)
  /\ OwnStates(ords)
  /\ Simulated(ords)

(* What a kill and a transition promise of an order table.                 *)
Closing(ords) ==
  omsKill /\ "client" \notin deployment.keys =>
    \A c \in OrderIds : ords[c].state \notin CancelableStates

Emptied(ords) ==
  ~deployment.trading /\ transitioning =>
    \A c \in OrderIds : ords[c].state \notin OpenStates

Boot ==
  /\ currentMarketID = NoMarket =>
       /\ ~transitioning
       /\ \A c \in OrderIds : orders[c] = NoOrder /\ venue[c] = NoRequest
  /\ transitioning => pendingSnapshot \in Markets

IInv == TypeOK /\ Book(orders, venue) /\ Closing(orders) /\ Emptied(orders)
          /\ Boot

-----------------------------------------------------------------------------
(* Cancelling open orders keeps the book, opens nothing, leaves none of    *)
(* its targets cancelable and, in simulation, none of them open.           *)
LEMMA CancelKeepsBook ==
  ASSUME NEW ords, NEW v, NEW targets \in SUBSET Open(ords), Book(ords, v),
         CancelOrders(ords, v, targets), UNCHANGED deployment
  PROVE  /\ Book(orders, venue)'
         /\ \A c \in OrderIds : orders'[c].state \in OpenStates =>
              ords[c].state \in OpenStates
         /\ \A c \in OrderIds : orders'[c].state \in CancelableStates =>
              ords[c].state \in CancelableStates /\ c \notin targets
         /\ ~deployment.trading => \A c \in targets : orders'[c].state \notin OpenStates
<1> PICK gone \in SUBSET {c \in targets : v[c].phase = "live"},
         ok \in SUBSET OrderIds :
      /\ ok \subseteq gone
      /\ orders' = [c \in OrderIds |->
           IF c \notin targets THEN ords[c]
           ELSE IF deployment.trading /\ c \notin ok
                THEN [ords[c] EXCEPT !.state = "CANCELING"]
                ELSE [ords[c] EXCEPT !.state = "CANCELED"]]
      /\ venue' = [c \in OrderIds |->
                    IF c \in gone THEN NoRequest ELSE v[c]]
  <2> targets \subseteq OrderIds
    BY DEF Open
  <2> QED
    BY DEF CancelOrders
<1> targets \subseteq OrderIds
  BY DEF Open
<1>1. \A c \in OrderIds :
        /\ ords[c] \in Order \cup {NoOrder}
        /\ c \in targets => ords[c] \in Order /\ ords[c].state \in OpenStates
  BY DEF Book, BookTyped, Open, NoOrder, OpenStates
<1>2. \A c \in OrderIds :
        IF c \in targets
        THEN /\ orders'[c] \in Order
             /\ orders'[c].state =
                  IF deployment.trading /\ c \notin ok
                  THEN "CANCELING" ELSE "CANCELED"
             /\ orders'[c].xid = ords[c].xid
        ELSE orders'[c] = ords[c]
  BY <1>1 DEF Order, OrderStates, OpenStates, ClosedStates
<1>3. BookTyped(orders, venue)'
  BY <1>1, <1>2 DEF Book, BookTyped
<1>4. OwnIds(orders)'
  BY <1>2 DEF Book, OwnIds
<1>5. Covered(orders, venue)'
  BY <1>2 DEF Book, Covered, NoRequest, OpenStates
<1>6. Single(orders)'
  BY <1>1, <1>2 DEF Book, Single, OpenStates
<1>7. OwnStates(orders)'
  BY <1>2 DEF Book, OwnStates
<1>8. Simulated(orders)'
  BY <1>2 DEF Book, Simulated
<1>9. \A c \in OrderIds :
        /\ orders'[c].state \in OpenStates => ords[c].state \in OpenStates
        /\ orders'[c].state \in CancelableStates =>
             ords[c].state \in CancelableStates /\ c \notin targets
        /\ ~deployment.trading /\ c \in targets => orders'[c].state \notin OpenStates
  BY <1>1, <1>2 DEF OpenStates, CancelableStates
<1> QED
  BY <1>3, <1>4, <1>5, <1>6, <1>7, <1>8, <1>9 DEF Book

(* CancelAll is that for every order that is not CANCELING yet.            *)
LEMMA CancelAllKeepsBook ==
  ASSUME NEW ords, NEW v, Book(ords, v), CancelAllOpen(ords, v),
         UNCHANGED deployment
  PROVE  /\ Book(orders, venue)'
         /\ \A c \in OrderIds : orders'[c].state \in OpenStates =>
              ords[c].state \in OpenStates
         /\ \A c \in OrderIds : orders'[c].state \notin CancelableStates
         /\ ~deployment.trading =>
              \A c \in OrderIds : orders'[c].state \notin OpenStates
<1> DEFINE targets == {c \in OrderIds : ords[c].state \in CancelableStates}
<1>1. targets \in SUBSET Open(ords)
  BY DEF Open, CancelableStates, OpenStates
<1>2. CancelOrders(ords, v, targets)
  BY DEF CancelAllOpen
<1> HIDE DEF targets
<1>3. /\ Book(orders, venue)'
      /\ \A c \in OrderIds : orders'[c].state \in OpenStates =>
           ords[c].state \in OpenStates
      /\ \A c \in OrderIds : orders'[c].state \in CancelableStates =>
           ords[c].state \in CancelableStates /\ c \notin targets
      /\ ~deployment.trading => \A c \in targets : orders'[c].state \notin OpenStates
  BY <1>1, <1>2, CancelKeepsBook
<1>4. \A c \in OrderIds : ~deployment.trading /\ c \notin targets =>
        ords[c].state \notin OpenStates
  BY DEF targets, Book, Simulated, OpenStates, CancelableStates
<1> QED
  BY <1>3, <1>4 DEF targets

(* Orders that are placed are tracked and cover their goroutines; where no *)
(* strategy decides the book was empty, and there is one of them.          *)
LEMMA PlaceKeepsBook ==
  ASSUME NEW m \in Markets, NEW ds \in SUBSET Decisions,
         Book(orders, venue), held \in SUBSET ExecIds,
         PlaceOrders(m, ds), UNCHANGED deployment,
         deployment.strategy = "none" =>
           ~HasOpenOrders(orders) /\ \E want \in Decisions : ds = {want}
  PROVE  Book(orders, venue)' /\ held' \in SUBSET ExecIds
<1> PICK new \in [OrderIds -> Taken(ds) \cup {None}] :
      /\ \A c \in OrderIds : new[c] # None =>
           /\ orders[c] = NoOrder
           /\ venue[c] = NoRequest
           /\ \A b \in OrderIds : new[b] = new[c] => b = c
      /\ orders' = [c \in OrderIds |->
           IF new[c] = None THEN orders[c]
           ELSE [state |-> "NEW", xid |-> NoId,
                 side |-> new[c].side, price |-> new[c].price]]
      /\ venue' = [c \in OrderIds |->
           IF new[c] = None THEN venue[c]
           ELSE [phase |-> "sent", market |-> m,
                 exec |-> ExecId(new[c].side, new[c].price)]]
      /\ held' = held \cup {ExecId(d.side, d.price) : d \in Taken(ds)}
  BY DEF PlaceOrders
<1>1. \A d \in Taken(ds) : /\ d \in ds /\ d.side \in Sides /\ d.price \in Prices
                           /\ ExecId(d.side, d.price) \in ExecIds
  BY DEF Taken, Decisions, ExecIds
<1>2. \A c \in OrderIds :
        IF new[c] = None
        THEN orders'[c] = orders[c] /\ venue'[c] = venue[c]
        ELSE /\ orders'[c] \in Order
             /\ orders'[c].state = "NEW" /\ orders'[c].xid = NoId
             /\ venue'[c] \in Request /\ venue'[c].phase = "sent"
  BY <1>1 DEF Order, OrderStates, OpenStates, Request
<1>3. BookTyped(orders, venue)'
  BY <1>2 DEF Book, BookTyped
<1>4. OwnIds(orders)' /\ OwnStates(orders)' /\ Simulated(orders)'
  BY <1>2 DEF Book, OwnIds, OwnStates, Simulated
<1>5. Covered(orders, venue)'
  BY <1>2 DEF Book, Covered, OpenStates
<1>6. Single(orders)'
  <2> SUFFICES ASSUME deployment.strategy = "none",
                      NEW c \in OrderIds, NEW d \in OrderIds,
                      orders'[c].state \in OpenStates,
                      orders'[d].state \in OpenStates
               PROVE  c = d
    BY DEF Single
  <2>1. new[c] # None /\ new[d] # None
    BY <1>2 DEF HasOpenOrders, Open
  <2>2. new[c] = new[d]
    BY <1>1, <2>1
  <2> QED
    BY <2>1, <2>2
<1>7. held' \in SUBSET ExecIds
  BY <1>1
<1> QED
  BY <1>3, <1>4, <1>5, <1>6, <1>7 DEF Book

-----------------------------------------------------------------------------
(* What the adapter may report of order c, and the table it leads to.      *)
Update(c, k, s) ==
  [cid |-> IF k = "client" THEN c ELSE NoId, xid |-> c, state |-> s]

(* An update changes the order it is about or none, and none at all when   *)
(* updates carry only the exchange's id; a truthful one opens no order.    *)
LEMMA UpdateKeepsBook ==
  ASSUME NEW c \in OrderIds, NEW k \in deployment.keys, NEW s \in Reported(c),
         deployment \in Deployments, deployment.trading,
         venue[c].phase # "sent", Book(orders, venue)
  PROVE  /\ Book(Updated(orders, Update(c, k, s)), venue)
         /\ "client" \notin deployment.keys =>
              Updated(orders, Update(c, k, s)) = orders
<1> DEFINE u == Update(c, k, s)
           ords == Updated(orders, u)
           Named(d) == \/ u.cid = d
                       \/ u.cid = NoId /\ u.xid # NoId /\ orders[d].xid = u.xid
<1>1. /\ deployment.keys \subseteq {"client", "exchange"}
      /\ NoId \notin OrderIds
  BY OmsAssumption DEF Deployment
<1>2. s \in {"ACK", "UNKNOWN", "FILLED", "CANCELED"}
  BY DEF Reported, Truth
<1>3. /\ u.cid = (IF k = "client" THEN c ELSE NoId)
      /\ u.xid = c /\ u.state = s
  BY DEF Update
<1>4. \A d \in OrderIds : Named(d) => d = c
  BY <1>1, <1>3 DEF Book, OwnIds
<1>5. \A d \in OrderIds :
        ords[d] = IF orders[d] # NoOrder /\ Named(d)
                  THEN [orders[d] EXCEPT !.state = u.state, !.xid = c]
                  ELSE orders[d]
  BY <1>1, <1>3 DEF Updated
<1>6. /\ \A d \in OrderIds : orders[d] \in Order \cup {NoOrder}
      /\ \A d \in OrderIds : orders[d] \in Order =>
           /\ [orders[d] EXCEPT !.state = u.state, !.xid = c] \in Order
           /\ [orders[d] EXCEPT !.state = u.state, !.xid = c].state = s
           /\ [orders[d] EXCEPT !.state = u.state, !.xid = c].xid = c
  BY <1>2, <1>3 DEF Book, BookTyped, Order, OrderStates, OpenStates, ClosedStates
<1> HIDE DEF u, ords, Named
<1>7. \A d \in OrderIds :
        \/ ords[d] = orders[d]
        \/ /\ d = c /\ Named(c) /\ orders[c] # NoOrder
           /\ ords[c] \in Order /\ ords[c].state = s /\ ords[c].xid = c
  BY <1>4, <1>5, <1>6
<1>8. deployment.truthful /\ s \in OpenStates => orders[c].state \in OpenStates
  BY DEF Reported, Truth, Book, Covered, OpenStates
<1>9. ASSUME "client" \notin deployment.keys
      PROVE  \A d \in OrderIds : ~Named(d)
  BY <1>1, <1>3, <1>9 DEF Named, Book, OwnStates
<1>10. BookTyped(ords, venue)
  <2>1. ords = [d \in OrderIds |-> ords[d]]
    BY DEF ords, Updated
  <2> QED
    BY <2>1, <1>6, <1>7 DEF Book, BookTyped
<1>11. OwnIds(ords)
  BY <1>7 DEF Book, OwnIds
<1>12. Covered(ords, venue)
  BY <1>7, <1>2 DEF Book, Covered, Reported, Truth, OpenStates
<1>13. Single(ords)
  BY <1>7, <1>8 DEF Book, Single
<1>14. OwnStates(ords)
  BY <1>7, <1>9 DEF Book, OwnStates
<1>15. Simulated(ords)
  BY DEF Simulated
<1>16. "client" \notin deployment.keys => ords = orders
  <2>1. ords = [d \in OrderIds |-> ords[d]]
    BY DEF ords, Updated
  <2>2. orders = [d \in OrderIds |-> orders[d]]
    BY DEF Book, BookTyped
  <2> QED
    BY <2>1, <2>2, <1>7, <1>9
<1> QED
  BY <1>10, <1>11, <1>12, <1>13, <1>14, <1>15, <1>16 DEF Book, ords, u

(* The goroutines, the venue and the timers keep the book.                 *)
LEMMA OutsideKeepsBook ==
  ASSUME Book(orders, venue), held \in SUBSET ExecIds, Outside,
         UNCHANGED deployment
  PROVE  /\ Book(orders, venue)' /\ held' \in SUBSET ExecIds
         /\ cooling' \in {cooling, FALSE} /\ UNCHANGED <<orders, omsKill, bought>>
<1>1. ASSUME NEW c \in OrderIds, PlaceReturns(c)
      PROVE  /\ Book(orders, venue)' /\ held' \in SUBSET ExecIds
             /\ UNCHANGED <<orders, omsKill, strategyVars>>
  <2>1. /\ venue[c] \in Request /\ venue[c].phase = "sent"
        /\ \/ venue' = [venue EXCEPT ![c] = NoRequest]
           \/ \E ph \in {"live", "filled"} : venue' = [venue EXCEPT ![c].phase = ph]
        /\ held' \in SUBSET ExecIds
        /\ UNCHANGED <<orders, omsKill, strategyVars>>
    BY <1>1 DEF PlaceReturns, Book, BookTyped, NoRequest
  <2>2. /\ venue'[c] \in Request \cup {NoRequest}
        /\ venue' = [d \in OrderIds |-> IF d = c THEN venue'[c] ELSE venue[d]]
    BY <2>1 DEF Book, BookTyped, Request
  <2> QED
    BY <2>1, <2>2
    DEF Book, BookTyped, OwnIds, Covered, Single, OwnStates, Simulated
<1>2. ASSUME NEW c \in OrderIds, VenueFills(c)
      PROVE  /\ Book(orders, venue)' /\ held' \in SUBSET ExecIds
             /\ UNCHANGED <<orders, omsKill, strategyVars>>
  <2>1. /\ venue[c] \in Request
        /\ venue' = [venue EXCEPT ![c].phase = "filled"]
        /\ UNCHANGED <<orders, omsKill, held, strategyVars>>
    BY <1>2 DEF VenueFills, Book, BookTyped, NoRequest
  <2>2. /\ venue'[c] \in Request /\ venue'[c].phase = "filled"
        /\ venue' = [d \in OrderIds |-> IF d = c THEN venue'[c] ELSE venue[d]]
    BY <2>1 DEF Book, BookTyped, Request
  <2> QED
    BY <2>1, <2>2
    DEF Book, BookTyped, OwnIds, Covered, Single, OwnStates, Simulated
<1>3. ASSUME NEW id \in ExecIds, WindowCloses(id)
      PROVE  /\ Book(orders, venue)' /\ held' \in SUBSET ExecIds
             /\ UNCHANGED <<orders, omsKill, strategyVars>>
  BY <1>3 DEF WindowCloses, Book, BookTyped, OwnIds, Covered, Single,
              OwnStates, Simulated
<1>4. CASE CooldownEnds
  BY <1>4 DEF CooldownEnds, Book, BookTyped, OwnIds, Covered, Single, OwnStates,
              Simulated
<1> QED
  BY <1>1, <1>2, <1>3, <1>4 DEF Outside, strategyVars

-----------------------------------------------------------------------------
(* A new cycle starts with an empty table.  It keeps the book when nothing *)
(* of the old cycle is open, and so nothing of it at the venue.            *)
LEMMA ResetKeepsBook ==
  ASSUME NEW ords, NEW v, Book(ords, v), ~HasOpenOrders(ords),
         orders' = EmptyBook, venue' = v, UNCHANGED deployment
  PROVE  Book(orders, venue)'
<1>1. \A c \in OrderIds : orders'[c] = NoOrder /\ ords[c].state \notin OpenStates
  BY DEF EmptyBook, HasOpenOrders, Open
<1>2. NoOrder.state = "NONE" /\ NoOrder.xid = NoId
  BY DEF NoOrder
<1>3. BookTyped(orders, venue)'
  BY DEF Book, BookTyped, EmptyBook
<1>4. OwnIds(orders)' /\ OwnStates(orders)' /\ Simulated(orders)'
  BY <1>1, <1>2 DEF OwnIds, OwnStates, Simulated
<1>5. Covered(orders, venue)'
  BY <1>1 DEF Book, Covered
<1>6. Single(orders)'
  BY <1>1, <1>2 DEF Single, OpenStates
<1> QED
  BY <1>3, <1>4, <1>5, <1>6 DEF Book

(* The end of a transition sets its clocks back within their bounds.       *)
LEMMA EndTransitionTypes ==
  ASSUME EndTransition
  PROVE  /\ transitioning' \in BOOLEAN
         /\ transitionAge' \in 0..TransitionTimeout + 1
         /\ fillAge' \in 0..QuietWindow + 1
<1>1. transitioning' \in BOOLEAN /\ transitionAge' = 0 /\ fillAge' = QuietWindow + 1
  BY Zenon DEF EndTransition
<1>2. 0 \in 0..TransitionTimeout + 1 /\ QuietWindow + 1 \in 0..QuietWindow + 1
  BY EngineAssumption
<1> QED
  BY <1>1, <1>2

(* Risk builds risk states.                                                *)
LEMMA RiskTypes ==
  \A kill, freeze \in BOOLEAN : Risk(kill, freeze) \in RiskStates
  BY DEF Risk, RiskStates

(* A new cycle starts with a risk state.                                   *)
LEMMA NewCycleRisk ==
  ASSUME NEW v, NEW p, NEW m, ApplyNewCycle(v, p, m)
  PROVE  lastRisk' \in RiskStates
<1>1. lastRisk' \in {Risk(TRUE, TRUE), Risk(FALSE, FALSE)}
  BY DEF ApplyNewCycle, ResetPosition, Calm
<1> QED
  BY <1>1, RiskTypes

(* The last call of a handler that reconciles in a transition.             *)
LEMMA CompletionKeepsInv ==
  ASSUME NEW ords, NEW v, NEW p \in SUBSET Markets,
         NEW age \in 0..QuietWindow + 1, NEW risk \in RiskStates,
         TypeOK, Boot, transitioning,
         Book(ords, v), Closing(ords), Emptied(ords),
         MaybeCompleteTransition(ords, v, p, age, risk),
         UNCHANGED deployment, confidence' \in {70, 90}
  PROVE  IInv'
<1>1. /\ currentMarketID \in Markets
      /\ pendingSnapshot \in Markets
      /\ NoMarket \notin Markets
  BY OmsAssumption DEF TypeOK, Boot
<1>2. CASE /\ transitionAge > TransitionTimeout
           /\ EndTransition
           /\ orders' = ords /\ venue' = v /\ position' = p
           /\ lastRisk' = Risk(TRUE, TRUE)
           /\ UNCHANGED <<currentMarketID, pendingSnapshot, omsKill, held, strategyVars>>
  <2>1. Book(orders, venue)'
    BY <1>2 DEF Book, BookTyped, OwnIds, Covered, Single, OwnStates, Simulated
  <2>2. TypeOK'
    BY <1>2, <2>1, EndTransitionTypes, RiskTypes
    DEF TypeOK, OmsTypeOK, Book, BookTyped, strategyVars
  <2>3. Closing(orders)' /\ Emptied(orders)' /\ Boot'
    BY <1>1, <1>2 DEF Closing, Emptied, Boot, EndTransition
  <2> QED
    BY <2>1, <2>2, <2>3 DEF IInv
<1>3. CASE /\ CancelAllOpen(ords, v)
           /\ position' = p /\ fillAge' = age /\ lastRisk' = risk
           /\ UNCHANGED <<cycleVars, transitionAge, omsKill, held, strategyVars>>
  <2>1. /\ Book(orders, venue)'
        /\ \A c \in OrderIds : orders'[c].state \notin CancelableStates
        /\ ~deployment.trading =>
             \A c \in OrderIds : orders'[c].state \notin OpenStates
    BY <1>3, CancelAllKeepsBook
  <2>2. TypeOK'
    BY <1>3, <2>1 DEF TypeOK, OmsTypeOK, Book, BookTyped, cycleVars, strategyVars
  <2>3. Closing(orders)' /\ Emptied(orders)' /\ Boot'
    BY <1>1, <1>3, <2>1 DEF Closing, Emptied, Boot, cycleVars
  <2> QED
    BY <2>1, <2>2, <2>3 DEF IInv
<1>4. CASE /\ orders' = ords /\ venue' = v
           /\ position' = p /\ fillAge' = age /\ lastRisk' = risk
           /\ UNCHANGED <<cycleVars, transitionAge, omsKill, held, strategyVars>>
  <2>1. Book(orders, venue)'
    BY <1>4 DEF Book, BookTyped, OwnIds, Covered, Single, OwnStates, Simulated
  <2>2. TypeOK'
    BY <1>4, <2>1 DEF TypeOK, OmsTypeOK, Book, BookTyped, cycleVars, strategyVars
  <2>3. Closing(orders)' /\ Emptied(orders)' /\ Boot'
    BY <1>1, <1>4 DEF Closing, Emptied, Boot, cycleVars
  <2> QED
    BY <2>1, <2>2, <2>3 DEF IInv
<1>5. CASE /\ ~HasOpenOrders(ords)
           /\ ApplyNewCycle(v, p, pendingSnapshot)
           /\ EndTransition
           /\ pendingSnapshot' = NoMarket
  <2>1. Book(orders, venue)'
    BY <1>5, ResetKeepsBook DEF ApplyNewCycle, ResetPosition, Reset
  <2>2. TypeOK'
    BY <1>1, <1>5, <2>1, EndTransitionTypes, NewCycleRisk
    DEF TypeOK, OmsTypeOK, Book, BookTyped, ApplyNewCycle, ResetPosition, Reset
  <2>3. Closing(orders)' /\ Emptied(orders)' /\ Boot'
    BY <1>1, <1>5
    DEF Closing, Emptied, Boot, ApplyNewCycle, ResetPosition, Reset, EndTransition
  <2> QED
    BY <2>1, <2>2, <2>3 DEF IInv
<1> QED
  BY <1>2, <1>3, <1>4, <1>5 DEF MaybeCompleteTransition

-----------------------------------------------------------------------------
(* The OMS handlers a tick or a risk event ends in.                        *)
LEMMA OnRiskKeepsBook ==
  ASSUME NEW kill \in BOOLEAN, Book(orders, venue), Emptied(orders),
         OnRisk(kill), UNCHANGED <<deployment, transitioning>>
  PROVE  /\ Book(orders, venue)' /\ Closing(orders)' /\ Emptied(orders)'
         /\ omsKill' = kill /\ UNCHANGED <<held, strategyVars>>
<1>1. omsKill' = kill /\ UNCHANGED <<held, strategyVars>>
  BY DEF OnRisk
<1>2. CASE kill
  <2>1. /\ Book(orders, venue)'
        /\ \A c \in OrderIds : orders'[c].state \notin CancelableStates
        /\ ~deployment.trading =>
             \A c \in OrderIds : orders'[c].state \notin OpenStates
    BY <1>2, CancelAllKeepsBook DEF OnRisk
  <2> QED
    BY <1>1, <2>1 DEF Closing, Emptied
<1>3. CASE ~kill
  <2>1. UNCHANGED <<orders, venue>>
    BY <1>3 DEF OnRisk
  <2> QED
    BY <1>1, <1>3, <2>1 DEF Closing, Emptied, Book, BookTyped, OwnIds, Covered,
                           Single, OwnStates, Simulated
<1> QED
  BY <1>2, <1>3

(* Whatever the intent, the OMS keeps its book, and a killed one closing.  *)
LEMMA OnIntentKeepsBook ==
  ASSUME NEW m \in Markets, NEW freeze \in BOOLEAN,
         Book(orders, venue), Closing(orders), held \in SUBSET ExecIds,
         bought \in SUBSET Sides, cooling \in BOOLEAN,
         OnIntent(m, freeze), UNCHANGED deployment
  PROVE  /\ Book(orders, venue)' /\ Closing(orders)'
         /\ held' \in SUBSET ExecIds /\ omsKill' = omsKill
         /\ bought' \in SUBSET Sides /\ cooling' \in BOOLEAN
<1>1. omsKill' = omsKill
  BY DEF OnIntent
<1>2. ASSUME UNCHANGED <<orders, venue>>
      PROVE  Book(orders, venue)' /\ Closing(orders)'
  BY <1>1, <1>2 DEF Closing, Book, BookTyped, OwnIds, Covered, Single,
                   OwnStates, Simulated
<1>3. CASE UNCHANGED <<orders, held, venue, strategyVars>>
  BY <1>1, <1>2, <1>3 DEF strategyVars
<1>4. CASE ~omsKill /\ CancelAllOpen(orders, venue) /\ UNCHANGED <<held, strategyVars>>
  BY <1>1, <1>4, CancelAllKeepsBook DEF Closing, strategyVars
<1>5. ASSUME ~omsKill, NEW want \in Decisions, ExecuteSimple(m, want),
             UNCHANGED strategyVars
      PROVE  /\ Book(orders, venue)' /\ Closing(orders)'
             /\ held' \in SUBSET ExecIds
  <2>1. CASE /\ \E c \in Open(orders) :
                  \/ CancelOrders(orders, venue, {c})
                  \/ UNCHANGED <<orders, venue>>
             /\ UNCHANGED held
    <3>1. ASSUME NEW c \in Open(orders), CancelOrders(orders, venue, {c})
          PROVE  Book(orders, venue)'
      BY <3>1, CancelKeepsBook
    <3> QED
      BY <1>1, <1>2, <1>5, <2>1, <3>1 DEF Closing
  <2>2. CASE ~HasOpenOrders(orders) /\ PlaceOrders(m, {want})
    BY <1>1, <1>5, <2>2, PlaceKeepsBook DEF Closing
  <2> QED
    BY <1>5, <2>1, <2>2 DEF ExecuteSimple
<1>6. ASSUME ~omsKill, deployment.strategy # "none",
             NEW ds \in SUBSET Decisions, PlaceOrders(m, ds)
      PROVE  /\ Book(orders, venue)' /\ Closing(orders)'
             /\ held' \in SUBSET ExecIds
  BY <1>1, <1>6, PlaceKeepsBook DEF Closing
<1>7. ASSUME ~omsKill, deployment.strategy = "simple_threshold",
             NEW ds \in SUBSET Decisions, SimpleThreshold(m, ds)
      PROVE  /\ Book(orders, venue)' /\ Closing(orders)'
             /\ held' \in SUBSET ExecIds
             /\ bought' \in SUBSET Sides /\ cooling' \in BOOLEAN
  <2>1. {d \in ds : d.side \notin bought} \in SUBSET Decisions
    OBVIOUS
  <2>2. bought' \in SUBSET Sides /\ cooling' \in BOOLEAN
    BY <1>7 DEF SimpleThreshold, Decisions
  <2> QED
    BY <1>6, <1>7, <2>1, <2>2 DEF SimpleThreshold
<1>8. ASSUME ~omsKill, deployment.strategy = "arbitrage",
             NEW yes \in Decisions, NEW no \in Decisions, Arbitrage(m, yes, no)
      PROVE  /\ Book(orders, venue)' /\ Closing(orders)'
             /\ held' \in SUBSET ExecIds
             /\ bought' \in SUBSET Sides /\ cooling' \in BOOLEAN
  <2>1. {yes, no} \in SUBSET Decisions
    OBVIOUS
  <2> QED
    BY <1>6, <1>8, <2>1 DEF Arbitrage
<1>9. CASE ~omsKill /\ ExecuteIntent(m)
  <2>1. CASE /\ \E want \in Decisions : ExecuteSimple(m, want)
             /\ UNCHANGED strategyVars
    <3>1. PICK want \in Decisions : ExecuteSimple(m, want)
      BY <2>1
    <3>2. bought' = bought /\ cooling' = cooling
      BY <2>1 DEF strategyVars
    <3> QED
      BY <1>1, <1>5, <1>9, <2>1, <3>1, <3>2
  <2>2. CASE /\ deployment.strategy = "simple_threshold"
             /\ \E ds \in SUBSET Decisions : SimpleThreshold(m, ds)
    <3>1. PICK ds \in SUBSET Decisions : SimpleThreshold(m, ds)
      BY <2>2
    <3> QED
      BY <1>1, <1>7, <1>9, <2>2, <3>1
  <2>3. CASE /\ deployment.strategy = "arbitrage"
             /\ \E yes, no \in Decisions : Arbitrage(m, yes, no)
    <3>1. PICK yes \in Decisions, no \in Decisions : Arbitrage(m, yes, no)
      BY <2>3
    <3> QED
      BY <1>1, <1>8, <1>9, <2>3, <3>1
  <2> QED
    BY <1>3, <1>9, <2>1, <2>2, <2>3, Zenon DEF ExecuteIntent
<1> QED
  BY <1>1, <1>3, <1>4, <1>9 DEF OnIntent

(* What a tick brings and what the supervisor and the brain make of it.    *)
LEMMA TickTypes ==
  ASSUME NEW t \in Ticks
  PROVE  /\ t.market \in Markets
         /\ Evaluate(t) \in RiskStates
         /\ Evaluate(t).kill \in BOOLEAN /\ Evaluate(t).freeze \in BOOLEAN
         /\ Freezes(t, Evaluate(t)) \in BOOLEAN
<1>1. t.market \in Markets
  BY DEF Ticks
<1>2. (t.sees = "consensus") \in BOOLEAN
  OBVIOUS
<1>3. Evaluate(t) \in RiskStates
  BY <1>2, RiskTypes DEF Evaluate
<1>4. Evaluate(t).kill \in BOOLEAN /\ Evaluate(t).freeze \in BOOLEAN
  BY <1>3 DEF RiskStates
<1>5. Freezes(t, Evaluate(t)) \in BOOLEAN
  BY DEF Freezes
<1> QED
  BY <1>1, <1>3, <1>4, <1>5

-----------------------------------------------------------------------------
(* The invariant holds before the first event.                             *)
LEMMA InitInv == Init => IInv
<1> SUFFICES ASSUME Init PROVE IInv
  OBVIOUS
<1>1. Book(orders, venue)
  BY DEF Init, OmsInit, EmptyBook, NoOrder, NoRequest, Book, BookTyped, OwnIds,
         Covered, Single, OwnStates, Simulated, OpenStates
<1>2. OmsTypeOK
  BY <1>1 DEF Init, OmsInit, OmsTypeOK, Book, BookTyped
<1>3. lastRisk \in RiskStates
  BY RiskTypes DEF Init, Calm
<1>4. transitionAge \in 0..TransitionTimeout + 1 /\ fillAge \in 0..QuietWindow + 1
  BY EngineAssumption DEF Init
<1>5. TypeOK
  BY <1>2, <1>3, <1>4 DEF Init, TypeOK
<1>6. Closing(orders) /\ Emptied(orders) /\ Boot
  BY DEF Init, OmsInit, EmptyBook, Closing, Emptied, Boot
<1> QED
  BY <1>1, <1>5, <1>6 DEF IInv

(* Before the first snapshot no order exists that a new cycle could orphan.*)
LEMMA FirstSnapshotInv ==
  ASSUME IInv, NEW m \in Markets, FirstSnapshot(m), UNCHANGED deployment
  PROVE  IInv'
<1>1. /\ orders' = EmptyBook /\ venue' = venue /\ omsKill' = FALSE /\ held' = {}
      /\ bought' = {} /\ cooling' = cooling
      /\ position' = {} /\ currentMarketID' = m /\ pendingSnapshot' = NoMarket
      /\ transitioning' = FALSE /\ confidence' = confidence
  BY DEF FirstSnapshot, ApplyNewCycle, ResetPosition, Reset, EndTransition
<1>2. ~HasOpenOrders(orders)
  BY DEF FirstSnapshot, IInv, Boot, HasOpenOrders, Open, NoOrder, OpenStates
<1>3. Book(orders, venue)'
  BY <1>1, <1>2, ResetKeepsBook DEF IInv
<1>4. lastRisk' \in RiskStates
  BY NewCycleRisk DEF FirstSnapshot
<1>5. TypeOK'
  BY <1>1, <1>3, <1>4, EndTransitionTypes
  DEF FirstSnapshot, IInv, TypeOK, OmsTypeOK, Book, BookTyped
<1>6. Closing(orders)' /\ Emptied(orders)' /\ Boot'
  BY <1>1, OmsAssumption DEF Closing, Emptied, Boot
<1> QED
  BY <1>3, <1>5, <1>6 DEF IInv

(* A transition opens with every order CANCELING, or keeps the one that is *)
(* open.                                                                   *)
LEMMA NewSnapshotInv ==
  ASSUME IInv, NEW m \in Markets, NewSnapshot(m), UNCHANGED deployment
  PROVE  IInv'
<1>1. /\ pendingSnapshot' = m /\ transitioning' = TRUE
      /\ UNCHANGED <<currentMarketID, omsKill, held, strategyVars, lastRisk,
                     position, confidence>>
      /\ currentMarketID # NoMarket
  BY DEF NewSnapshot, IInv, TypeOK
<1>2. /\ Book(orders, venue)' /\ Closing(orders)' /\ Emptied(orders)'
      /\ transitionAge' \in 0..TransitionTimeout + 1
      /\ fillAge' \in 0..QuietWindow + 1
  <2>1. CASE transitioning /\ UNCHANGED <<transitioning, transitionAge,
                                         fillAge, orders, venue>>
    BY <1>1, <2>1 DEF IInv, TypeOK, Closing, Emptied, Book, BookTyped, OwnIds,
                      Covered, Single, OwnStates, Simulated
  <2>2. CASE /\ transitionAge' = 0 /\ fillAge' = QuietWindow + 1
             /\ CancelAllOpen(orders, venue)
    <3>1. Book(orders, venue)' /\ Closing(orders)' /\ Emptied(orders)'
      BY <2>2, CancelAllKeepsBook DEF IInv, Closing, Emptied
    <3> QED
      BY <2>2, <3>1, EngineAssumption
  <2> QED
    BY <2>1, <2>2 DEF NewSnapshot
<1>3. TypeOK'
  BY <1>1, <1>2 DEF IInv, TypeOK, OmsTypeOK, Book, BookTyped, strategyVars
<1>4. Boot'
  BY <1>1 DEF Boot
<1> QED
  BY <1>2, <1>3, <1>4 DEF IInv

(* A tick ends a transition's step, closes a killed book or places at most *)
(* one order.                                                              *)
LEMMA TickInv ==
  ASSUME IInv, NEW t \in Ticks, Tick(t), UNCHANGED deployment
  PROVE  IInv'
<1> DEFINE risk == Evaluate(t)
<1>1. /\ t.market \in Markets /\ risk \in RiskStates
      /\ risk.kill \in BOOLEAN /\ Freezes(t, risk) \in BOOLEAN
  BY TickTypes
<1> HIDE DEF risk
<1>2. CASE /\ transitioning
           /\ MaybeCompleteTransition(orders, venue, position, fillAge, risk)
           /\ UNCHANGED confidence
  BY <1>1, <1>2, CompletionKeepsInv DEF IInv, TypeOK
<1>3. CASE /\ ~transitioning
           /\ lastRisk' = risk
           /\ \/ OnRisk(TRUE)
              \/ OnIntent(t.market, Freezes(t, risk))
           /\ UNCHANGED <<cycleVars, transitionAge, fillAge, position, confidence>>
  <2>1. /\ Book(orders, venue)' /\ Closing(orders)' /\ held' \in SUBSET ExecIds
        /\ omsKill' \in BOOLEAN
        /\ bought' \in SUBSET Sides /\ cooling' \in BOOLEAN
    <3>1. CASE OnRisk(TRUE)
      BY <1>3, <3>1, OnRiskKeepsBook
      DEF IInv, TypeOK, OmsTypeOK, cycleVars, strategyVars
    <3>2. CASE OnIntent(t.market, Freezes(t, risk))
      BY <1>1, <3>2, OnIntentKeepsBook DEF IInv, TypeOK, OmsTypeOK
    <3> QED
      BY <1>3, <3>1, <3>2
  <2>2. TypeOK'
    BY <1>1, <1>3, <2>1 DEF IInv, TypeOK, OmsTypeOK, Book, BookTyped, cycleVars,
                             strategyVars
  <2>3. Emptied(orders)' /\ Boot'
    BY <1>3 DEF Tick, Emptied, Boot, cycleVars
  <2> QED
    BY <2>1, <2>2, <2>3 DEF IInv
<1> QED
  BY <1>2, <1>3 DEF Tick, risk

(* An update changes one order and may then end the transition.            *)
LEMMA OrderUpdateInv ==
  ASSUME IInv, NEW c \in OrderIds, OrderUpdate(c), UNCHANGED deployment
  PROVE  IInv'
<1> PICK k \in deployment.keys, s \in Reported(c) :
      \/ /\ transitioning
         /\ MaybeCompleteTransition(Updated(orders, Update(c, k, s)), venue,
                                    position, fillAge, lastRisk)
      \/ /\ ~transitioning
         /\ orders' = Updated(orders, Update(c, k, s))
         /\ UNCHANGED <<omsKill, held, strategyVars, venue, cycleVars,
                        transitionAge, fillAge, lastRisk, position>>
  BY DEF OrderUpdate, Update
<1> DEFINE ords == Updated(orders, Update(c, k, s))
<1>1. /\ deployment.trading /\ deployment \in Deployments
      /\ UNCHANGED confidence /\ venue[c].phase # "sent" /\ orders[c] # NoOrder
  BY DEF OrderUpdate, IInv, TypeOK, OmsTypeOK
<1>2. Book(ords, venue) /\ ("client" \notin deployment.keys => ords = orders)
  BY <1>1, UpdateKeepsBook DEF IInv
<1> HIDE DEF ords
<1>3. Closing(ords) /\ Emptied(ords)
  BY <1>1, <1>2 DEF IInv, Closing, Emptied
<1>4. CASE /\ transitioning
           /\ MaybeCompleteTransition(ords, venue, position, fillAge, lastRisk)
  BY <1>1, <1>2, <1>3, <1>4, CompletionKeepsInv DEF IInv, TypeOK
<1>5. CASE /\ ~transitioning
           /\ orders' = ords
           /\ UNCHANGED <<omsKill, held, strategyVars, venue, cycleVars,
                          transitionAge, fillAge, lastRisk, position>>
  <2>1. Book(orders, venue)'
    BY <1>2, <1>5 DEF Book, BookTyped, OwnIds, Covered, Single, OwnStates, Simulated
  <2>2. TypeOK'
    BY <1>1, <1>5, <2>1 DEF IInv, TypeOK, OmsTypeOK, Book, BookTyped, cycleVars,
                             strategyVars
  <2>3. Closing(orders)' /\ Emptied(orders)' /\ Boot'
    BY <1>1, <1>3, <1>5 DEF IInv, Closing, Emptied, Boot, cycleVars
  <2> QED
    BY <2>1, <2>2, <2>3 DEF IInv
<1> QED
  BY <1>4, <1>5 DEF ords

(* A fill takes its order off the venue and may then end the transition.   *)
LEMMA FillInv ==
  ASSUME IInv, NEW c \in OrderIds, Fill(c), UNCHANGED deployment
  PROVE  IInv'
<1> DEFINE v == [venue EXCEPT ![c] = NoRequest]
           p == position \cup {venue[c].market}
<1>1. venue[c].phase = "filled" /\ venue[c] \in Request
  BY DEF Fill, IInv, Book, BookTyped, NoRequest
<1>2. /\ p \in SUBSET Markets /\ confidence' \in {70, 90}
  BY <1>1 DEF Fill, RaiseConfidence, IInv, TypeOK, Request
<1>3. Book(orders, v)
  BY <1>1 DEF IInv, Book, BookTyped, Covered, NoRequest
<1>4. \/ /\ transitioning
         /\ MaybeCompleteTransition(orders, v, p, 0, lastRisk)
      \/ /\ ~transitioning
         /\ venue' = v /\ position' = p
         /\ UNCHANGED <<orders, omsKill, held, strategyVars, cycleVars,
                        transitionAge, fillAge, lastRisk>>
  BY DEF Fill
<1> HIDE DEF v, p
<1>5. CASE /\ transitioning
           /\ MaybeCompleteTransition(orders, v, p, 0, lastRisk)
  <2>1. 0 \in 0..QuietWindow + 1
    BY EngineAssumption
  <2> QED
    BY <1>2, <1>3, <1>5, <2>1, CompletionKeepsInv DEF IInv, TypeOK
<1>6. CASE /\ ~transitioning
           /\ venue' = v /\ position' = p
           /\ UNCHANGED <<orders, omsKill, held, strategyVars, cycleVars,
                          transitionAge, fillAge, lastRisk>>
  <2>1. Book(orders, venue)'
    BY <1>3, <1>6 DEF Book, BookTyped, OwnIds, Covered, Single, OwnStates, Simulated
  <2>2. TypeOK'
    BY <1>2, <1>6, <2>1 DEF IInv, TypeOK, OmsTypeOK, Book, BookTyped, cycleVars,
                             strategyVars
  <2>3. Closing(orders)' /\ Emptied(orders)'
    BY <1>6 DEF IInv, Closing, Emptied, cycleVars
  <2>4. Boot'
    BY <1>6 DEF Fill, IInv, Boot, cycleVars
  <2> QED
    BY <2>1, <2>2, <2>3, <2>4 DEF IInv
<1> QED
  BY <1>4, <1>5, <1>6

(* A risk event of the adapter is one call of OnRisk.                      *)
LEMMA RiskEventInv ==
  ASSUME IInv, NEW r \in AdapterRisks, RiskEvent(r), UNCHANGED deployment
  PROVE  IInv'
<1>1. r \in RiskStates /\ r.kill \in BOOLEAN
  <2>1. r \in RiskStates
    BY RiskTypes DEF AdapterRisks, Calm
  <2> QED
    BY <2>1 DEF RiskStates
<1>2. /\ lastRisk' = r /\ currentMarketID # NoMarket
      /\ UNCHANGED <<cycleVars, transitionAge, fillAge, position, confidence>>
  BY DEF RiskEvent
<1>3. /\ Book(orders, venue)' /\ Closing(orders)' /\ Emptied(orders)'
      /\ omsKill' \in BOOLEAN /\ UNCHANGED <<held, strategyVars>>
  BY <1>1, <1>2, OnRiskKeepsBook DEF RiskEvent, IInv, cycleVars
<1>4. TypeOK'
  BY <1>1, <1>2, <1>3 DEF IInv, TypeOK, OmsTypeOK, Book, BookTyped, cycleVars,
                             strategyVars
<1>5. Boot'
  BY <1>2 DEF IInv, Boot, cycleVars
<1> QED
  BY <1>3, <1>4, <1>5 DEF IInv

(* The clock moves nothing but the two ages, within their bounds.          *)
LEMMA ElapseInv ==
  ASSUME IInv, Elapse, UNCHANGED deployment
  PROVE  IInv'
<1>1. UNCHANGED <<orders, omsKill, held, strategyVars, venue, cycleVars,
                  lastRisk, position, confidence>>
  BY DEF Elapse
<1>2. Book(orders, venue)'
  BY <1>1 DEF IInv, Book, BookTyped, OwnIds, Covered, Single, OwnStates, Simulated
<1>3. /\ transitionAge' \in 0..TransitionTimeout + 1
      /\ fillAge' \in 0..QuietWindow + 1
  BY EngineAssumption DEF Elapse, IInv, TypeOK, Quiet
<1>4. TypeOK'
  BY <1>1, <1>2, <1>3 DEF IInv, TypeOK, OmsTypeOK, Book, BookTyped, cycleVars,
                             strategyVars
<1>5. Closing(orders)' /\ Emptied(orders)' /\ Boot'
  BY <1>1 DEF IInv, Closing, Emptied, Boot, cycleVars
<1> QED
  BY <1>2, <1>4, <1>5 DEF IInv

(* The goroutines, the venue and the timers leave the engine's own state   *)
(* alone.                                                                  *)
LEMMA OutsideInv ==
  ASSUME IInv, Outside, UNCHANGED deployment
  PROVE  IInv'
<1>1. UNCHANGED engineVars
  BY DEF Outside
<1>2. /\ Book(orders, venue)' /\ held' \in SUBSET ExecIds
      /\ cooling' \in {cooling, FALSE} /\ UNCHANGED <<orders, omsKill, bought>>
  BY OutsideKeepsBook DEF IInv, TypeOK, OmsTypeOK
<1>3. TypeOK'
  BY <1>1, <1>2 DEF IInv, TypeOK, OmsTypeOK, Book, BookTyped, engineVars
<1>4. Closing(orders)' /\ Emptied(orders)'
  BY <1>1, <1>2 DEF IInv, Closing, Emptied, engineVars
<1>5. Boot'
  <2>1. currentMarketID = NoMarket => ~Outside \/ UNCHANGED venue
    BY DEF Outside, IInv, Boot, PlaceReturns, VenueFills, WindowCloses, CooldownEnds,
           NoRequest
  <2> QED
    BY <1>1, <1>2, <2>1 DEF IInv, Boot, engineVars
<1> QED
  BY <1>2, <1>3, <1>4, <1>5 DEF IInv

(* Every step keeps the invariant: one case per action.                    *)
LEMMA NextInv == IInv /\ [Next]_vars => IInv'
<1> SUFFICES ASSUME IInv, [Next]_vars PROVE IInv'
  OBVIOUS
<1>1. CASE Next
  <2>1. ASSUME NEW m \in Markets, FirstSnapshot(m) PROVE IInv'
    BY <1>1, <2>1, FirstSnapshotInv DEF Next
  <2>2. ASSUME NEW m \in Markets, NewSnapshot(m) PROVE IInv'
    BY <1>1, <2>2, NewSnapshotInv DEF Next
  <2>3. ASSUME NEW t \in Ticks, Tick(t) PROVE IInv'
    BY <1>1, <2>3, TickInv DEF Next
  <2>4. ASSUME NEW c \in OrderIds, OrderUpdate(c) PROVE IInv'
    BY <1>1, <2>4, OrderUpdateInv DEF Next
  <2>5. ASSUME NEW c \in OrderIds, Fill(c) PROVE IInv'
    BY <1>1, <2>5, FillInv DEF Next
  <2>6. ASSUME NEW r \in AdapterRisks, RiskEvent(r) PROVE IInv'
    BY <1>1, <2>6, RiskEventInv DEF Next
  <2>7. CASE Elapse
    BY <1>1, <2>7, ElapseInv DEF Next
  <2>8. CASE Outside
    BY <1>1, <2>8, OutsideInv DEF Next
  <2> QED
    BY <1>1, <2>1, <2>2, <2>3, <2>4, <2>5, <2>6, <2>7, <2>8 DEF Next
<1>2. CASE UNCHANGED vars
  <2>1. Book(orders, venue)'
    BY <1>2 DEF vars, IInv, Book, BookTyped, OwnIds, Covered, Single, OwnStates, Simulated
  <2>2. TypeOK'
    BY <1>2 DEF vars, IInv, TypeOK, OmsTypeOK
  <2>3. Closing(orders)' /\ Emptied(orders)' /\ Boot'
    BY <1>2 DEF vars, IInv, Closing, Emptied, Boot
  <2> QED
    BY <2>1, <2>2, <2>3 DEF IInv
<1> QED
  BY <1>1, <1>2

-----------------------------------------------------------------------------
(* The inductive invariant holds in every reachable state.                 *)
THEOREM Invariance == Spec => []IInv
<1>1. Init => IInv
  BY InitInv
<1>2. IInv /\ [Next]_vars => IInv'
  BY NextInv
<1> QED
  BY <1>1, <1>2, PTL DEF Spec

(* Every variable of the engine and its OMS keeps its type.                *)
THEOREM TypeCorrect == Spec => []TypeOK
<1>1. IInv => TypeOK
  BY DEF IInv
<1> QED
  BY <1>1, Invariance, PTL

(* Through lost answers, failed cancels, timeouts and switches, with any   *)
(* adapter that reports truthfully, nothing at the venue is unknown to the *)
(* OMS (oms.go:197-209).                                                   *)
THEOREM NothingOrphaned == Spec => []NoOrphans
<1>1. IInv => NoOrphans
  BY DEF IInv, Book, Covered, NoOrphans, InPlay
<1> QED
  BY <1>1, Invariance, PTL

(* "Keep at most one open order" (oms.go:317).                             *)
THEOREM AtMostOneOpen == Spec => []OneOpenOrder
<1>1. IInv => OneOpenOrder
  BY DEF IInv, Book, Single, OneOpenOrder, Open
<1> QED
  BY <1>1, Invariance, PTL

(* A simulated transition starts with a closed book and keeps it closed    *)
(* (engine.go:111-119, oms.go:545-553).                                    *)
THEOREM SimulationClosed == Spec => []SimulationClosesAtOnce
<1>1. IInv => SimulationClosesAtOnce
  BY DEF IInv, Emptied, SimulationClosesAtOnce, HasOpenOrders, Open
<1> QED
  BY <1>1, Invariance, PTL

(* An adapter that knows only the exchange's ids drives no order           *)
(* (oms.go:442, 471-484).                                                  *)
THEOREM UpdatesReachNothing == Spec => []OnlyOwnStates
<1>1. IInv => OnlyOwnStates
  <2> SUFFICES ASSUME IInv, "client" \notin deployment.keys,
                      NEW c \in OrderIds, orders[c] # NoOrder
               PROVE  /\ orders[c].state \in {"NEW", "CANCELING", "CANCELED"}
                      /\ orders[c].xid = NoId
    BY DEF OnlyOwnStates
  <2>1. orders[c] \in Order
    BY DEF IInv, Book, BookTyped
  <2>2. orders[c].state # "NONE"
    BY <2>1 DEF Order, OrderStates, OpenStates, ClosedStates
  <2> QED
    BY <2>2 DEF IInv, Book, OwnStates
<1> QED
  BY <1>1, Invariance, PTL

(* Under a kill no order is left without its cancel request                *)
(* (oms.go:216-221).                                                       *)
THEOREM KillClosesBook == Spec => []KilledBookIsClosing
<1>1. IInv => KilledBookIsClosing
  BY DEF IInv, Closing, KilledBookIsClosing
<1> QED
  BY <1>1, Invariance, PTL

-----------------------------------------------------------------------------
(* No cancel and no end of a transition sends an order.                    *)
LEMMA CancelSendsNothing ==
  ASSUME NEW ords, NEW v, NEW targets, CancelOrders(ords, v, targets)
  PROVE  \A c \in OrderIds : venue'[c].phase = "sent" => v[c].phase = "sent"
<1>1. PICK gone \in SUBSET {c \in targets : v[c].phase = "live"} :
        venue' = [c \in OrderIds |-> IF c \in gone THEN NoRequest ELSE v[c]]
  BY DEF CancelOrders
<1> QED
  BY <1>1 DEF NoRequest

(* No end of a transition sends an order.                                  *)
LEMMA CompletionSendsNothing ==
  ASSUME NEW ords, NEW v, NEW p, NEW age, NEW risk,
         MaybeCompleteTransition(ords, v, p, age, risk)
  PROVE  \A c \in OrderIds : venue'[c].phase = "sent" => v[c].phase = "sent"
<1>1. \/ venue' = v
      \/ CancelAllOpen(ords, v)
  BY DEF MaybeCompleteTransition, ApplyNewCycle, ResetPosition
<1> QED
  BY <1>1, CancelSendsNothing DEF CancelAllOpen

(* An order leaves only outside a transition, free of a kill or a freeze,  *)
(* and into an empty book unless a strategy decides (engine.go:170-182,    *)
(* oms.go:238-247, 318).                                                   *)
THEOREM PermissionNeeded == Spec => OrdersNeedPermission
<1> DEFINE Permitted == /\ ~transitioning /\ ~transitioning'
                        /\ ~omsKill /\ ~lastRisk'.kill /\ ~lastRisk'.freeze
                        /\ deployment.strategy = "none" => ~HasOpenOrders(orders)
<1>1. ASSUME IInv, Next, SendsOrder
      PROVE  Permitted
  <2> PICK c \in OrderIds : venue[c].phase = "none" /\ venue'[c].phase = "sent"
    BY <1>1 DEF SendsOrder
  <2>1. ~UNCHANGED venue
    OBVIOUS
  <2>2. ASSUME NEW m \in Markets, FirstSnapshot(m) \/ NewSnapshot(m) PROVE FALSE
    <3>1. UNCHANGED venue \/ CancelAllOpen(orders, venue)
      BY <2>2 DEF FirstSnapshot, ApplyNewCycle, ResetPosition, NewSnapshot
    <3> QED
      BY <2>1, <3>1, CancelSendsNothing DEF CancelAllOpen
  <2>3. ASSUME NEW t \in Ticks, Tick(t) PROVE Permitted
    <3> DEFINE risk == Evaluate(t)
    <3>1. risk.kill \in BOOLEAN /\ risk.freeze \in BOOLEAN
      BY TickTypes
    <3> HIDE DEF risk
    <3>2. ~MaybeCompleteTransition(orders, venue, position, fillAge, risk)
      BY CompletionSendsNothing
    <3>3. ~CancelAllOpen(orders, venue)
      BY CancelSendsNothing DEF CancelAllOpen
    <3>4. /\ ~transitioning /\ lastRisk' = risk /\ ~risk.kill
          /\ UNCHANGED cycleVars
          /\ OnIntent(t.market, Freezes(t, risk))
      BY <2>1, <2>3, <3>2, <3>3 DEF Tick, OnRisk, risk
    <3>5. ~omsKill /\ ~Freezes(t, risk) /\ ExecuteIntent(t.market)
      BY <2>1, <3>3, <3>4 DEF OnIntent
    <3>6. \A d \in OrderIds : ~CancelOrders(orders, venue, {d})
      BY CancelSendsNothing
    <3>7. deployment.strategy = "none" => ~HasOpenOrders(orders)
      BY <2>1, <3>5, <3>6 DEF ExecuteIntent, ExecuteSimple, Open
    <3> QED
      BY <3>1, <3>4, <3>5, <3>7 DEF cycleVars, Freezes
  <2>4. ASSUME NEW d \in OrderIds, OrderUpdate(d) PROVE FALSE
    <3>1. PICK ords : \/ UNCHANGED venue
                      \/ MaybeCompleteTransition(ords, venue, position,
                                                 fillAge, lastRisk)
      BY <2>4 DEF OrderUpdate
    <3> QED
      BY <2>1, <3>1, CompletionSendsNothing
  <2>5. ASSUME NEW d \in OrderIds, Fill(d) PROVE FALSE
    <3> DEFINE v == [venue EXCEPT ![d] = NoRequest]
    <3>1. v[c].phase # "sent"
      BY <1>1 DEF NoRequest, IInv, Book, BookTyped
    <3>2. venue' = v \/ MaybeCompleteTransition(orders, v,
            position \cup {venue[d].market}, 0, lastRisk)
      BY <2>5 DEF Fill
    <3> HIDE DEF v
    <3> QED
      BY <3>1, <3>2, CompletionSendsNothing
  <2>6. ASSUME NEW r \in AdapterRisks, RiskEvent(r) PROVE FALSE
    <3>1. UNCHANGED venue \/ CancelAllOpen(orders, venue)
      BY <2>6 DEF RiskEvent, OnRisk
    <3> QED
      BY <2>1, <3>1, CancelSendsNothing DEF CancelAllOpen
  <2>7. ~Elapse
    BY <2>1 DEF Elapse
  <2>8. CASE Outside
    <3>1. ASSUME NEW d \in OrderIds, PlaceReturns(d) PROVE FALSE
      <4>1. \/ venue' = [venue EXCEPT ![d] = NoRequest]
            \/ \E ph \in {"live", "filled"} : venue' = [venue EXCEPT ![d].phase = ph]
        BY <3>1 DEF PlaceReturns
      <4>2. /\ venue[d] \in Request /\ DOMAIN venue = OrderIds
        BY <1>1, <3>1 DEF PlaceReturns, NoRequest, IInv, Book, BookTyped
      <4>3. venue'[d].phase # "sent"
        BY <4>1, <4>2 DEF NoRequest, Request
      <4>4. c # d => venue'[c] = venue[c]
        BY <4>1, <4>2
      <4> QED
        BY <4>3, <4>4
    <3>2. ASSUME NEW d \in OrderIds, VenueFills(d) PROVE FALSE
      <4>1. /\ venue[d] \in Request /\ DOMAIN venue = OrderIds
        BY <1>1, <3>2 DEF VenueFills, NoRequest, IInv, Book, BookTyped
      <4> QED
        BY <3>2, <4>1 DEF VenueFills, Request
    <3> QED
      BY <2>1, <2>8, <3>1, <3>2 DEF Outside, WindowCloses, CooldownEnds
  <2> QED
    BY <1>1, <2>2, <2>3, <2>4, <2>5, <2>6, <2>7, <2>8 DEF Next
<1>2. IInv /\ [Next]_vars => [SendsOrder => Permitted]_vars
  BY <1>1 DEF vars
<1> QED
  BY <1>2, Invariance, PTL DEF Spec, OrdersNeedPermission

(* A transition that switches to its market has found no order of the old  *)
(* one in play.                                                            *)
LEMMA CompletionFindsBookClosed ==
  ASSUME NEW ords, NEW v, NEW p, NEW age, NEW risk, Book(ords, v),
         MaybeCompleteTransition(ords, v, p, age, risk),
         currentMarketID' # currentMarketID,
         deployment.trading, deployment.truthful, NEW c \in OrderIds
  PROVE  v[c].phase \notin {"sent", "live"}
<1>1. ~HasOpenOrders(ords)
  BY DEF MaybeCompleteTransition, cycleVars
<1> QED
  BY <1>1 DEF Book, Covered, HasOpenOrders, Open

(* A cycle is never left with an order of it in play (engine.go:286-319).  *)
THEOREM SwitchIsClean == Spec => SwitchFindsBookClosed
<1> DEFINE Switch == /\ currentMarketID' # currentMarketID
                     /\ deployment.trading /\ deployment.truthful
           Closed == \A c \in OrderIds : ~InPlay(c)
<1>1. ASSUME IInv, Next, Switch
      PROVE  Closed
  <2>1. Book(orders, venue) /\ deployment \in Deployments
    BY <1>1 DEF IInv, TypeOK, OmsTypeOK
  <2>2. ASSUME NEW m \in Markets, FirstSnapshot(m) PROVE Closed
    BY <1>1, <2>2 DEF FirstSnapshot, IInv, Boot, InPlay, NoRequest
  <2>3. ASSUME NEW t \in Ticks, Tick(t) PROVE Closed
    <3>1. MaybeCompleteTransition(orders, venue, position, fillAge, Evaluate(t))
      BY <1>1, <2>3 DEF Tick, cycleVars
    <3> QED
      BY <1>1, <2>1, <3>1, CompletionFindsBookClosed DEF InPlay
  <2>4. ASSUME NEW d \in OrderIds, OrderUpdate(d) PROVE Closed
    <3> PICK k \in deployment.keys, s \in Reported(d) :
          MaybeCompleteTransition(Updated(orders, Update(d, k, s)), venue,
                                  position, fillAge, lastRisk)
      BY <1>1, <2>4 DEF OrderUpdate, Update, cycleVars
    <3>1. Book(Updated(orders, Update(d, k, s)), venue)
      BY <2>1, <2>4, UpdateKeepsBook DEF OrderUpdate
    <3> QED
      BY <1>1, <3>1, CompletionFindsBookClosed DEF InPlay
  <2>5. ASSUME NEW d \in OrderIds, Fill(d) PROVE Closed
    <3> DEFINE v == [venue EXCEPT ![d] = NoRequest]
    <3>1. MaybeCompleteTransition(orders, v, position \cup {venue[d].market},
                                  0, lastRisk)
      BY <1>1, <2>5 DEF Fill, cycleVars
    <3>2. /\ venue[d].phase = "filled" /\ DOMAIN venue = OrderIds
          /\ \A c \in OrderIds \ {d} : v[c] = venue[c]
      BY <2>1, <2>5 DEF Fill, Book, BookTyped
    <3>3. Book(orders, v)
      BY <2>1, <3>2 DEF Book, BookTyped, Covered, NoRequest
    <3> HIDE DEF v
    <3>4. \A c \in OrderIds : v[c].phase \notin {"sent", "live"}
      BY <1>1, <3>1, <3>3, CompletionFindsBookClosed
    <3> QED
      BY <3>2, <3>4 DEF InPlay
  <2> QED
    BY <1>1, <2>2, <2>3, <2>4, <2>5
    DEF Next, NewSnapshot, RiskEvent, Elapse, Outside, cycleVars, engineVars
<1>2. IInv /\ [Next]_vars => [Switch => Closed]_vars
  BY <1>1 DEF vars
<1> QED
  BY <1>2, Invariance, PTL DEF Spec, SwitchFindsBookClosed

-----------------------------------------------------------------------------
(* What OneBuyPerSide rests on: a side with an order in the table has been *)
(* recorded as bought, and no handler but Reset takes an order out of the  *)
(* table or changes its side.                                              *)
Once(ords, sides) ==
  deployment.strategy = "simple_threshold" =>
    /\ \A c \in OrderIds : ords[c] # NoOrder => ords[c].side \in sides
    /\ \A c, d \in OrderIds :
         ords[c] # NoOrder /\ ords[d] # NoOrder /\ ords[c].side = ords[d].side
           => c = d

SameSides(before, after) ==
  \A c \in OrderIds : /\ after[c] # NoOrder <=> before[c] # NoOrder
                      /\ after[c].side = before[c].side

(* A cancel keeps every order in the table, with its side.                 *)
LEMMA CancelKeepsSides ==
  ASSUME NEW ords, NEW v, NEW targets \in SUBSET Open(ords), BookTyped(ords, v),
         CancelOrders(ords, v, targets)
  PROVE  SameSides(ords, orders')
<1>1. \A c \in OrderIds :
        /\ ords[c] \in Order \cup {NoOrder}
        /\ c \in targets => ords[c] \in Order
  BY DEF BookTyped, Open, NoOrder, OpenStates
<1>2. PICK ok :
        orders' = [c \in OrderIds |->
          IF c \notin targets THEN ords[c]
          ELSE IF deployment.trading /\ c \notin ok
               THEN [ords[c] EXCEPT !.state = "CANCELING"]
               ELSE [ords[c] EXCEPT !.state = "CANCELED"]]
  BY DEF CancelOrders
<1>3. ASSUME NEW c \in targets
      PROVE  /\ ords[c] # NoOrder /\ orders'[c] # NoOrder
             /\ orders'[c].side = ords[c].side
  <2>1. c \in OrderIds /\ ords[c] \in Order
    BY <1>1 DEF Open
  <2>2. orders'[c].state \in {"CANCELING", "CANCELED"} /\ orders'[c].side = ords[c].side
    BY <1>2, <2>1 DEF Order
  <2> QED
    BY <2>1, <2>2 DEF Order, OrderStates, OpenStates, ClosedStates, NoOrder
<1>4. \A c \in OrderIds \ targets : orders'[c] = ords[c]
  BY <1>2
<1> QED
  BY <1>3, <1>4 DEF SameSides

(* An update keeps every order in the table, with its side.                *)
LEMMA UpdateKeepsSides ==
  ASSUME NEW ords, NEW v, BookTyped(ords, v), NEW u, u.state # "NONE"
  PROVE  SameSides(ords, Updated(ords, u))
<1> SUFFICES ASSUME NEW c \in OrderIds
             PROVE  /\ Updated(ords, u)[c] # NoOrder <=> ords[c] # NoOrder
                    /\ Updated(ords, u)[c].side = ords[c].side
  BY DEF SameSides
<1>1. ords[c] = NoOrder \/ ords[c] \in Order
  BY DEF BookTyped
<1>2. CASE Updated(ords, u)[c] = ords[c]
  BY <1>2
<1>3. CASE Updated(ords, u)[c] # ords[c]
  <2>1. /\ ords[c] # NoOrder
        /\ \E x : Updated(ords, u)[c] = [ords[c] EXCEPT !.state = u.state, !.xid = x]
    BY <1>3 DEF Updated
  <2>2. Updated(ords, u)[c].state = u.state /\ Updated(ords, u)[c].side = ords[c].side
    BY <1>1, <2>1 DEF Order
  <2>3. NoOrder.state = "NONE"
    BY DEF NoOrder
  <2>4. Updated(ords, u)[c] # NoOrder
    BY <2>2, <2>3
  <2> QED
    BY <2>1, <2>2, <2>4
<1> QED
  BY <1>2, <1>3

(* The end of a transition keeps the table or empties it.                  *)
LEMMA CompletionKeepsOnce ==
  ASSUME NEW ords, NEW v, NEW p, NEW age, NEW risk, BookTyped(ords, v),
         Once(ords, bought), UNCHANGED deployment,
         MaybeCompleteTransition(ords, v, p, age, risk)
  PROVE  Once(orders, bought)'
<1>1. \/ orders' = ords /\ bought' = bought
      \/ CancelAllOpen(ords, v) /\ bought' = bought
      \/ orders' = EmptyBook
  BY DEF MaybeCompleteTransition, ApplyNewCycle, Reset, strategyVars
<1>2. CASE CancelAllOpen(ords, v) /\ bought' = bought
  <2>1. SameSides(ords, orders')
    BY <1>2, CancelKeepsSides
    DEF CancelAllOpen, Open, OpenStates, CancelableStates
  <2> QED
    BY <1>2, <2>1 DEF Once, SameSides
<1>3. CASE orders' = EmptyBook
  BY <1>3 DEF Once, EmptyBook
<1> QED
  BY <1>1, <1>2, <1>3 DEF Once

(* simple_threshold records the sides it asks for before it asks.          *)
LEMMA SimpleThresholdKeepsOnce ==
  ASSUME NEW m, NEW ds, \A d, e \in ds : d.side = e.side => d = e,
         SimpleThreshold(m, ds), Once(orders, bought), UNCHANGED deployment
  PROVE  Once(orders, bought)'
<1> DEFINE asked == {d \in ds : d.side \notin bought}
<1>1. PICK new \in [OrderIds -> Taken(asked) \cup {None}] :
        /\ \A c \in OrderIds : new[c] # None =>
             \A b \in OrderIds : new[b] = new[c] => b = c
        /\ orders' = [c \in OrderIds |->
             IF new[c] = None THEN orders[c]
             ELSE [state |-> "NEW", xid |-> NoId,
                   side |-> new[c].side, price |-> new[c].price]]
  BY DEF SimpleThreshold, PlaceOrders
<1>2. \A c \in OrderIds : new[c] # None =>
        new[c] \in ds /\ new[c].side \notin bought
  BY <1>1 DEF Taken
<1>3. \A c \in OrderIds :
        orders'[c].side = IF new[c] = None THEN orders[c].side ELSE new[c].side
  BY <1>1
<1>4. \A c \in OrderIds : new[c] = None => orders'[c] = orders[c]
  BY <1>1
<1>5. bought' = bought \cup {d.side : d \in ds}
  BY DEF SimpleThreshold
<1> SUFFICES ASSUME deployment.strategy = "simple_threshold"
             PROVE  Once(orders, bought)'
  BY DEF Once
<1>6. ASSUME NEW c \in OrderIds, orders'[c] # NoOrder
      PROVE  orders'[c].side \in bought'
  BY <1>2, <1>3, <1>4, <1>5, <1>6 DEF Once
<1>7. ASSUME NEW c \in OrderIds, NEW d \in OrderIds, orders'[c] # NoOrder,
             orders'[d] # NoOrder, orders'[c].side = orders'[d].side
      PROVE  c = d
  <2>1. CASE new[c] = None /\ new[d] = None
    BY <1>3, <1>4, <1>7, <2>1 DEF Once
  <2>2. CASE new[c] # None /\ new[d] # None
    BY <1>1, <1>2, <1>3, <1>7, <2>2
  <2>3. CASE (new[c] = None) # (new[d] = None)
    BY <1>2, <1>3, <1>4, <1>7, <2>3 DEF Once
  <2> QED
    BY <2>1, <2>2, <2>3
<1> QED
  BY <1>6, <1>7 DEF Once

(* Every step keeps it: only simple_threshold itself adds an order.        *)
LEMMA NextKeepsOnce ==
  ASSUME IInv, Once(orders, bought), [Next]_vars
  PROVE  Once(orders, bought)'
<1>1. BookTyped(orders, venue)
  BY DEF IInv, Book
<1>2. ASSUME UNCHANGED <<deployment, orders, bought>>
      PROVE  Once(orders, bought)'
  BY <1>2 DEF Once
<1>3. ASSUME UNCHANGED <<deployment, bought>>, SameSides(orders, orders')
      PROVE  Once(orders, bought)'
  BY <1>3 DEF Once, SameSides
<1>4. ASSUME CancelAllOpen(orders, venue)
      PROVE  SameSides(orders, orders')
  BY <1>1, <1>4, CancelKeepsSides DEF CancelAllOpen, Open, OpenStates, CancelableStates
<1>5. CASE Next
  <2> UNCHANGED deployment
    BY <1>5 DEF Next
  <2>1. ASSUME NEW m \in Markets, FirstSnapshot(m)
        PROVE  Once(orders, bought)'
    BY <2>1 DEF FirstSnapshot, ApplyNewCycle, Reset, EmptyBook, Once
  <2>2. ASSUME NEW m \in Markets, NewSnapshot(m)
        PROVE  Once(orders, bought)'
    BY <1>2, <1>3, <1>4, <2>2 DEF NewSnapshot, strategyVars
  <2>3. ASSUME NEW t \in Ticks, Tick(t)
        PROVE  Once(orders, bought)'
    <3>1. CASE MaybeCompleteTransition(orders, venue, position, fillAge, Evaluate(t))
      BY <1>1, <3>1, CompletionKeepsOnce
    <3>2. CASE OnRisk(TRUE)
      BY <1>3, <1>4, <3>2 DEF OnRisk, strategyVars
    <3>3. CASE OnIntent(t.market, Freezes(t, Evaluate(t)))
      <4>1. CASE UNCHANGED <<orders, strategyVars>>
        BY <1>2, <4>1 DEF strategyVars
      <4>2. CASE CancelAllOpen(orders, venue) /\ UNCHANGED strategyVars
        BY <1>3, <1>4, <4>2 DEF strategyVars
      <4>3. CASE deployment.strategy # "simple_threshold"
        BY <4>3 DEF Once
      <4>4. CASE /\ deployment.strategy = "simple_threshold"
                 /\ ExecuteIntent(t.market)
                 /\ ~UNCHANGED <<orders, strategyVars>>
        <5>1. PICK ds \in SUBSET Decisions :
                /\ \A d, e \in ds : d.side = e.side => d = e
                /\ SimpleThreshold(t.market, ds)
          BY <4>4 DEF ExecuteIntent
        <5> QED
          BY <5>1, SimpleThresholdKeepsOnce
      <4> QED
        BY <3>3, <4>1, <4>2, <4>3, <4>4 DEF OnIntent
    <3> QED
      BY <2>3, <3>1, <3>2, <3>3 DEF Tick
  <2>4. ASSUME NEW c \in OrderIds, OrderUpdate(c)
        PROVE  Once(orders, bought)'
    <3> PICK k \in deployment.keys, s \in Reported(c) :
          \/ MaybeCompleteTransition(Updated(orders, Update(c, k, s)), venue,
                                     position, fillAge, lastRisk)
          \/ /\ orders' = Updated(orders, Update(c, k, s))
             /\ UNCHANGED strategyVars
      BY <2>4 DEF OrderUpdate, Update
    <3> DEFINE ords == Updated(orders, Update(c, k, s))
    <3>1. Update(c, k, s).state # "NONE"
      BY DEF Update, Reported, Truth
    <3>2. SameSides(orders, ords)
      BY <1>1, <3>1, UpdateKeepsSides
    <3>3. Once(ords, bought)
      BY <3>2 DEF Once, SameSides
    <3>4. BookTyped(ords, venue)
      BY <2>4, UpdateKeepsBook DEF IInv, TypeOK, OmsTypeOK, OrderUpdate, Book
    <3> HIDE DEF ords
    <3>5. CASE MaybeCompleteTransition(ords, venue, position, fillAge, lastRisk)
      BY <3>3, <3>4, <3>5, CompletionKeepsOnce
    <3>6. CASE orders' = ords /\ UNCHANGED strategyVars
      BY <1>3, <3>2, <3>6 DEF strategyVars
    <3> QED
      BY <3>5, <3>6 DEF ords
  <2>5. ASSUME NEW c \in OrderIds, Fill(c)
        PROVE  Once(orders, bought)'
    <3> DEFINE v == [venue EXCEPT ![c] = NoRequest]
    <3>1. CASE MaybeCompleteTransition(orders, v, position \cup {venue[c].market},
                                       0, lastRisk)
      <4>1. BookTyped(orders, v)
        BY <1>1 DEF BookTyped
      <4> HIDE DEF v
      <4> QED
        BY <3>1, <4>1, CompletionKeepsOnce
    <3>2. CASE UNCHANGED <<orders, strategyVars>>
      BY <1>2, <3>2 DEF strategyVars
    <3> QED
      BY <2>5, <3>1, <3>2 DEF Fill
  <2>6. ASSUME NEW r \in AdapterRisks, RiskEvent(r)
        PROVE  Once(orders, bought)'
    BY <1>2, <1>3, <1>4, <2>6 DEF RiskEvent, OnRisk, strategyVars
  <2>7. CASE Elapse
    BY <1>2, <2>7 DEF Elapse, strategyVars
  <2>8. CASE Outside
    BY <1>2, <2>8 DEF Outside, PlaceReturns, VenueFills, WindowCloses, CooldownEnds,
                      strategyVars
  <2> QED
    BY <1>5, <2>1, <2>2, <2>3, <2>4, <2>5, <2>6, <2>7, <2>8 DEF Next
<1>6. CASE UNCHANGED vars
  BY <1>2, <1>6 DEF vars
<1> QED
  BY <1>5, <1>6

(* simple_threshold buys either side at most once in a cycle, whatever     *)
(* became of the order (simple_threshold.go:26-30).                        *)
THEOREM OncePerSide == Spec => []OneBuyPerSide
<1>1. Init => Once(orders, bought)
  BY DEF Init, OmsInit, EmptyBook, Once
<1>2. IInv /\ Once(orders, bought) /\ [Next]_vars => Once(orders, bought)'
  BY NextKeepsOnce
<1>3. Once(orders, bought) => OneBuyPerSide
  BY DEF Once, OneBuyPerSide
<1> QED
  BY <1>1, <1>2, <1>3, Invariance, PTL DEF Spec
=============================================================================
