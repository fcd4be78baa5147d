------------------------------- MODULE Engine -------------------------------
(***************************************************************************)
(* The engine of internal/engine/engine.go: one goroutine that takes       *)
(* events off the bus and runs one handler to its end per event.  It owns  *)
(* the trading cycle (a market, then the next one, with the book closed in *)
(* between) and composes the OMS, the position truth, the risk supervisor  *)
(* and the brain.  What the brain and the risk supervisor compute from a   *)
(* tick is data of the tick here: whether its quality trips the kill       *)
(* switch, whether either of them freezes, which orders are wanted.        *)
(*                                                                         *)
(* The adapter publishes whatever it likes in any order, ticks of markets  *)
(* long left or not yet announced included, except that the first snapshot *)
(* comes first (the polymarket adapter's Start publishes it before it      *)
(* starts a goroutine; Bus has that step by step).                         *)
(***************************************************************************)
EXTENDS Oms

CONSTANTS
  TransitionTimeout, \* 12 s in the code
  QuietWindow        \* 2 s in the code

ASSUME EngineAssumption ==
  /\ TransitionTimeout \in Nat
  /\ QuietWindow \in Nat

VARIABLES
  currentMarketID,
  transitioning,
  pendingSnapshot,  \* the market of the snapshot waiting, or NoMarket
  transitionAge,    \* time since transitionStart, up to the timeout + 1
  fillAge,          \* time since lastFillTs, up to the window + 1 ("never");
                    \* both ages are read, and so kept, in a transition only
  lastRisk,
  position,         \* the markets whose fills the position truth has added
  confidence        \* of the position truth, in percent

cycleVars == <<currentMarketID, transitioning, pendingSnapshot>>
engineVars == <<currentMarketID, transitioning, pendingSnapshot, transitionAge,
                fillAge, lastRisk, position, confidence>>
vars == <<deployment, orders, omsKill, held, bought, cooling, venue,
          currentMarketID, transitioning,
          pendingSnapshot, transitionAge, fillAge, lastRisk, position,
          confidence>>

-----------------------------------------------------------------------------
Risk(kill, freeze) == [kill |-> kill, freeze |-> freeze]
RiskStates == [kill : BOOLEAN, freeze : BOOLEAN]

Calm == Risk(FALSE, FALSE)

Trusted == confidence >= 70

(* A tick: its market, and what the thresholds of the risk supervisor and  *)
(* the brain make of it: poor data, a consensus the supervisor takes as    *)
(* settled, one only the brain does, or a market to trade in.              *)
Ticks == [market : Markets,
          sees : {"bad_data", "consensus", "brain_freeze", "open"}]

(* Supervisor.Evaluate; the circuit breaker it also asks is never told of  *)
(* an execution by anybody, so it is never halted.                         *)
Evaluate(t) ==
  IF t.sees = "bad_data" \/ ~Trusted THEN Risk(TRUE, FALSE)
  ELSE Risk(FALSE, t.sees = "consensus")

(* Decide, as far as the freeze of the intent goes.                        *)
Freezes(t, risk) == risk.freeze \/ t.sees = "brain_freeze"

Quiet(age) == age > QuietWindow

-----------------------------------------------------------------------------
(* Mutant of RaiseConfidence: every fill adds to it.                       *)
RaiseConfidenceUncapped == confidence' = confidence + 20

(* The position truth.  Reset empties the position and, like an order      *)
(* update, raises no confidence that is 70 or more, which it always is;    *)
(* OnFill does raise it, and adds the fill without a look at its market    *)
(* (Fill, which hands the new position on, for a switch may follow).       *)
ResetPosition == position' = {}

RaiseConfidence == confidence' = IF confidence < 90 THEN 90 ELSE confidence

(* applyNewCycle: everything of the old cycle is dropped.  Reset never     *)
(* lowers the confidence, and a confidence is never 0, so the test for a   *)
(* residual position is always met.                                        *)
ApplyNewCycle(v, p, m) ==
  LET residual == p # {} \/ confidence # 0 IN
  /\ Reset
  /\ venue' = v
  /\ ResetPosition
  /\ currentMarketID' = m
  /\ lastRisk' = IF residual
                 THEN Risk(TRUE, TRUE) ELSE Calm

EndTransition ==
  /\ transitioning' = FALSE
  /\ transitionAge' = 0
  /\ fillAge' = QuietWindow + 1

(* Mutant of MaybeCompleteTransition: after the timeout the next cycle     *)
(* begins, whatever is still open.                                         *)
CompleteAnyway(ords, v, p, age, risk) ==
  \/ /\ transitionAge > TransitionTimeout
     /\ ApplyNewCycle(v, p, pendingSnapshot)
     /\ EndTransition
     /\ pendingSnapshot' = NoMarket
  \/ /\ transitionAge <= TransitionTimeout
     /\ CancelAllOpen(ords, v)
     /\ position' = p /\ fillAge' = age /\ lastRisk' = risk
     /\ UNCHANGED <<cycleVars, transitionAge, omsKill, held, strategyVars>>

(* maybeCompleteTransition, as the last call of a handler that has got to  *)
(* the order table ords, the venue v, the position p, the fill age age and *)
(* the risk state risk.                                                    *)
MaybeCompleteTransition(ords, v, p, age, risk) ==
  \/ /\ transitionAge > TransitionTimeout
     /\ EndTransition
     /\ orders' = ords /\ venue' = v /\ position' = p
     /\ lastRisk' = Risk(TRUE, TRUE)
     /\ UNCHANGED <<currentMarketID, pendingSnapshot, omsKill, held, strategyVars>>
  \/ /\ transitionAge <= TransitionTimeout
     /\ HasOpenOrders(ords)
     /\ CancelAllOpen(ords, v)
     /\ position' = p /\ fillAge' = age /\ lastRisk' = risk
     /\ UNCHANGED <<cycleVars, transitionAge, omsKill, held, strategyVars>>
  \/ /\ transitionAge <= TransitionTimeout
     /\ ~HasOpenOrders(ords)
     /\ ~Quiet(age)
     /\ orders' = ords /\ venue' = v
     /\ position' = p /\ fillAge' = age /\ lastRisk' = risk
     /\ UNCHANGED <<cycleVars, transitionAge, omsKill, held, strategyVars>>
  \/ /\ transitionAge <= TransitionTimeout
     /\ ~HasOpenOrders(ords)
     /\ Quiet(age)
     /\ ApplyNewCycle(v, p, pendingSnapshot)
     /\ EndTransition
     /\ pendingSnapshot' = NoMarket

-----------------------------------------------------------------------------
(* The first snapshot is applied at once: there is no book to close.       *)
FirstSnapshot(m) ==
  /\ currentMarketID = NoMarket
  /\ ApplyNewCycle(venue, position, m)
  /\ EndTransition
  /\ pendingSnapshot' = NoMarket
  /\ UNCHANGED confidence

(* Mutant of NewSnapshot: every snapshot restarts the transition's clock.  *)
NewSnapshotRestarts(m) ==
  /\ currentMarketID # NoMarket
  /\ m # currentMarketID
  /\ pendingSnapshot' = m
  /\ transitioning' = TRUE
  /\ transitionAge' = 0
  /\ fillAge' = QuietWindow + 1
  /\ CancelAllOpen(orders, venue)
  /\ UNCHANGED <<currentMarketID, omsKill, held, strategyVars, lastRisk,
                 position, confidence>>

(* A snapshot of another market opens a transition, or replaces the market *)
(* the open transition leads to.                                           *)
NewSnapshot(m) ==
  /\ currentMarketID # NoMarket
  /\ m # currentMarketID
  /\ pendingSnapshot' = m
  /\ \/ /\ transitioning
        /\ UNCHANGED <<transitioning, transitionAge, fillAge, orders, venue>>
     \/ /\ ~transitioning
        /\ transitioning' = TRUE
        /\ transitionAge' = 0
        /\ fillAge' = QuietWindow + 1
        /\ CancelAllOpen(orders, venue)
  /\ UNCHANGED <<currentMarketID, omsKill, held, strategyVars, lastRisk,
                 position, confidence>>

(* A tick, of any market: the handler does not compare it with its own, so *)
(* that one of a reader that was replaced is traded on after the switch.   *)
Tick(t) ==
  LET risk == Evaluate(t) IN
  /\ currentMarketID # NoMarket
  /\ UNCHANGED confidence
  /\ \/ /\ transitioning
        /\ MaybeCompleteTransition(orders, venue, position, fillAge, risk)
     \/ /\ ~transitioning
        /\ lastRisk' = risk
        /\ \/ /\ risk.kill
              /\ OnRisk(TRUE)
           \/ /\ ~risk.kill
              /\ OnIntent(t.market, Freezes(t, risk))
        /\ UNCHANGED <<cycleVars, transitionAge, fillAge, position>>

(* What the venue has to say about an order it has seen; stale updates say *)
(* that it still rests, and a status mapOrderStatus lacks reads "UNKNOWN". *)
(* (The OMS treats PART_FILLED like ACK and REJECTED like CANCELED.)       *)
Truth(c) ==
  CASE venue[c].phase = "live" -> {"ACK"}
    [] venue[c].phase = "filled" -> {"FILLED"}
    [] OTHER -> {"FILLED", "CANCELED"}

Reported(c) ==
  Truth(c) \cup (IF deployment.truthful THEN {}
               ELSE {"ACK", "UNKNOWN"})

(* An order update reaches the engine: c by its client id or by the id the *)
(* exchange gave it (here again c).  The position truth only raises a low  *)
(* confidence, and it is never that low.                                   *)
OrderUpdate(c) ==
  /\ deployment.trading
  /\ orders[c] # NoOrder
  /\ venue[c].phase # "sent"
  /\ \E k \in deployment.keys, s \in Reported(c) :
       LET u == [cid |-> IF k = "client" THEN c ELSE NoId,
                 xid |-> c, state |-> s]
       IN \/ /\ transitioning
             /\ MaybeCompleteTransition(Updated(orders, u), venue, position,
                                        fillAge, lastRisk)
          \/ /\ ~transitioning
             /\ orders' = Updated(orders, u)
             /\ UNCHANGED <<omsKill, held, strategyVars, venue, cycleVars,
                            transitionAge, fillAge, lastRisk, position>>
  /\ UNCHANGED confidence

(* The fill of c reaches the engine.                                       *)
Fill(c) ==
  LET v == [venue EXCEPT ![c] = NoRequest]
      p == position \cup {venue[c].market}
  IN /\ venue[c].phase = "filled"
     /\ currentMarketID # NoMarket
     /\ RaiseConfidence
     /\ \/ /\ transitioning
           /\ MaybeCompleteTransition(orders, v, p, 0, lastRisk)
        \/ /\ ~transitioning
           /\ venue' = v /\ position' = p
           /\ UNCHANGED <<orders, omsKill, held, strategyVars, cycleVars,
                          transitionAge, fillAge, lastRisk>>

(* A risk event from the adapter: market expired (freeze), discovery       *)
(* failed (kill), a poll of orders or trades failed (neither); the polls   *)
(* run with trading enabled only.                                          *)
AdapterRisks ==
  {Risk(FALSE, TRUE), Risk(TRUE, TRUE)}
    \cup (IF deployment.trading THEN {Calm} ELSE {})

RiskEvent(r) ==
  /\ currentMarketID # NoMarket
  /\ lastRisk' = r
  /\ OnRisk(r.kill)
  /\ UNCHANGED <<cycleVars, transitionAge, fillAge, position, confidence>>

-----------------------------------------------------------------------------
(* Time passes; ages stop growing once no test can tell them apart.        *)
Elapse ==
  /\ transitioning
  /\ transitionAge <= TransitionTimeout \/ ~Quiet(fillAge)
  /\ transitionAge' = IF transitionAge <= TransitionTimeout
                      THEN transitionAge + 1 ELSE transitionAge
  /\ fillAge' = IF Quiet(fillAge) THEN fillAge ELSE fillAge + 1
  /\ UNCHANGED <<orders, omsKill, held, strategyVars, venue, cycleVars,
                 lastRisk, position, confidence>>

Outside ==
  /\ \/ \E c \in OrderIds : PlaceReturns(c) \/ VenueFills(c)
     \/ \E id \in ExecIds : WindowCloses(id)
     \/ CooldownEnds
  /\ UNCHANGED engineVars

Init ==
  /\ OmsInit
  /\ currentMarketID = NoMarket
  /\ transitioning = FALSE
  /\ pendingSnapshot = NoMarket
  /\ transitionAge = 0
  /\ fillAge = QuietWindow + 1
  /\ lastRisk = Calm
  /\ position = {}
  /\ confidence = 70

Next ==
  /\ \/ \E m \in Markets : FirstSnapshot(m) \/ NewSnapshot(m)
     \/ \E t \in Ticks : Tick(t)
     \/ \E c \in OrderIds : OrderUpdate(c) \/ Fill(c)
     \/ \E r \in AdapterRisks : RiskEvent(r)
     \/ Elapse
     \/ Outside
  /\ UNCHANGED deployment

Spec == Init /\ [][Next]_vars

(* Where the adapter has a ticker its ticks keep coming; polls keep        *)
(* reporting, the clock runs, and calls to the venue return.  A stream     *)
(* that falls silent, or whose reconnector has given up, owes nothing.     *)
Fairness ==
  /\ WF_vars(/\ deployment.ticker
             /\ \E t \in Ticks : Tick(t)
             /\ UNCHANGED deployment)
  /\ WF_vars(Elapse /\ UNCHANGED deployment)
  /\ \A c \in OrderIds :
       /\ WF_vars(PlaceReturns(c) /\ UNCHANGED engineVars
                                  /\ UNCHANGED deployment)
       /\ WF_vars(OrderUpdate(c) /\ UNCHANGED deployment)
       /\ WF_vars(Fill(c) /\ UNCHANGED deployment)

FairSpec == Spec /\ Fairness
=============================================================================
