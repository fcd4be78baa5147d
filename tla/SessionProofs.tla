---------------------------- MODULE SessionProofs ----------------------------
(***************************************************************************)
(* The engine and its OMS implement Session, for any number of orders,     *)
(* markets and prices, any deployments and any timeouts.                   *)
(*                                                                         *)
(* Every handler is mapped to one step of the session or to none.  What    *)
(* the mapping needs of the invariant of EngineProofs is that a book       *)
(* without open orders has nothing in play (Covered), that nothing is in   *)
(* play before the first cycle, and that a transition has a market to go   *)
(* to (Boot).  A cancel, an answer of the venue, a trade only ever end     *)
(* orders (Fewer); handlers that reconcile may have taken a fill off the   *)
(* venue before, which is in play no more (Alike).                         *)
(***************************************************************************)
EXTENDS EngineProofs

(* The venue as v has it after a step in which no order begins or ceases   *)
(* to be in play, or in which some cease.                                  *)
Active == {"sent", "live"}

Alike(v) ==
  \A c \in OrderIds :
    v[c] = venue[c] \/ (v[c].phase \notin Active /\ venue[c].phase \notin Active)

Fewer(v) ==
  \A c \in OrderIds :
    v[c].phase \in Active => venue[c].phase \in Active

(* Orders that cease to be in play end in the session.                     *)
LEMMA FewerEnd ==
  ASSUME Fewer(venue'), UNCHANGED deployment
  PROVE  User!OrdersEnd
BY DEF OrdersInPlay, InPlay, Fewer, Active, User!OrdersEnd

(* Those that are all as they were are as they were in the session.        *)
LEMMA AlikeSame ==
  ASSUME Alike(venue'), UNCHANGED deployment
  PROVE  OrdersInPlay' = OrdersInPlay
BY DEF OrdersInPlay, InPlay, Alike, Active

(* A cancel takes orders out of play and puts none into it.                *)
LEMMA CancelEnds ==
  ASSUME NEW ords, NEW v, NEW targets, CancelOrders(ords, v, targets), Alike(v)
  PROVE  Fewer(venue')
<1>1. PICK gone \in SUBSET {c \in targets : v[c].phase = "live"} :
        venue' = [c \in OrderIds |-> IF c \in gone THEN NoRequest ELSE v[c]]
  BY DEF CancelOrders
<1>2. \A c \in OrderIds : venue'[c] = v[c] \/ venue'[c].phase = "none"
  BY <1>1 DEF NoRequest
<1> QED
  BY <1>2 DEF Fewer, Alike, Active

(* A book without open orders is one of which nothing is in play.          *)
LEMMA ClosedBook ==
  ASSUME NEW ords, NEW v, Book(ords, v), ~HasOpenOrders(ords), Alike(v)
  PROVE  OrdersInPlay = {}
<1>1. \A c \in OrderIds : deployment.trading /\ deployment.truthful => ~InPlay(c)
  BY DEF Book, Covered, HasOpenOrders, Open, Alike, InPlay, Active
<1> QED
  BY <1>1 DEF OrdersInPlay

-----------------------------------------------------------------------------
(* The end of a handler that reconciles in a transition: the closing is    *)
(* given up, goes on, or the next cycle begins.                            *)
LEMMA CompletionInSession ==
  ASSUME NEW ords, NEW v, NEW p, NEW age, NEW risk,
         TypeOK, Boot, transitioning, Book(ords, v), Alike(v),
         MaybeCompleteTransition(ords, v, p, age, risk),
         UNCHANGED deployment
  PROVE  User!Next
<1>1. (deployment.strategy = "none")' = (deployment.strategy = "none")
  OBVIOUS
<1>2. CASE /\ EndTransition /\ venue' = v
           /\ UNCHANGED <<currentMarketID, pendingSnapshot, omsKill>>
  <2>1. OrdersInPlay' = OrdersInPlay
    BY <1>2, AlikeSame
  <2> QED
    BY <1>1, <1>2, <2>1 DEF User!Next, User!GiveUp, EndTransition
<1>3. CASE /\ CancelAllOpen(ords, v) \/ venue' = v
           /\ UNCHANGED <<cycleVars, omsKill>>
  <2>1. Fewer(venue')
    <3>1. CASE CancelAllOpen(ords, v)
      BY <3>1, CancelEnds DEF CancelAllOpen
    <3>2. CASE venue' = v
      BY <3>2 DEF Alike, Fewer, Active
    <3> QED
      BY <1>3, <3>1, <3>2
  <2>2. User!OrdersEnd
    BY <2>1, FewerEnd
  <2> QED
    BY <1>1, <1>3, <2>2 DEF User!Next, User!OrdersEndAlone, cycleVars
<1>4. CASE /\ ~HasOpenOrders(ords)
           /\ ApplyNewCycle(v, p, pendingSnapshot)
           /\ EndTransition
           /\ pendingSnapshot' = NoMarket
  <2>1. OrdersInPlay = {}
    BY <1>4, ClosedBook
  <2>2. OrdersInPlay' = OrdersInPlay
    BY <1>4, AlikeSame DEF ApplyNewCycle
  <2>3. pendingSnapshot \in Markets
    BY DEF Boot
  <2>4. /\ currentMarketID' = pendingSnapshot /\ ~omsKill' /\ omsKill' = FALSE
        /\ transitioning' = FALSE
    BY <1>4 DEF ApplyNewCycle, Reset, EndTransition
  <2>5. User!Begin(pendingSnapshot)
    BY <1>1, <1>4, <2>1, <2>2, <2>4 DEF User!Begin
  <2> QED
    BY <2>3, <2>5 DEF User!Next
<1> QED
  BY <1>2, <1>3, <1>4 DEF MaybeCompleteTransition

(* Orders that are placed are sent in the session, one into an empty book  *)
(* where no strategy decides.                                              *)
LEMMA PlaceInSession ==
  ASSUME NEW m \in Markets, NEW ds \in SUBSET Decisions,
         Book(orders, venue), PlaceOrders(m, ds),
         currentMarketID # NoMarket, ~transitioning, ~omsKill,
         UNCHANGED <<deployment, cycleVars, omsKill>>,
         deployment.strategy = "none" =>
           ~HasOpenOrders(orders) /\ \E want \in Decisions : ds = {want}
  PROVE  User!Send
<1>1. PICK new \in [OrderIds -> Taken(ds) \cup {None}] :
      /\ \A c \in OrderIds : new[c] # None =>
           /\ venue[c] = NoRequest
           /\ \A b \in OrderIds : new[b] = new[c] => b = c
      /\ venue' = [c \in OrderIds |->
           IF new[c] = None THEN venue[c]
           ELSE [phase |-> "sent", market |-> m,
                 exec |-> ExecId(new[c].side, new[c].price)]]
  BY DEF PlaceOrders
<1>2. \A c \in OrderIds :
        IF new[c] = None THEN venue'[c] = venue[c] ELSE venue[c] = NoRequest
  BY <1>1
<1>3. /\ OrdersInPlay \subseteq OrdersInPlay'
      /\ OrdersInPlay' \subseteq OrderIds
      /\ \A c \in OrdersInPlay' : c \in OrdersInPlay \/ new[c] # None
  BY <1>2 DEF OrdersInPlay, InPlay, NoRequest
<1>4. ASSUME deployment.strategy = "none"
      PROVE  /\ OrdersInPlay = {}
             /\ \A c, d \in OrdersInPlay' : c = d
  <2>1. OrdersInPlay = {}
    <3>1. ~HasOpenOrders(orders) /\ Alike(venue)
      BY <1>4 DEF Alike
    <3> QED
      BY <3>1, ClosedBook
  <2>2. PICK want \in Decisions : ds = {want}
    BY <1>4
  <2>3. \A c, d \in OrderIds : new[c] # None /\ new[d] # None => c = d
    <3>1. \A c \in OrderIds : new[c] \in {want, None}
      BY <2>2 DEF Taken
    <3> QED
      BY <1>1, <3>1
  <2> QED
    BY <1>3, <2>1, <2>3
<1>5. (deployment.strategy = "none")' = (deployment.strategy = "none")
  OBVIOUS
<1> QED
  BY <1>3, <1>4, <1>5 DEF User!Send, cycleVars

-----------------------------------------------------------------------------
(* An intent, outside of a transition, cancels or sends or does nothing.   *)
LEMMA IntentInSession ==
  ASSUME IInv, NEW t \in Ticks, NEW freeze,
         currentMarketID # NoMarket,
         ~transitioning, UNCHANGED <<deployment, cycleVars>>,
         OnIntent(t.market, freeze)
  PROVE  User!Next
<1>1. (deployment.strategy = "none")' = (deployment.strategy = "none")
  OBVIOUS
<1>2. ASSUME Fewer(venue') PROVE User!Next
  <2>1. User!OrdersEnd
    BY <1>2, FewerEnd
  <2> QED
    BY <1>1, <2>1 DEF User!Next, User!OrdersEndAlone, cycleVars, OnIntent
<1>3. Alike(venue)
  BY DEF Alike
<1>4. ASSUME NEW targets, CancelOrders(orders, venue, targets) PROVE User!Next
  BY <1>2, <1>3, <1>4, CancelEnds
<1>5. ASSUME UNCHANGED venue PROVE User!Next
  <2>1. Fewer(venue')
    BY <1>5 DEF Fewer, Active
  <2> QED
    BY <1>2, <2>1
<1>6. ASSUME ~omsKill, NEW ds \in SUBSET Decisions, PlaceOrders(t.market, ds),
             deployment.strategy = "none" =>
               ~HasOpenOrders(orders) /\ \E want \in Decisions : ds = {want}
      PROVE  User!Next
  <2>1. t.market \in Markets /\ Book(orders, venue) /\ UNCHANGED omsKill
    BY DEF Ticks, IInv, OnIntent
  <2>2. User!Send
    BY <1>6, <2>1, PlaceInSession
  <2> QED
    BY <2>1, <2>2 DEF User!Next
<1>7. CASE CancelAllOpen(orders, venue)
  BY <1>4, <1>7 DEF CancelAllOpen
<1>8. CASE ~omsKill /\ ExecuteIntent(t.market)
  <2>1. CASE deployment.strategy = "none"
    <3>1. ASSUME NEW want \in Decisions, ExecuteSimple(t.market, want)
          PROVE  User!Next
      <4>1. CASE ~HasOpenOrders(orders) /\ PlaceOrders(t.market, {want})
        BY <1>6, <1>8, <4>1
      <4>2. CASE UNCHANGED venue
        BY <1>5, <4>2
      <4>3. CASE \E c \in OrderIds : CancelOrders(orders, venue, {c})
        BY <1>4, <4>3
      <4> QED
        BY <3>1, <4>1, <4>2, <4>3 DEF ExecuteSimple, Open
    <3> QED
      BY <1>5, <1>8, <2>1, <3>1 DEF ExecuteIntent
  <2>2. CASE deployment.strategy = "simple_threshold"
    <3>1. ASSUME NEW ds \in SUBSET Decisions, SimpleThreshold(t.market, ds)
          PROVE  User!Next
      BY <1>6, <1>8, <2>2, <3>1 DEF SimpleThreshold
    <3> QED
      BY <1>5, <1>8, <2>2, <3>1 DEF ExecuteIntent
  <2>3. CASE deployment.strategy = "arbitrage"
    <3>1. ASSUME NEW yes \in Decisions, NEW no \in Decisions,
                 Arbitrage(t.market, yes, no)
          PROVE  User!Next
      BY <1>6, <1>8, <2>3, <3>1 DEF Arbitrage
    <3> QED
      BY <1>5, <1>8, <2>3, <3>1 DEF ExecuteIntent
  <2> QED
    BY <1>5, <1>8, <2>1, <2>2, <2>3 DEF ExecuteIntent
<1> QED
  BY <1>5, <1>7, <1>8 DEF OnIntent

(* A verdict on the risk cancels or does nothing, and sets the kill.       *)
LEMMA RiskInSession ==
  ASSUME NEW kill \in BOOLEAN, OnRisk(kill), currentMarketID # NoMarket,
         UNCHANGED <<deployment, cycleVars>>
  PROVE  User!Next
<1>1. (deployment.strategy = "none")' = (deployment.strategy = "none")
  OBVIOUS
<1>2. Fewer(venue')
  <2>1. CASE UNCHANGED venue
    BY <2>1 DEF Fewer, Active
  <2>2. CASE CancelAllOpen(orders, venue)
    <3>1. Alike(venue)
      BY DEF Alike
    <3> QED
      BY <2>2, <3>1, CancelEnds DEF CancelAllOpen
  <2> QED
    BY <2>1, <2>2 DEF OnRisk
<1>3. User!OrdersEnd
  BY <1>2, FewerEnd
<1> QED
  BY <1>1, <1>3 DEF User!Next, User!Judge, OnRisk, cycleVars

(* What happens outside of the engine ends orders at most.                 *)
LEMMA OutsideInSession ==
  ASSUME IInv, Outside, UNCHANGED deployment
  PROVE  User!Next
<1>1. (deployment.strategy = "none")' = (deployment.strategy = "none")
  OBVIOUS
<1>2. venue \in [OrderIds -> Request \cup {NoRequest}]
  BY DEF IInv, Book, BookTyped
<1>3. ASSUME NEW c \in OrderIds, PlaceReturns(c) PROVE Fewer(venue')
  <2>1. venue[c].phase \in Active
    BY <1>3 DEF PlaceReturns, Active
  <2>2. \A d \in OrderIds : d # c => venue'[d] = venue[d]
    BY <1>2, <1>3 DEF PlaceReturns
  <2> QED
    BY <2>1, <2>2 DEF Fewer
<1>4. ASSUME NEW c \in OrderIds, VenueFills(c) PROVE Fewer(venue')
  <2>1. venue[c].phase \in Active
    BY <1>4 DEF VenueFills, Active
  <2>2. \A d \in OrderIds : d # c => venue'[d] = venue[d]
    BY <1>2, <1>4 DEF VenueFills
  <2> QED
    BY <2>1, <2>2 DEF Fewer
<1>5. ASSUME UNCHANGED venue PROVE Fewer(venue')
  BY <1>5 DEF Fewer, Active
<1>6. Fewer(venue') /\ UNCHANGED omsKill
  BY <1>3, <1>4, <1>5
  DEF Outside, PlaceReturns, VenueFills, WindowCloses, CooldownEnds
<1>7. User!OrdersEnd
  BY <1>6, FewerEnd
<1> QED
  BY <1>1, <1>6, <1>7 DEF User!Next, User!OrdersEndAlone, Outside, engineVars

(* Every step of the engine is one of the session, or none.                *)
LEMMA StepOfSession ==
  IInv /\ IInv' /\ [Next]_vars => [User!Next]_User!sessionVars
<1> SUFFICES ASSUME IInv, IInv', [Next]_vars
             PROVE  User!Next \/ UNCHANGED User!sessionVars
  OBVIOUS
<1>t. /\ BookTyped(orders, venue) /\ TypeOK /\ Boot /\ Book(orders, venue)
  BY DEF IInv, Book
<1>s. ASSUME UNCHANGED deployment
      PROVE  (deployment.strategy = "none")' = (deployment.strategy = "none")
  BY <1>s
<1>v. Alike(venue)
  BY DEF Alike
<1>1. CASE Next
  <2>d. UNCHANGED deployment
    BY <1>1 DEF Next
  <2>1. ASSUME NEW m \in Markets, FirstSnapshot(m) PROVE User!Next
    <3>1. OrdersInPlay = {}
      BY <2>1, <1>t DEF FirstSnapshot, Boot, OrdersInPlay, InPlay, NoRequest
    <3>2. venue' = venue
      BY <2>1 DEF FirstSnapshot, ApplyNewCycle
    <3>3. OrdersInPlay' = OrdersInPlay
      BY <1>v, <2>d, <3>2, AlikeSame
    <3>4. User!Begin(m)
      BY <1>s, <2>d, <2>1, <3>1, <3>3
      DEF User!Begin, FirstSnapshot, ApplyNewCycle, Reset, EndTransition
    <3> QED
      BY <3>4 DEF User!Next
  <2>2. ASSUME NEW m \in Markets, NewSnapshot(m) PROVE User!Next
    <3>1. Fewer(venue')
      <4>1. CASE UNCHANGED venue
        BY <4>1 DEF Fewer, Active
      <4>2. CASE CancelAllOpen(orders, venue)
        BY <1>v, <4>2, CancelEnds DEF CancelAllOpen
      <4> QED
        BY <2>2, <4>1, <4>2 DEF NewSnapshot
    <3>2. User!OrdersEnd
      BY <1>t, <2>d, <3>1, FewerEnd
    <3>3. transitioning' = TRUE
      BY <1>t, <2>2 DEF NewSnapshot, TypeOK
    <3>4. User!Announce(m)
      BY <1>s, <2>d, <2>2, <3>2, <3>3 DEF User!Announce, NewSnapshot
    <3> QED
      BY <3>4 DEF User!Next
  <2>3. ASSUME NEW t \in Ticks, Tick(t) PROVE User!Next
    <3> DEFINE risk == Evaluate(t)
    <3> HIDE DEF risk
    <3>1. CASE transitioning
      <4>1. MaybeCompleteTransition(orders, venue, position, fillAge, risk)
        BY <2>3, <3>1 DEF Tick, risk
      <4> QED
        BY <1>t, <1>v, <2>d, <3>1, <4>1, CompletionInSession
    <3>2. CASE ~transitioning
      <4>1. /\ OnRisk(TRUE) \/ OnIntent(t.market, Freezes(t, risk))
            /\ UNCHANGED cycleVars
            /\ currentMarketID # NoMarket
        BY <2>3, <3>2 DEF Tick, risk
      <4>2. CASE OnRisk(TRUE)
        BY <1>t, <2>d, <4>1, <4>2, RiskInSession
      <4>3. CASE OnIntent(t.market, Freezes(t, risk))
        BY <1>t, <2>d, <3>2, <4>1, <4>3, IntentInSession
      <4> QED
        BY <4>1, <4>2, <4>3
    <3> QED
      BY <3>1, <3>2
  <2>4. ASSUME NEW c \in OrderIds, OrderUpdate(c)
        PROVE  User!Next \/ UNCHANGED User!sessionVars
    <3>1. CASE transitioning
      <4>1. PICK k \in deployment.keys, s \in Reported(c) :
              MaybeCompleteTransition(Updated(orders, Update(c, k, s)), venue,
                                      position, fillAge, lastRisk)
        BY <2>4, <3>1 DEF OrderUpdate, Update
      <4>2. Book(Updated(orders, Update(c, k, s)), venue)
        BY <1>t, <2>4, UpdateKeepsBook DEF OrderUpdate, TypeOK, OmsTypeOK
      <4> QED
        BY <1>t, <1>v, <2>d, <3>1, <4>1, <4>2, CompletionInSession
    <3>2. CASE ~transitioning
      <4>1. UNCHANGED <<venue, omsKill, cycleVars>>
        BY <2>4, <3>2 DEF OrderUpdate
      <4>2. OrdersInPlay' = OrdersInPlay
        BY <1>v, <2>d, <4>1, AlikeSame
      <4> QED
        BY <1>s, <2>d, <4>1, <4>2 DEF User!sessionVars, cycleVars
    <3> QED
      BY <3>1, <3>2
  <2>5. ASSUME NEW c \in OrderIds, Fill(c)
        PROVE  User!Next \/ UNCHANGED User!sessionVars
    <3> DEFINE v == [venue EXCEPT ![c] = NoRequest]
    <3>1. /\ venue[c].phase = "filled" /\ DOMAIN venue = OrderIds
          /\ \A d \in OrderIds \ {c} : v[d] = venue[d]
          /\ v[c] = NoRequest
      BY <1>t, <2>5 DEF Fill, BookTyped
    <3>2. Alike(v)
      BY <3>1 DEF Alike, Active, NoRequest
    <3>3. Book(orders, v)
      BY <1>t, <3>1 DEF Book, BookTyped, Covered, NoRequest
    <3>4. CASE transitioning
      <4>1. MaybeCompleteTransition(orders, v, position \cup {venue[c].market},
                                    0, lastRisk)
        BY <2>5, <3>4 DEF Fill
      <4> HIDE DEF v
      <4> QED
        BY <1>t, <2>d, <3>2, <3>3, <3>4, <4>1, CompletionInSession
    <3>5. CASE ~transitioning
      <4>1. venue' = v /\ UNCHANGED <<omsKill, cycleVars>>
        BY <2>5, <3>5 DEF Fill
      <4> HIDE DEF v
      <4>2. OrdersInPlay' = OrdersInPlay
        BY <2>d, <3>2, <4>1, AlikeSame
      <4> QED
        BY <1>s, <2>d, <4>1, <4>2 DEF User!sessionVars, cycleVars
    <3> QED
      BY <3>4, <3>5
  <2>6. ASSUME NEW r \in AdapterRisks, RiskEvent(r) PROVE User!Next
    <3>1. r.kill \in BOOLEAN
      <4>1. r \in RiskStates
        BY RiskTypes DEF AdapterRisks, Calm
      <4> QED
        BY <4>1 DEF RiskStates
    <3> QED
      BY <1>t, <2>d, <2>6, <3>1, RiskInSession DEF RiskEvent
  <2>7. CASE Elapse
    <3>1. UNCHANGED <<venue, omsKill, cycleVars>>
      BY <2>7 DEF Elapse
    <3>2. OrdersInPlay' = OrdersInPlay
      BY <1>v, <2>d, <3>1, AlikeSame
    <3> QED
      BY <1>s, <2>d, <3>1, <3>2 DEF User!sessionVars, cycleVars
  <2>8. CASE Outside
    BY <1>t, <2>d, <2>8, OutsideInSession
  <2> QED
    BY <1>1, <2>1, <2>2, <2>3, <2>4, <2>5, <2>6, <2>7, <2>8 DEF Next
<1>2. CASE UNCHANGED vars
  <2>1. UNCHANGED <<deployment, venue, omsKill, cycleVars>>
    BY <1>2 DEF vars, cycleVars
  <2>2. OrdersInPlay' = OrdersInPlay
    BY <1>v, <2>1, AlikeSame
  <2> QED
    BY <1>s, <2>1, <2>2 DEF User!sessionVars, cycleVars
<1> QED
  BY <1>1, <1>2

(* For any number of orders, markets and prices, any deployments and any   *)
(* timeouts, the engine keeps what a session promises (engine.go:94-319,   *)
(* oms.go:197-330).                                                        *)
THEOREM KeepsSession == Spec => ImplementsSession
<1>1. Init => User!Init
  <2> SUFFICES ASSUME Init PROVE User!Init
    OBVIOUS
  <2>1. \A c \in OrderIds : ~InPlay(c)
    BY DEF Init, OmsInit, InPlay, NoRequest
  <2>2. OrdersInPlay = {}
    BY <2>1 DEF OrdersInPlay
  <2>3. (deployment.strategy = "none") \in BOOLEAN
    OBVIOUS
  <2> QED
    BY <2>2, <2>3 DEF Init, OmsInit, User!Init
<1> QED
  BY <1>1, StepOfSession, Invariance, PTL DEF Spec, ImplementsSession, User!Spec
=============================================================================
