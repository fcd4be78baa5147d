------------------------------- MODULE Orders --------------------------------
(***************************************************************************)
(* From an arbitrage to the amounts that are signed: ArbitrageStrategy of  *)
(* internal/strategy/arbitrage.go, Polymarket.PlaceOrder, and the orders   *)
(* of internal/clob/client (orders.go, order_utils.go, order_builder.go).  *)
(* Either leg takes this way in a goroutine of its own.                    *)
(*                                                                         *)
(* Prices are in ten-thousandths of a dollar and sizes are fractions n / d *)
(* of tokens, as the program computes them.  What binary floating point    *)
(* makes of a decimal fraction is left open: a test for decimals may       *)
(* refuse a number that has few enough, and a conversion that cuts off may *)
(* lose one unit; neither ever errs to the other side.                     *)
(***************************************************************************)
EXTENDS Integers

CONSTANTS
  Asks,         \* the best asks a tick may carry, of either token
  OrderSize,    \* orderSizeUSDC, in cents
  MinProfit,    \* minProfitSpread
  TickSize      \* the market's, in cents: 10 or 1

Tokens == {"YES", "NO"}
Dollar == 10000

VARIABLE legs  \* the orders of the latest arbitrage, and how far they are

-----------------------------------------------------------------------------
Rounded(n, d) == (2 * n + d) \div (2 * d)

(* ValidateFOKPrecision of a purchase: price and value to the cent, size to *)
(* the ten-thousandth.                                                     *)
IsPrecise(o) ==
  /\ o.price % 100 = 0
  /\ (o.n * 10000) % o.d = 0
  /\ (o.n * o.price) % (100 * o.d) = 0

(* The tests compare binary products: that of 0.29 and 100 has a fraction. *)
NoisyCents == {7, 14, 28, 29, 55, 56, 57, 58}
IsNoisy(o) ==
  \/ o.price \div 100 \in NoisyCents
  \/ o.n % o.d # 0
  \/ (o.n * o.price) % (10000 * o.d) # 0

(* CreateOrderFOK: the same decimals, at least a dollar, at least 0.1.      *)
CreateOrderFOK(o) ==
  LET price == Rounded(o.price, 100)
      size == Rounded(o.n * 10000, o.d)
      value == Rounded(size * price, 10000)
      raised == IF value < 100 /\ price > 0 THEN Rounded(1000000, price) ELSE size
  IN [price |-> price, size |-> IF raised < 1000 THEN 1000 ELSE raised]

(* getOrderRawAmounts of a purchase: the price to the decimals of the tick *)
(* size, the size down to two.  Their product has as many decimals as an   *)
(* amount may have, so that the rest of the function only takes away what  *)
(* binary floating point has added.  In millionths.                        *)
RawAmounts(o) ==
  LET price == TickSize * Rounded(o.price, TickSize)
      size == o.size \div 100
  IN [maker |-> size * price * 100, taker |-> size * 10000]

(* parseUnits multiplies and cuts off: 2.01 becomes 2009999, whole numbers *)
(* stay.                                                                   *)
ParseUnits(n) == IF n % 1000000 = 0 THEN {n} ELSE {n, n - 1}

-----------------------------------------------------------------------------
At(place) == {t \in Tokens : legs[t].at = place}
Resting == At("idle") \cup At("refused") \cup At("failed") \cup At("posted")

(* Both legs are decided on one tick, each for the whole of its budget.    *)
Arbitrage ==
  /\ Resting = Tokens
  /\ \E ask \in [Tokens -> Asks] :
       /\ Dollar - (ask["YES"] + ask["NO"]) >= MinProfit
       /\ legs' = [t \in Tokens |->
                    [at |-> "decided", price |-> ask[t], n |-> 100 * OrderSize, d |-> ask[t]]]

(* PlaceLimitOrder with the option FOK, and the test of PlaceOrderFOK.     *)
Accept(t) ==
  /\ legs[t].at = "decided" /\ IsPrecise(legs[t])
  /\ legs' = [legs EXCEPT ![t].at = "checked"]

Refuse(t) ==
  /\ legs[t].at = "decided" /\ ~IsPrecise(legs[t])
  /\ legs' = [legs EXCEPT ![t].at = "refused"]

RefuseByNoise(t) ==
  /\ legs[t].at = "decided" /\ IsNoisy(legs[t])
  /\ legs' = [legs EXCEPT ![t].at = "refused"]

(* CreateOrder, BuildOrder: the amounts are fixed and signed.              *)
Sign(t) ==
  LET raw == RawAmounts(CreateOrderFOK(legs[t])) IN
  /\ legs[t].at = "checked"
  /\ \E maker \in ParseUnits(raw.maker), taker \in ParseUnits(raw.taker) :
       legs' = [legs EXCEPT ![t] = [at |-> "signed", maker |-> maker, taker |-> taker]]

(* PostOrder, after its rate limiter.                                      *)
Post(t) ==
  /\ legs[t].at = "signed"
  /\ legs' = [legs EXCEPT ![t].at = "posted"]

(* A closed market, a wait that is given up, an exchange that says no.     *)
Fail(t) ==
  /\ legs[t].at \in {"decided", "signed"}
  /\ legs' = [legs EXCEPT ![t].at = "failed"]

Init == legs = [t \in Tokens |-> [at |-> "idle"]]

Next ==
  \/ Arbitrage
  \/ \E t \in Tokens :
       Accept(t) \/ Refuse(t) \/ RefuseByNoise(t) \/ Sign(t) \/ Post(t) \/ Fail(t)

Spec == Init /\ [][Next]_legs

-----------------------------------------------------------------------------
(* Fill-or-kill is to keep an arbitrage from being left with one side      *)
(* (polymarket_trading.go:139-140): a leg that the exchange has been sent  *)
(* is not alone because the program refused the other one itself           *)
(* (order_utils.go:94-115).                                                *)
NoLoneLeg == At("posted") # {} => At("refused") = {}
=============================================================================
