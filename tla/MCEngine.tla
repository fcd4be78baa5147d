------------------------------ MODULE MCEngine ------------------------------
(* Constants for model checking the engine.                                *)
EXTENDS EngineProps, TLC

(* An adapter whose updates carry both ids and whose orders may rest.      *)
FullAdapter == [trading |-> TRUE, clientIds |-> FALSE, resting |-> TRUE,
                keys |-> {"client", "exchange"}, truthful |-> TRUE,
                ticker |-> TRUE, strategy |-> "none"]

(* The same with updates out of date or with an unmapped status.           *)
StaleAdapter == [FullAdapter EXCEPT !.truthful = FALSE, !.clientIds = TRUE,
                                    !.keys = {"client"}]

(* internal/market/polymarket*.go with trading enabled.                    *)
PolymarketAdapter == [trading |-> TRUE, clientIds |-> FALSE,
                      resting |-> FALSE, keys |-> {"exchange"},
                      truthful |-> TRUE, ticker |-> TRUE, strategy |-> "none"]

(* internal/market/polymarket.go without credentials.                      *)
SimulationAdapter == [PolymarketAdapter EXCEPT !.trading = FALSE]

MCDeployments == {FullAdapter, StaleAdapter, PolymarketAdapter,
                  SimulationAdapter}
OnlyPolymarket == {PolymarketAdapter}

(* One whose ticks depend on the venue's messages, as those of             *)
(* internal/market/websocket_adapter.go do, should it come to trade.       *)
StreamingAdapter == [FullAdapter EXCEPT !.ticker = FALSE]

LiveDeployments ==
  {FullAdapter, StaleAdapter, PolymarketAdapter, StreamingAdapter}

(* simple_threshold with an adapter whose orders can rest, and arbitrage   *)
(* as cmd/simulate runs it and with trading enabled.                       *)
StrategyDeployments ==
  {[FullAdapter EXCEPT !.strategy = "simple_threshold"],
   [PolymarketAdapter EXCEPT !.strategy = "arbitrage"],
   [SimulationAdapter EXCEPT !.strategy = "arbitrage"]}

AllDeployments == MCDeployments \cup StrategyDeployments

MCPrices == {3000}

(* Two prices, so that an open order may be found too far from the market. *)
TwoPrices == {3500, 6300}
Symmetry == Permutations(OrderIds) \cup Permutations(Markets)
=============================================================================
