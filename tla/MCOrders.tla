------------------------------ MODULE MCOrders -------------------------------
(* Model checking of the way of an arbitrage; the asks are 0.45 and 0.50.  *)
EXTENDS Orders

MCAsks == {4500, 5000}
=============================================================================
