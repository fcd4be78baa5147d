------------------------------ MODULE Session ------------------------------
(***************************************************************************)
(* What the engine and its OMS together promise whoever runs the program:  *)
(* trading goes by markets, one after the other, and is closed before the  *)
(* next one begins; orders leave while it is open and no kill is in force  *)
(* and, where they are to be alone, one at a time.                         *)
(*                                                                         *)
(* Two things are not promised, because the code does not keep them.  A    *)
(* closing that takes too long is given up, and trading goes on in the old *)
(* market, kill or no kill (GiveUp; engine.go:292 has it otherwise).  And  *)
(* that an order is for the market of the cycle: the handler of ticks      *)
(* trades on a tick of whatever market it is of.                           *)
(*                                                                         *)
(* An order is in play from the moment it is sent until it can trade no    *)
(* more; it may end by itself at any time.  Nothing is said of prices,     *)
(* positions, or what the OMS believes of its orders.                      *)
(***************************************************************************)
CONSTANTS OrderIds, Markets, NoMarket

VARIABLES
  market,     \* the market of the cycle, or NoMarket before the first
  announced,  \* the market announced last, or NoMarket
  closing,    \* the cycle is being closed
  killed,     \* a kill is in force
  alone,      \* for the whole session: one order at a time
  inPlay      \* the orders in play

sessionVars == <<market, announced, closing, killed, alone, inPlay>>

Init ==
  /\ market = NoMarket /\ announced = NoMarket
  /\ closing = FALSE /\ killed = FALSE /\ alone \in BOOLEAN
  /\ inPlay = {}

-----------------------------------------------------------------------------
(* Orders are filled, cancelled or refused.                                *)
OrdersEnd == inPlay' \subseteq inPlay

OrdersEndAlone ==
  /\ UNCHANGED <<market, announced, closing, killed, alone>>
  /\ OrdersEnd

(* One step may send several orders.                                       *)
Send ==
  /\ market # NoMarket
  /\ ~closing /\ ~killed
  /\ inPlay \subseteq inPlay' /\ inPlay' \subseteq OrderIds
  /\ alone => /\ inPlay = {}
              /\ \A c, d \in inPlay' : c = d
  /\ UNCHANGED <<market, announced, closing, killed, alone>>

(* A kill is set or lifted, and orders are cancelled.                      *)
Judge ==
  /\ market # NoMarket
  /\ killed' \in BOOLEAN
  /\ OrdersEnd
  /\ UNCHANGED <<market, announced, closing, alone>>

(* Another market is announced: the cycle is to be closed.                 *)
Announce(m) ==
  /\ market # NoMarket /\ m # market
  /\ announced' = m
  /\ closing' = TRUE
  /\ OrdersEnd
  /\ UNCHANGED <<market, killed, alone>>

GiveUp ==
  /\ closing
  /\ closing' = FALSE
  /\ UNCHANGED <<market, announced, killed, alone, inPlay>>

(* The next cycle, or the first, begins with nothing in play.              *)
Begin(m) ==
  /\ \/ market = NoMarket
     \/ closing /\ m = announced
  /\ inPlay = {}
  /\ market' = m
  /\ announced' = NoMarket
  /\ closing' = FALSE
  /\ killed' = FALSE
  /\ UNCHANGED <<alone, inPlay>>

Next ==
  \/ OrdersEndAlone \/ Send \/ Judge \/ GiveUp
  \/ \E m \in Markets : Announce(m) \/ Begin(m)

Spec == Init /\ [][Next]_sessionVars
=============================================================================
