-------------------------------- MODULE Merge --------------------------------
(***************************************************************************)
(* The merging of complete pairs: autoMergeLoop of                         *)
(* internal/market/polymarket_trading.go, the client of the conditional    *)
(* tokens in internal/clob/client/ctf.go, and the chain.                   *)
(*                                                                         *)
(* The loop does not wait for what it sent: a merge that has not been      *)
(* mined is found mergeable again five seconds later.  Every question to   *)
(* the node may fail, and be answered with another state of the chain than *)
(* the last.  Amounts are in the smallest unit, a millionth of a token.    *)
(***************************************************************************)
EXTENDS Integers, Sequences

CONSTANTS
  Threshold,  \* p.minMergeThreshold; 0 switches the protection off
  MaxBought,  \* tokens bought of either side (bound)
  MaxPool     \* merges sent and not mined (bound)

ASSUME MergeAssumption == {Threshold, MaxBought, MaxPool} \subseteq Nat

Sides == {"YES", "NO"}

VARIABLES
  held,    \* chain: the tokens held of either side
  bought,  \* how many were bought
  pool,    \* the merges that were sent and not mined, by their nonces
  loop     \* where checkAndMerge has got to, and what it has read

vars == <<held, bought, pool, loop>>

-----------------------------------------------------------------------------
Least(a, b) == IF a < b THEN a ELSE b
Pairs == Least(held["YES"], held["NO"])
Covered(amount) == \A s \in Sides : held[s] >= amount

Idle == [at |-> "idle", amount |-> 0]
Goes(at, amount) == loop' = [at |-> at, amount |-> amount]

(* Mutant of Mergeable: the greater of the two balances.                   *)
MergeableGreater(yes, no) == IF yes < no THEN no ELSE yes

(* GetMergeableBalance                                                     *)
Mergeable(yes, no) == Least(yes, no)

ReadYes ==
  /\ loop.at = "idle"
  /\ Goes("no", held["YES"])
  /\ UNCHANGED <<held, bought, pool>>

(* Below the threshold, or nothing at all: no merge.                       *)
ReadNo ==
  LET amount == Mergeable(loop.amount, held["NO"]) IN
  /\ loop.at = "no"
  /\ IF amount < Threshold \/ amount = 0 THEN loop' = Idle ELSE Goes("YES", amount)
  /\ UNCHANGED <<held, bought, pool>>

(* ValidateMergePositions asks for both balances once more.                *)
Validate(s) ==
  /\ loop.at = s
  /\ IF held[s] < loop.amount THEN loop' = Idle
     ELSE Goes(IF s = "YES" THEN "NO" ELSE "estimate", loop.amount)
  /\ UNCHANGED <<held, bought, pool>>

(* MergePositions multiplies the amount, a float, by 10^6 and cuts off:    *)
(* some amounts lose a unit (249 is sent as 248), but never their only one.*)
Converted(amount) == {amount} \cup (IF amount > 1 THEN {amount - 1} ELSE {})

(* Conversion, nonce, gas price, and an estimate, which a merge that is    *)
(* not covered does not get.                                               *)
Estimate ==
  /\ loop.at = "estimate"
  /\ \E sent \in Converted(loop.amount) :
       IF Covered(sent) THEN Goes("send", sent) ELSE loop' = Idle
  /\ UNCHANGED <<held, bought, pool>>

Send ==
  /\ loop.at = "send" /\ Len(pool) < MaxPool
  /\ pool' = Append(pool, loop.amount)
  /\ loop' = Idle
  /\ UNCHANGED <<held, bought>>

(* An error at any of these ends the round; the answer to a merge that was *)
(* sent may be lost, which is the step Send for the chain.                 *)
Fail ==
  /\ loop.at # "idle"
  /\ loop' = Idle
  /\ UNCHANGED <<held, bought, pool>>

-----------------------------------------------------------------------------
(* The chain mines by nonce; a merge that is not covered reverts.          *)
Mine ==
  /\ pool # <<>>
  /\ pool' = Tail(pool)
  /\ held' = IF Covered(Head(pool)) THEN [s \in Sides |-> held[s] - Head(pool)] ELSE held
  /\ UNCHANGED <<bought, loop>>

Buy(s) ==
  /\ bought[s] < MaxBought
  /\ bought' = [bought EXCEPT ![s] = @ + 1]
  /\ held' = [held EXCEPT ![s] = @ + 1]
  /\ UNCHANGED <<pool, loop>>

Init ==
  /\ held = [s \in Sides |-> 0] /\ bought = held
  /\ pool = <<>>
  /\ loop = Idle

Round == ReadYes \/ ReadNo \/ (\E s \in Sides : Validate(s)) \/ Estimate \/ Send

Next ==
  \/ Round \/ Fail
  \/ Mine
  \/ \E s \in Sides : Buy(s)

(* The loop is woken every five seconds and the chain mines.  A question   *)
(* that is asked for ever is answered at last, although each may fail.     *)
FairSpec ==
  /\ Init /\ [][Next]_vars
  /\ WF_vars(Round) /\ WF_vars(Mine)
  /\ SF_vars(ReadNo) /\ \A s \in Sides : SF_vars(Validate(s))
  /\ SF_vars(Estimate) /\ SF_vars(Send)

-----------------------------------------------------------------------------
(* Every variable has its type: a merge that is sent twice never takes     *)
(* tokens that are not there, and no balance is below zero.                *)
TypeOK ==
  /\ {held, bought} \subseteq [Sides -> 0..MaxBought]
  /\ pool \in Seq(1..MaxBought) /\ Len(pool) <= MaxPool
  /\ loop \in [at : {"idle", "no", "estimate", "send"} \cup Sides, amount : 0..MaxBought]

(* Pairs that are worth merging are merged, however often a merge is sent  *)
(* again, reverted or lost (polymarket_trading.go:258-296, ctf.go:258-626).*)
PairsAreMerged == Pairs >= Threshold /\ Pairs > 0 ~> Pairs < Threshold \/ Pairs = 0
=============================================================================
