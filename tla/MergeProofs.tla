----------------------------- MODULE MergeProofs -----------------------------
(***************************************************************************)
(* Merges that are sent again before the first is mined never take tokens  *)
(* that are not there, for any threshold and any number of tokens and of   *)
(* merges under way.                                                       *)
(*                                                                         *)
(* What is held was bought (Backed), and what a round goes on with, and    *)
(* sends, is some amount (Worthwhile).                                     *)
(***************************************************************************)
EXTENDS Merge, SequenceTheorems, TLAPS

Backed == \A s \in Sides : held[s] <= bought[s]

Worthwhile == loop.at \in Sides \cup {"estimate", "send"} => loop.amount > 0

IInv == TypeOK /\ Backed /\ Worthwhile

-----------------------------------------------------------------------------
(* What the type invariant says of balances, queue and loop.               *)
LEMMA TypeFacts ==
  ASSUME TypeOK
  PROVE  /\ MaxBought \in Nat /\ MaxPool \in Nat /\ Threshold \in Nat
         /\ \A s \in Sides : held[s] \in 0..MaxBought /\ bought[s] \in 0..MaxBought
         /\ held \in [Sides -> 0..MaxBought] /\ bought \in [Sides -> 0..MaxBought]
         /\ loop.amount \in 0..MaxBought
         /\ Len(pool) \in Nat
BY MergeAssumption DEF TypeOK

(* Moving on in the loop, with an amount that fits, keeps its type.        *)
LEMMA GoesFacts ==
  ASSUME NEW at \in {"idle", "no", "estimate", "send"} \cup Sides,
         NEW amount \in 0..MaxBought, Goes(at, amount)
  PROVE  /\ loop' \in [at : {"idle", "no", "estimate", "send"} \cup Sides,
                       amount : 0..MaxBought]
         /\ loop'.at = at /\ loop'.amount = amount
BY DEF Goes

(* Going back to sleep, too.                                               *)
LEMMA IdleFacts ==
  /\ MaxBought \in Nat =>
       Idle \in [at : {"idle", "no", "estimate", "send"} \cup Sides, amount : 0..MaxBought]
  /\ Idle.at = "idle"
BY DEF Idle

(* Nothing is held, sent or under way at first.                            *)
LEMMA InitInv == Init => IInv
<1> SUFFICES ASSUME Init PROVE IInv
  OBVIOUS
<1>1. held \in [Sides -> 0..MaxBought] /\ bought = held
  BY MergeAssumption DEF Init
<1>2. pool \in Seq(1..MaxBought) /\ Len(pool) <= MaxPool
  BY MergeAssumption DEF Init
<1>3. TypeOK
  BY <1>1, <1>2, IdleFacts, MergeAssumption DEF Init, TypeOK
<1>4. Backed
  BY <1>1, MergeAssumption DEF Init, Backed
<1>5. Worthwhile
  BY DEF Init, Worthwhile, Idle, Sides
<1> QED
  BY <1>3, <1>4, <1>5 DEF IInv

(* A step of the loop keeps the invariant: a balance is what it goes on    *)
(* with, and only if it is worth a merge.                                  *)
LEMMA RoundInv ==
  ASSUME IInv, Round \/ Fail
  PROVE  IInv'
<1> USE DEF IInv
<1>1. CASE ReadYes
  <2>1. Goes("no", held["YES"]) /\ held["YES"] \in 0..MaxBought
    BY <1>1, TypeFacts DEF ReadYes, Sides
  <2>2. TypeOK'
    BY <1>1, <2>1, GoesFacts DEF ReadYes, TypeOK
  <2>3. loop'.at = "no"
    BY <2>1, GoesFacts
  <2> QED
    BY <1>1, <2>2, <2>3 DEF ReadYes, Backed, Worthwhile, Sides
<1>2. CASE ReadNo
  <2> DEFINE amount == Mergeable(loop.amount, held["NO"])
  <2>1. amount \in 0..MaxBought
    BY TypeFacts DEF Mergeable, Least, Sides
  <2>2. CASE loop' = Idle
    BY <1>2, <2>2, IdleFacts, TypeFacts DEF ReadNo, TypeOK, Backed, Worthwhile, Sides
  <2>3. CASE Goes("YES", amount) /\ amount # 0
    <3>1. loop'.amount = amount /\ amount > 0
      BY <2>1, <2>3, GoesFacts, TypeFacts DEF Sides
    <3>2. TypeOK'
      BY <1>2, <2>1, <2>3, GoesFacts DEF ReadNo, TypeOK, Sides
    <3> QED
      BY <1>2, <3>1, <3>2 DEF ReadNo, Backed, Worthwhile
  <2> QED
    BY <1>2, <2>2, <2>3 DEF ReadNo
<1>3. ASSUME NEW s \in Sides, Validate(s)
      PROVE  IInv'
  <2>1. loop.amount \in 0..MaxBought /\ loop.amount > 0
    BY <1>3, TypeFacts DEF Validate, Worthwhile
  <2>2. CASE loop' = Idle
    BY <1>3, <2>2, IdleFacts, TypeFacts DEF Validate, TypeOK, Backed, Worthwhile, Sides
  <2>3. ASSUME NEW at \in {"NO", "estimate"}, Goes(at, loop.amount)
        PROVE  IInv'
    <3>1. loop'.amount > 0
      BY <2>1, <2>3, GoesFacts DEF Sides
    <3>2. TypeOK'
      BY <1>3, <2>1, <2>3, GoesFacts DEF Validate, TypeOK, Sides
    <3> QED
      BY <1>3, <3>1, <3>2 DEF Validate, Backed, Worthwhile
  <2> QED
    BY <1>3, <2>2, <2>3 DEF Validate
<1>4. CASE Estimate
  <2>1. loop.amount \in 0..MaxBought /\ loop.amount > 0
    BY <1>4, TypeFacts DEF Estimate, Worthwhile
  <2>2. CASE loop' = Idle
    BY <1>4, <2>2, IdleFacts, TypeFacts DEF Estimate, TypeOK, Backed, Worthwhile, Sides
  <2>3. ASSUME NEW sent \in Converted(loop.amount), Goes("send", sent)
        PROVE  IInv'
    <3>1. sent \in 0..MaxBought /\ sent > 0
      BY <2>1, MergeAssumption DEF Converted
    <3>2. loop'.amount > 0
      BY <2>3, <3>1, GoesFacts
    <3>3. TypeOK'
      BY <1>4, <2>3, <3>1, GoesFacts DEF Estimate, TypeOK
    <3> QED
      BY <1>4, <3>2, <3>3 DEF Estimate, Backed, Worthwhile
  <2> QED
    BY <1>4, <2>2, <2>3 DEF Estimate
<1>5. CASE Send
  <2>1. loop.amount \in 1..MaxBought
    BY <1>5, TypeFacts DEF Send, Worthwhile
  <2>2. pool' \in Seq(1..MaxBought) /\ Len(pool') = Len(pool) + 1
    BY <1>5, <2>1 DEF Send, TypeOK
  <2>3. Len(pool') <= MaxPool
    BY <1>5, <2>2, TypeFacts DEF Send
  <2>4. TypeOK'
    BY <1>5, <2>2, <2>3, IdleFacts, TypeFacts DEF Send, TypeOK
  <2> QED
    BY <1>5, <2>4, IdleFacts DEF Send, Backed, Worthwhile, Sides
<1>6. CASE Fail
  BY <1>6, IdleFacts, TypeFacts DEF Fail, TypeOK, Backed, Worthwhile, Sides
<1> QED
  BY <1>1, <1>2, <1>3, <1>4, <1>5, <1>6 DEF Round

(* The chain keeps the invariant: a merge that is not covered reverts.     *)
LEMMA MineInv ==
  ASSUME IInv, Mine
  PROVE  IInv'
<1> USE DEF IInv
<1>1. pool \in Seq(1..MaxBought) /\ pool # <<>>
  BY DEF Mine, TypeOK
<1>2. /\ Head(pool) \in 1..MaxBought
      /\ Tail(pool) \in Seq(1..MaxBought)
      /\ Len(Tail(pool)) = Len(pool) - 1
  BY <1>1, HeadTailProperties
<1>3. pool' \in Seq(1..MaxBought) /\ Len(pool') <= MaxPool
  <2>1. Len(pool) <= MaxPool
    BY DEF TypeOK
  <2> QED
    BY <1>2, <2>1, TypeFacts DEF Mine
<1>4. CASE held' = held
  <2>1. bought' = bought /\ loop' = loop
    BY DEF Mine
  <2>2. TypeOK'
    BY <1>3, <1>4, <2>1 DEF TypeOK
  <2> QED
    BY <1>4, <2>1, <2>2 DEF Backed, Worthwhile
<1>5. CASE Covered(Head(pool)) /\ held' = [s \in Sides |-> held[s] - Head(pool)]
  <2>1. \A s \in Sides : held[s] - Head(pool) \in 0..MaxBought
                         /\ held[s] - Head(pool) <= held[s]
    BY <1>2, <1>5, TypeFacts DEF Covered
  <2>2. held' \in [Sides -> 0..MaxBought] /\ bought' = bought
    BY <1>5, <2>1 DEF Mine
  <2>3. {held', bought'} \subseteq [Sides -> 0..MaxBought]
    BY <2>2, TypeFacts
  <2>4. loop' = loop
    BY DEF Mine
  <2>5. TypeOK'
    BY <1>3, <2>3, <2>4 DEF TypeOK
  <2>6. Backed'
    BY <1>2, <1>5, <2>2, TypeFacts DEF Backed
  <2> QED
    BY <2>4, <2>5, <2>6 DEF Worthwhile
<1>6. held' = held \/ (Covered(Head(pool)) /\ held' = [s \in Sides |-> held[s] - Head(pool)])
  <2>1. CASE Covered(Head(pool))
    BY <2>1 DEF Mine
  <2>2. CASE ~Covered(Head(pool))
    BY <2>2 DEF Mine
  <2> QED
    BY <2>1, <2>2
<1> QED
  BY <1>4, <1>5, <1>6

(* A purchase keeps the invariant.                                         *)
LEMMA BuyInv ==
  ASSUME IInv, NEW s \in Sides, Buy(s)
  PROVE  IInv'
<1> USE DEF IInv
<1>1. held[s] + 1 \in 0..MaxBought /\ bought[s] + 1 \in 0..MaxBought
  BY TypeFacts DEF Buy, Backed
<1>2. held' \in [Sides -> 0..MaxBought] /\ bought' \in [Sides -> 0..MaxBought]
  BY <1>1, TypeFacts DEF Buy
<1>3. TypeOK'
  BY <1>2 DEF Buy, TypeOK
<1>4. \A r \in Sides : held'[r] <= bought'[r]
  BY TypeFacts DEF Buy, Backed
<1> QED
  BY <1>3, <1>4 DEF Buy, Backed, Worthwhile

-----------------------------------------------------------------------------
(* The inductive invariant holds in every reachable state.                 *)
THEOREM Invariance == FairSpec => []IInv
<1>1. IInv /\ [Next]_vars => IInv'
  <2> SUFFICES ASSUME IInv, [Next]_vars PROVE IInv'
    OBVIOUS
  <2>1. CASE Next
    BY <2>1, RoundInv, MineInv, BuyInv DEF Next
  <2>2. CASE UNCHANGED vars
    BY <2>2 DEF vars, IInv, TypeOK, Backed, Worthwhile
  <2> QED
    BY <2>1, <2>2
<1> QED
  BY <1>1, InitInv, PTL DEF FairSpec

(* No balance goes below zero and no merge of nothing is sent, although    *)
(* the loop sends again what was not mined yet                             *)
(* (polymarket_trading.go:258-296, ctf.go:258-345).                        *)
THEOREM TypeCorrect == FairSpec => []TypeOK
<1>1. IInv => TypeOK
  BY DEF IInv
<1> QED
  BY <1>1, Invariance, PTL
=============================================================================
