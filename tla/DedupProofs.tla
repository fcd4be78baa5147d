---------------------------- MODULE DedupProofs ----------------------------
(***************************************************************************)
(* No bit of the deduplicator is stuck and no timer is lost, for any       *)
(* number of execution ids and of acquisitions at a time.                  *)
(*                                                                         *)
(* A Release takes whatever timer it finds, so what makes its Stop safe is *)
(* that the timer is one of its own id (Matching) and that it goes on to   *)
(* clear the bit; the Stop of scheduleRelease is safe because the engine's *)
(* new timer, which nobody else can reach yet (Private), is already        *)
(* running, or its Release is under way (Covering).                        *)
(***************************************************************************)
EXTENDS Dedup, TLAPS

(* A stored or taken timer is one of the id it was stored or taken for.    *)
Matching ==
  /\ \A id \in Ids : releaseTimers[id] # None => of[releaseTimers[id]] = id
  /\ \A p \in Releasers :
       /\ release[p].acq # None =>
            release[p].at = "stop" /\ of[release[p].acq] = of[p[2]]
       /\ release[p].at = "idle" => release[p] = Idle

(* Nobody but the engine knows the acquisition it is working on.           *)
Private ==
  engine.acq # None =>
    /\ call[engine.acq] = "none"
    /\ release[<<"call", engine.acq>>] = Idle
    /\ \A id \in Ids : releaseTimers[id] # engine.acq
    /\ \A p \in Releasers : release[p].acq # engine.acq
    /\ engine.at \in {"set", "arm"} => timer[engine.acq] = "off"
                                       /\ release[<<"timer", engine.acq>>] = Idle

(* The engine's new timer answers for the bit from the moment it runs.     *)
Covering ==
  engine.at \in {"keep", "replace"} /\ of[engine.acq] \in inFlight =>
    timer[engine.acq] = "armed" \/ release[<<"timer", engine.acq>>] # Idle

(* A timer that is about to be overwritten does not run.                   *)
Overwritable ==
  engine.at = "replace" =>
    \/ releaseTimers[of[engine.acq]] = None
    \/ timer[releaseTimers[of[engine.acq]]] # "armed"

(* A timer or a call that is still to come has not released yet.           *)
Pending ==
  \A a \in Acqs :
    /\ timer[a] = "armed" => release[<<"timer", a>>] = Idle
    /\ call[a] # "none" => release[<<"call", a>>] = Idle

IInv == TypeOK /\ Matching /\ Private /\ Covering /\ Overwritable /\ Pending
          /\ NoStuckBit /\ NoLostTimer

-----------------------------------------------------------------------------
(* The Releasers are the call and the timer of every acquisition.          *)
LEMMA ReleaserFacts ==
  /\ \A p \in Releasers : /\ p[2] \in Acqs
                          /\ p = <<"call", p[2]>> \/ p = <<"timer", p[2]>>
  /\ \A a \in Acqs : /\ <<"call", a>> \in Releasers
                     /\ <<"timer", a>> \in Releasers
  /\ \A a, b \in Acqs : /\ <<"call", a>> # <<"timer", b>>
                        /\ <<"call", a>> = <<"call", b>> => a = b
                        /\ <<"timer", a>> = <<"timer", b>> => a = b
BY DEF Releasers

(* Stop takes one timer out of those that run and changes no other.        *)
LEMMA StopFacts ==
  ASSUME TypeOK, NEW x \in Acqs \cup {None}
  PROVE  /\ Stop(timer, x) \in [Acqs -> {"off", "armed", "fired"}]
         /\ \A b \in Acqs :
              /\ Stop(timer, x)[b] = "armed" <=> timer[b] = "armed" /\ b # x
              /\ b # x => Stop(timer, x)[b] = timer[b]
              /\ timer[b] = "off" => Stop(timer, x)[b] = "off"
BY DedupAssumption DEF TypeOK, Stop

(* The inductive invariant holds of a new deduplicator.                   *)
LEMMA InitInv == Init => IInv
<1> SUFFICES ASSUME Init PROVE IInv
  OBVIOUS
<1>1. TypeOK
  BY DedupAssumption DEF Init, TypeOK, Idle
<1>2. Matching /\ Private /\ Covering /\ Overwritable /\ Pending
  BY DEF Init, Matching, Private, Covering, Overwritable, Pending, Idle
<1>3. NoStuckBit /\ NoLostTimer
  BY DEF Init, NoStuckBit, NoLostTimer
<1> QED
  BY <1>1, <1>2, <1>3 DEF IInv

(* LoadClear keeps the inductive invariant.                               *)
LEMMA LoadClearInv ==
  ASSUME IInv, NEW a \in Acqs, NEW id \in Ids, LoadClear(a, id)
  PROVE  IInv'
<1> USE DEF IInv, LoadClear, Over, Releasers, Idle, Clearing, EngineSteps
<1>1. TypeOK'
  BY DEF TypeOK
<1>2. Matching'
  BY DEF Matching
<1>3. Private'
  BY DEF TypeOK, Private
<1>4. Covering'
  BY DEF Covering
<1>5. Overwritable'
  BY DEF Overwritable
<1>6. Pending'
  BY DEF TypeOK, Pending
<1>7. NoStuckBit'
  BY DEF NoStuckBit
<1>8. NoLostTimer'
  BY DedupAssumption DEF NoLostTimer
<1> QED
  BY <1>1, <1>2, <1>3, <1>4, <1>5, <1>6, <1>7, <1>8

(* SetBit keeps the inductive invariant.                                  *)
LEMMA SetBitInv ==
  ASSUME IInv, SetBit
  PROVE  IInv'
<1> USE DEF IInv, SetBit, Releasers, Idle, Clearing, EngineSteps
<1>1. TypeOK'
  BY DEF TypeOK
<1>2. Matching'
  BY DEF Matching
<1>3. Private'
  BY DEF Private
<1>4. Covering'
  BY DEF Covering
<1>5. Overwritable'
  BY DEF Overwritable
<1>6. Pending'
  BY DEF Pending
<1>7. NoStuckBit'
  BY DEF NoStuckBit
<1>8. NoLostTimer'
  BY DEF NoLostTimer
<1> QED
  BY <1>1, <1>2, <1>3, <1>4, <1>5, <1>6, <1>7, <1>8

(* Arm keeps the inductive invariant.                                     *)
LEMMA ArmInv ==
  ASSUME IInv, Arm
  PROVE  IInv'
<1> USE DEF IInv, Arm, Releasers, Idle, Clearing, EngineSteps
<1>1. TypeOK'
  BY DEF TypeOK
<1>2. Matching'
  BY DEF Matching
<1>3. Private'
  BY DEF Private
<1>4. Covering'
  BY DEF TypeOK, Covering
<1>5. Overwritable'
  BY DEF Overwritable
<1>6. Pending'
  BY DedupAssumption DEF TypeOK, Pending, Private
<1>7. NoStuckBit'
  BY DEF TypeOK, NoStuckBit
<1>8. NoLostTimer'
  BY DEF NoLostTimer
<1> QED
  BY <1>1, <1>2, <1>3, <1>4, <1>5, <1>6, <1>7, <1>8

(* LoadOrStore keeps the inductive invariant.                             *)
LEMMA LoadOrStoreInv ==
  ASSUME IInv, LoadOrStore
  PROVE  IInv'
<1> USE DEF IInv, LoadOrStore, Stop, Idle, Clearing, EngineSteps
<1>1. TypeOK'
  BY DEF TypeOK
<1>2. Matching'
  BY DEF TypeOK, Matching
<1>3. Private'
  <2>1. CASE engine' = Idle
    BY <2>1, DedupAssumption DEF Private
  <2>2. CASE engine'.at = "replace" /\ engine'.acq = engine.acq
    BY <2>2 DEF TypeOK, Private
  <2> QED
    BY <2>1, <2>2 DEF TypeOK
<1>4. Covering'
  BY DEF TypeOK, Covering, Private
<1>5. Overwritable'
  BY DEF TypeOK, Overwritable
<1>6. Pending'
  <2>1. \A b \in Acqs : timer'[b] = "armed" => timer[b] = "armed"
    BY DEF TypeOK
  <2>2. \A b \in Acqs : call'[b] # "none" => call[b] # "none" \/ b = engine.acq
    BY DEF TypeOK
  <2>3. engine.acq \in Acqs /\ engine.acq # None
    BY DedupAssumption DEF TypeOK
  <2>4. release[<<"call", engine.acq>>] = Idle
    BY <2>3 DEF Private
  <2> QED
    BY <2>1, <2>2, <2>4 DEF Pending
<1>7. NoStuckBit'
  BY ReleaserFacts DEF TypeOK, NoStuckBit, Matching, Private, Covering
<1>8. NoLostTimer'
  BY DEF TypeOK, NoLostTimer
<1> QED
  BY <1>1, <1>2, <1>3, <1>4, <1>5, <1>6, <1>7, <1>8

(* Replace keeps the inductive invariant.                                 *)
LEMMA ReplaceInv ==
  ASSUME IInv, Replace
  PROVE  IInv'
<1> USE DEF IInv, Replace, Releasers, Idle, Clearing, EngineSteps
<1>1. TypeOK'
  BY DEF TypeOK
<1>2. Matching'
  BY DEF Matching
<1>3. Private'
  BY DEF Private
<1>4. Covering'
  BY DEF Covering
<1>5. Overwritable'
  BY DEF Overwritable
<1>6. Pending'
  BY DedupAssumption DEF TypeOK, Pending, Private
<1>7. NoStuckBit'
  BY DEF NoStuckBit
<1>8. NoLostTimer'
  BY DEF TypeOK, NoLostTimer, Overwritable
<1> QED
  BY <1>1, <1>2, <1>3, <1>4, <1>5, <1>6, <1>7, <1>8

(* ClearTimer keeps the inductive invariant.                              *)
LEMMA ClearTimerInv ==
  ASSUME IInv, NEW id \in Ids, ClearTimer(id)
  PROVE  IInv'
<1> USE DEF IInv, ClearTimer, Stop, Releasers, Idle, Clearing, EngineSteps
<1>1. TypeOK'
  BY DEF TypeOK
<1>2. Matching'
  BY DEF Matching
<1>3. Private'
  BY DEF Private
<1>4. Covering'
  BY DEF Covering
<1>5. Overwritable'
  BY DEF Overwritable
<1>6. Pending'
  BY DEF TypeOK, Pending
<1>7. NoStuckBit'
  BY DEF NoStuckBit
<1>8. NoLostTimer'
  BY DEF TypeOK, NoLostTimer
<1> QED
  BY <1>1, <1>2, <1>3, <1>4, <1>5, <1>6, <1>7, <1>8

(* ClearBits keeps the inductive invariant.                               *)
LEMMA ClearBitsInv ==
  ASSUME IInv, ClearBits
  PROVE  IInv'
<1> USE DEF IInv, ClearBits, Releasers, Idle, Clearing, EngineSteps
<1>1. TypeOK'
  BY DEF TypeOK
<1>2. Matching'
  BY DEF Matching
<1>3. Private'
  BY DEF Private
<1>4. Covering'
  BY DEF Covering
<1>5. Overwritable'
  BY DEF Overwritable
<1>6. Pending'
  BY DEF Pending
<1>7. NoStuckBit'
  BY DEF NoStuckBit
<1>8. NoLostTimer'
  BY DEF NoLostTimer
<1> QED
  BY <1>1, <1>2, <1>3, <1>4, <1>5, <1>6, <1>7, <1>8

(* TimerFires keeps the inductive invariant.                              *)
LEMMA TimerFiresInv ==
  ASSUME IInv, NEW a \in Acqs, TimerFires(a)
  PROVE  IInv'
<1> USE DEF IInv, TimerFires, Idle, Clearing, EngineSteps
<1>1. TypeOK'
  BY DEF TypeOK
<1>2. Matching'
  BY DEF Matching
<1>3. Private'
  BY DEF Private
<1>4. Covering'
  BY ReleaserFacts DEF TypeOK, Covering, Private
<1>5. Overwritable'
  BY DEF Overwritable
<1>6. Pending'
  BY ReleaserFacts DEF TypeOK, Pending
<1>7. NoStuckBit'
  BY DedupAssumption DEF TypeOK, NoStuckBit, Releasers
<1>8. NoLostTimer'
  <2>1. \A p \in Releasers : release[p].acq # None => release'[p] = release[p]
    <3>1. release[<<"timer", a>>] = Idle
      BY DEF Pending
    <3> QED
      BY <3>1
  <2>2. \A b \in Acqs : timer'[b] = "armed" => timer[b] = "armed"
    BY DEF TypeOK
  <2> QED
    BY <2>1 DEF NoLostTimer
<1> QED
  BY <1>1, <1>2, <1>3, <1>4, <1>5, <1>6, <1>7, <1>8

(* CallReturns keeps the inductive invariant.                             *)
LEMMA CallReturnsInv ==
  ASSUME IInv, NEW a \in Acqs, CallReturns(a)
  PROVE  IInv'
<1> USE DEF IInv
<1>call. /\ call' \in [Acqs -> {"none", "placing", "forgotten"}]
         /\ call'[a] = "none"
         /\ \A b \in Acqs : b # a => call'[b] = call[b]
  BY DEF CallReturns, TypeOK
<1>same. /\ UNCHANGED <<inFlight, releaseTimers, of, timer, engine>>
         /\ release[<<"call", a>>] = Idle
  BY DEF CallReturns, Pending
<1>rel. /\ release' \in [Releasers -> [at : {"idle", "delete", "stop", "clear"},
                                       acq : Acqs \cup {None}]]
        /\ \A p \in Releasers : p # <<"call", a>> => release'[p] = release[p]
        /\ \/ release'[<<"call", a>>] = Idle
           \/ release'[<<"call", a>>] = [at |-> "delete", acq |-> None]
  <2>1. CASE release' = release
    BY <2>1, <1>same DEF TypeOK
  <2>2. CASE release' = [release EXCEPT ![<<"call", a>>] =
                           [at |-> "delete", acq |-> None]]
    BY <2>2, ReleaserFacts DEF TypeOK
  <2> QED
    BY <2>1, <2>2 DEF CallReturns
<1>a. \A p \in Releasers : release[p] # Idle => release'[p] = release[p]
  BY <1>same, <1>rel
<1>1. TypeOK'
  BY <1>call, <1>same, <1>rel DEF TypeOK
<1>2. Matching'
  <2>1. ASSUME NEW p \in Releasers
        PROVE  /\ release'[p].acq # None =>
                    release'[p].at = "stop" /\ of[release'[p].acq] = of[p[2]]
               /\ release'[p].at = "idle" => release'[p] = Idle
    <3>1. CASE p # <<"call", a>>
      BY <3>1, <1>rel DEF Matching
    <3>2. CASE p = <<"call", a>>
      BY <3>2, <1>rel DEF Idle
    <3> QED
      BY <3>1, <3>2
  <2> QED
    BY <2>1, <1>same DEF Matching
<1>3. Private'
  <2>1. SUFFICES ASSUME engine.acq # None PROVE Private'
    BY <1>same DEF Private
  <2>2. engine.acq # a /\ engine.acq \in Acqs
    BY <2>1, DedupAssumption DEF Private, TypeOK, CallReturns, Idle, Clearing
  <2>3. \A p \in Releasers : release'[p].acq # engine.acq
    BY <2>1, <1>rel DEF Private, Idle
  <2>4. /\ release'[<<"call", engine.acq>>] = release[<<"call", engine.acq>>]
        /\ release'[<<"timer", engine.acq>>] = release[<<"timer", engine.acq>>]
        /\ call'[engine.acq] = call[engine.acq]
    BY <2>2, <1>rel, <1>call, ReleaserFacts
  <2> QED
    BY <2>1, <2>3, <2>4, <1>same DEF Private
<1>4. Covering'
  <2>1. \A b \in Acqs : release'[<<"timer", b>>] = release[<<"timer", b>>]
    BY <1>rel, ReleaserFacts
  <2>2. engine.at \in {"keep", "replace"} => engine.acq \in Acqs
    BY DEF TypeOK, Idle, Clearing
  <2> QED
    BY <2>1, <2>2, <1>same DEF Covering
<1>5. Overwritable'
  BY <1>same DEF Overwritable
<1>6. Pending'
  <2>1. SUFFICES ASSUME NEW b \in Acqs
                 PROVE  /\ timer[b] = "armed" => release'[<<"timer", b>>] = Idle
                        /\ call'[b] # "none" => release'[<<"call", b>>] = Idle
    BY <1>same DEF Pending
  <2>2. release'[<<"timer", b>>] = release[<<"timer", b>>]
    BY <1>rel, ReleaserFacts
  <2>3. CASE b = a
    BY <2>2, <2>3, <1>call DEF Pending
  <2>4. CASE b # a
    <3>1. release'[<<"call", b>>] = release[<<"call", b>>]
      BY <2>4, <1>rel, ReleaserFacts
    <3> QED
      BY <2>2, <2>4, <3>1, <1>call DEF Pending
  <2> QED
    BY <2>3, <2>4
<1>7. NoStuckBit'
  BY <1>a, <1>same DEF NoStuckBit
<1>8. NoLostTimer'
  BY <1>a, <1>same, DedupAssumption DEF NoLostTimer, Idle
<1> QED
  BY <1>1, <1>2, <1>3, <1>4, <1>5, <1>6, <1>7, <1>8

(* LoadAndDelete keeps the inductive invariant.                           *)
LEMMA LoadAndDeleteInv ==
  ASSUME IInv, NEW p \in Releasers, LoadAndDelete(p)
  PROVE  IInv'
<1> USE DEF IInv, LoadAndDelete, Idle, Clearing, EngineSteps
<1>a. \A q \in Releasers : release[q] = Idle => release'[q] = Idle
  BY DEF TypeOK
<1>1. TypeOK'
  BY ReleaserFacts DEF TypeOK
<1>2. Matching'
  BY ReleaserFacts DEF TypeOK, Matching
<1>3. Private'
  BY ReleaserFacts DEF TypeOK, Private
<1>4. Covering'
  BY DEF Covering
<1>5. Overwritable'
  BY DEF Overwritable
<1>6. Pending'
  BY <1>a, ReleaserFacts DEF TypeOK, Pending
<1>7. NoStuckBit'
  BY DEF NoStuckBit
<1>8. NoLostTimer'
  BY DedupAssumption DEF TypeOK, NoLostTimer, Matching
<1> QED
  BY <1>1, <1>2, <1>3, <1>4, <1>5, <1>6, <1>7, <1>8

(* StopTimer keeps the inductive invariant.                               *)
LEMMA StopTimerInv ==
  ASSUME IInv, NEW p \in Releasers, StopTimer(p)
  PROVE  IInv'
<1> USE DEF IInv, StopTimer, Idle, Clearing, EngineSteps
<1>a. release[p].acq \in Acqs \cup {None}
  BY DEF TypeOK
<1>b. /\ timer' \in [Acqs -> {"off", "armed", "fired"}]
      /\ \A b \in Acqs :
           /\ timer'[b] = "armed" <=> timer[b] = "armed" /\ b # release[p].acq
           /\ timer[b] = "off" => timer'[b] = "off"
  BY <1>a, StopFacts
<1>c. \A q \in Releasers : release[q] = Idle => release'[q] = Idle
  BY DEF TypeOK
<1>1. TypeOK'
  BY <1>b DEF TypeOK
<1>2. Matching'
  BY DEF Matching
<1>3. Private'
  <2>1. \A q \in Releasers : release'[q].acq \in {release[q].acq, None}
    BY DEF TypeOK
  <2>2. \A a \in Acqs : release[<<"timer", a>>] = Idle => release'[<<"timer", a>>] = Idle
    BY <1>c, ReleaserFacts
  <2>3. \A a \in Acqs : release[<<"call", a>>] = Idle => release'[<<"call", a>>] = Idle
    BY <1>c, ReleaserFacts
  <2>4. engine.acq \in Acqs \cup {None}
    BY DEF TypeOK
  <2> QED
    BY <1>b, <2>1, <2>2, <2>3, <2>4 DEF Private
<1>4. Covering'
  <2>1. SUFFICES ASSUME engine.at \in {"keep", "replace"}, of[engine.acq] \in inFlight
                 PROVE  \/ timer'[engine.acq] = "armed"
                        \/ release'[<<"timer", engine.acq>>] # Idle
    BY DEF Covering
  <2>2. engine.acq \in Acqs /\ engine.acq # None
    BY <2>1, DedupAssumption DEF TypeOK
  <2>3. release[p].acq # engine.acq
    BY <2>2 DEF Private
  <2>4. CASE timer[engine.acq] = "armed"
    BY <2>2, <2>3, <2>4, <1>b
  <2>5. CASE release[<<"timer", engine.acq>>] # Idle
    BY <2>2, <2>5, ReleaserFacts DEF TypeOK
  <2> QED
    BY <2>1, <2>4, <2>5 DEF Covering
<1>5. Overwritable'
  BY <1>b DEF TypeOK, Overwritable
<1>6. Pending'
  BY <1>c, ReleaserFacts, <1>b DEF TypeOK, Pending
<1>7. NoStuckBit'
  BY DedupAssumption, <1>b DEF NoStuckBit, Matching
<1>8. NoLostTimer'
  BY <1>b DEF NoLostTimer
<1> QED
  BY <1>1, <1>2, <1>3, <1>4, <1>5, <1>6, <1>7, <1>8

(* ClearBit keeps the inductive invariant.                                *)
LEMMA ClearBitInv ==
  ASSUME IInv, NEW p \in Releasers, ClearBit(p)
  PROVE  IInv'
<1> USE DEF IInv, ClearBit, Releasers, Idle, Clearing, EngineSteps
<1>1. TypeOK'
  BY DEF TypeOK
<1>2. Matching'
  BY DEF Matching
<1>3. Private'
  BY DEF Private
<1>4. Covering'
  BY DEF Covering
<1>5. Overwritable'
  BY DEF Overwritable
<1>6. Pending'
  BY DedupAssumption DEF TypeOK, Pending, Private
<1>7. NoStuckBit'
  BY DEF NoStuckBit
<1>8. NoLostTimer'
  BY DEF NoLostTimer, Matching
<1> QED
  BY <1>1, <1>2, <1>3, <1>4, <1>5, <1>6, <1>7, <1>8

(* A step of the deduplicator, or none, keeps the inductive invariant.     *)
LEMMA NextInv ==
  ASSUME IInv, [Next]_dedupVars
  PROVE  IInv'
<1>1. CASE Engine
  BY <1>1, LoadClearInv, SetBitInv, ArmInv, LoadOrStoreInv, ReplaceInv,
     ClearTimerInv, ClearBitsInv DEF Engine
<1>2. CASE \E a \in Acqs : TimerFires(a) \/ CallReturns(a)
  BY <1>2, TimerFiresInv, CallReturnsInv
<1>3. CASE \E p \in Releasers : Releaser(p)
  BY <1>3, LoadAndDeleteInv, StopTimerInv, ClearBitInv DEF Releaser
<1>4. CASE UNCHANGED dedupVars
  BY <1>4 DEF dedupVars, IInv, TypeOK, Matching, Private, Covering, Overwritable,
     Pending, NoStuckBit, NoLostTimer
<1> QED
  BY <1>1, <1>2, <1>3, <1>4 DEF Next

-----------------------------------------------------------------------------
(* The inductive invariant holds of every reachable state, for any number  *)
(* of execution ids and of acquisitions alive at a time.                   *)
THEOREM Invariance == Spec => []IInv
BY InitInv, NextInv, PTL DEF Spec

(* The deduplicator's state has its type in every reachable state.         *)
THEOREM TypeCorrect == Spec => []TypeOK
<1>1. IInv => TypeOK
  BY DEF IInv
<1> QED
  BY <1>1, Invariance, PTL

(* However Releases, timers, TryAcquire and Clear interleave, a bit that   *)
(* is set has a timer, a Release or the engine that is going to clear it.  *)
THEOREM BitsAreNotStuck == Spec => []NoStuckBit
<1>1. IInv => NoStuckBit
  BY DEF IInv
<1> QED
  BY <1>1, Invariance, PTL

(* A running timer is in the map, or in the hands of a Release or of the   *)
(* engine, in every reachable state.                                       *)
THEOREM TimersAreNotLost == Spec => []NoLostTimer
<1>1. IInv => NoLostTimer
  BY DEF IInv
<1> QED
  BY <1>1, Invariance, PTL

-----------------------------------------------------------------------------
(* The deduplicator implements the set of ids that Oms has for it: an      *)
(* acquisition takes place when its bit is set, and its call counts as     *)
(* started from then on.                                                   *)
Started(a) ==
  \/ call[a] # "none"
  \/ engine.acq = a /\ engine.at \in {"arm", "keep", "replace"}

Placing == [a \in Acqs |-> IF Started(a) THEN of[a] ELSE None]

OMS == INSTANCE Held WITH held <- inFlight, placing <- Placing

(* Between the test of the bit and its setting nobody else sets it, so     *)
(* that an id that was found free is free when it is taken.                *)
StillFree == engine.at = "set" => of[engine.acq] \notin inFlight

(* No step but LoadClear comes to the setting of a bit, and no other but   *)
(* SetBit sets one.                                                        *)
LEMMA StillFreeStep ==
  ASSUME IInv, StillFree, [Next]_dedupVars
  PROVE  StillFree'
<1> USE DEF StillFree
<1>1. ASSUME NEW a \in Acqs, NEW id \in Ids, LoadClear(a, id) PROVE StillFree'
  BY <1>1 DEF LoadClear, IInv, TypeOK
<1>2. CASE SetBit \/ Arm \/ LoadOrStore \/ Replace \/ ClearBits
           \/ \E id \in Ids : ClearTimer(id)
  <2>1. engine'.at # "set"
    <3>1. engine \in {Idle, Clearing} \cup [at : EngineSteps, acq : Acqs]
      BY DEF IInv, TypeOK
    <3>2. CASE ClearBits \/ \E id \in Ids : ClearTimer(id)
      BY <3>2 DEF ClearBits, ClearTimer, Clearing, Idle
    <3>3. CASE SetBit
      BY <3>1, <3>3 DEF SetBit, Idle, Clearing
    <3>4. CASE Arm
      BY <3>1, <3>4 DEF Arm, Idle, Clearing
    <3>5. CASE LoadOrStore
      BY <3>1, <3>5 DEF LoadOrStore, Idle, Clearing
    <3>6. CASE Replace
      BY <3>6 DEF Replace, Idle
    <3> QED
      BY <1>2, <3>2, <3>3, <3>4, <3>5, <3>6
  <2> QED
    BY <2>1
<1>3. CASE \E a \in Acqs : TimerFires(a) \/ CallReturns(a)
  BY <1>3 DEF TimerFires, CallReturns
<1>4. CASE \E p \in Releasers : Releaser(p)
  BY <1>4 DEF Releaser, LoadAndDelete, StopTimer, ClearBit
<1>5. CASE UNCHANGED dedupVars
  BY <1>5 DEF dedupVars
<1> QED
  BY <1>1, <1>2, <1>3, <1>4, <1>5 DEF Next, Engine

(* Where the same calls count as started, for the same ids, the set of ids *)
(* sees the same calls.                                                    *)
LEMMA PlacingSame ==
  ASSUME \A a \in Acqs : /\ Started(a)' <=> Started(a)
                         /\ Started(a) => of'[a] = of[a]
  PROVE  Placing' = Placing
<1>1. \A a \in Acqs : (IF Started(a)' THEN of'[a] ELSE None)
                      = (IF Started(a) THEN of[a] ELSE None)
  OBVIOUS
<1> QED
  BY <1>1 DEF Placing

(* The engine's steps take an id, free them all, or do nothing to them.    *)
LEMMA EngineOnIds ==
  ASSUME IInv, StillFree, Engine
  PROVE  OMS!Next \/ UNCHANGED OMS!heldVars
<1>t. engine \in {Idle, Clearing} \cup [at : EngineSteps, acq : Acqs]
  BY DEF IInv, TypeOK
<1>1. ASSUME NEW a \in Acqs, NEW id \in Ids, LoadClear(a, id)
      PROVE  UNCHANGED OMS!heldVars
  <2>1. engine = Idle /\ call[a] = "none" /\ engine' = [at |-> "set", acq |-> a]
        /\ UNCHANGED <<call, inFlight>> /\ of' = [of EXCEPT ![a] = id]
    BY <1>1 DEF LoadClear, Over
  <2>2. of \in [Acqs -> Ids]
    BY DEF IInv, TypeOK
  <2>3. \A b \in Acqs : Started(b)' <=> Started(b)
    BY <2>1 DEF Started, Idle
  <2>4. \A b \in Acqs : Started(b) => of'[b] = of[b]
    BY <2>1, <2>2 DEF Started, Idle
  <2>5. Placing' = Placing
    BY <2>3, <2>4, PlacingSame
  <2> QED
    BY <2>1, <2>5 DEF OMS!heldVars
<1>2. CASE SetBit
  <2>1. engine \in [at : EngineSteps, acq : Acqs] /\ engine.at = "set"
    BY <1>2, <1>t DEF SetBit, Idle, Clearing
  <2> PICK a \in Acqs : a = engine.acq
    BY <2>1
  <2>2. /\ a \in Acqs /\ of[a] \in Ids /\ of[a] \notin inFlight
        /\ call[a] = "none" /\ ~Started(a)
    BY <2>1, DedupAssumption DEF IInv, TypeOK, Private, StillFree, Started
  <2>3. /\ engine'.at = "arm" /\ engine'.acq = a
        /\ inFlight' = inFlight \cup {of[a]} /\ UNCHANGED <<call, of>>
    BY <1>2, <2>1 DEF SetBit
  <2>4. Started(a)' /\ \A b \in Acqs \ {a} : Started(b)' <=> Started(b)
    <3>1. Started(a)'
      BY <2>3 DEF Started
    <3>2. ASSUME NEW b \in Acqs \ {a} PROVE Started(b)' <=> Started(b)
      BY <2>1, <2>3 DEF Started
    <3> QED
      BY <3>1, <3>2
  <2>5. \A b \in Acqs : (IF Started(b)' THEN of'[b] ELSE None)
                        = IF b = a THEN of[a]
                          ELSE IF Started(b) THEN of[b] ELSE None
    BY <2>2, <2>3, <2>4
  <2>6. Placing' = [Placing EXCEPT ![a] = of[a]] /\ Placing[a] = None
    BY <2>2, <2>5 DEF Placing
  <2>7. OMS!Take(a, of[a])
    BY <2>2, <2>3, <2>6 DEF OMS!Take
  <2> QED
    BY <2>2, <2>7 DEF OMS!Next
<1>3. CASE Arm
  <2>1. engine'.acq = engine.acq /\ engine.at = "arm" /\ engine'.at = "keep"
        /\ UNCHANGED <<call, of, inFlight>>
    BY <1>3, <1>t DEF Arm, Idle, Clearing
  <2>2. Placing' = Placing
    BY <2>1, PlacingSame DEF Started
  <2> QED
    BY <2>1, <2>2 DEF OMS!heldVars
<1>4. ASSUME call' = [call EXCEPT ![engine.acq] = "placing"], engine' = Idle,
             engine.at \in {"keep", "replace"}, UNCHANGED <<of, inFlight>>
      PROVE  UNCHANGED OMS!heldVars
  <2>1. engine.acq \in Acqs /\ call \in [Acqs -> {"none", "placing", "forgotten"}]
    BY <1>t, <1>4 DEF IInv, TypeOK, Idle, Clearing
  <2>2. \A b \in Acqs : Started(b)' <=> Started(b)
    <3>1. ASSUME NEW b \in Acqs, b = engine.acq PROVE Started(b)' /\ Started(b)
      BY <1>4, <2>1, <3>1 DEF Started
    <3>2. ASSUME NEW b \in Acqs, b # engine.acq PROVE Started(b)' <=> Started(b)
      BY <1>4, <2>1, <3>2 DEF Started, Idle
    <3> QED
      BY <3>1, <3>2
  <2>3. Placing' = Placing
    BY <1>4, <2>2, PlacingSame
  <2> QED
    BY <1>4, <2>3 DEF OMS!heldVars
<1>5. CASE LoadOrStore
  <2>1. CASE engine' = Idle
    <3>1. call' = [call EXCEPT ![engine.acq] = "placing"]
      <4>1. engine.at = "keep"
        BY <1>5 DEF LoadOrStore
      <4>2. engine' # [engine EXCEPT !.at = "replace"]
        BY <1>t, <2>1, <4>1 DEF Idle, Clearing
      <4> QED
        BY <1>5, <4>2 DEF LoadOrStore
    <3> QED
      BY <1>4, <1>5, <2>1, <3>1 DEF LoadOrStore
  <2>2. CASE engine' = [engine EXCEPT !.at = "replace"] /\ UNCHANGED call
    <3>1. engine.at = "keep" /\ engine'.at = "replace" /\ engine'.acq = engine.acq
          /\ UNCHANGED <<call, of, inFlight>>
      BY <1>5, <1>t, <2>2 DEF LoadOrStore, Idle, Clearing
    <3>2. Placing' = Placing
      BY <3>1, PlacingSame DEF Started
    <3> QED
      BY <3>1, <3>2 DEF OMS!heldVars
  <2> QED
    BY <1>5, <2>1, <2>2 DEF LoadOrStore
<1>6. CASE Replace
  BY <1>4, <1>6 DEF Replace
<1>7. ASSUME engine \in {Idle, Clearing}, engine' \in {Idle, Clearing},
             \A a \in Acqs : call'[a] # "none" <=> call[a] # "none",
             UNCHANGED of
      PROVE  Placing' = Placing
  BY <1>7, PlacingSame DEF Started, Idle, Clearing
<1>8. ASSUME NEW id \in Ids, ClearTimer(id) PROVE UNCHANGED OMS!heldVars
  BY <1>7, <1>8 DEF ClearTimer, OMS!heldVars
<1>9. CASE ClearBits
  <2>1. call' = [a \in Acqs |-> IF call[a] = "placing" THEN "forgotten" ELSE call[a]]
    BY <1>9 DEF ClearBits
  <2>2. \A a \in Acqs : call'[a] # "none" <=> call[a] # "none"
    BY <2>1
  <2>3. Placing' = Placing
    BY <1>7, <1>9, <2>2 DEF ClearBits
  <2> QED
    BY <1>9, <2>3 DEF ClearBits, OMS!Next, OMS!Reset
<1> QED
  BY <1>1, <1>2, <1>3, <1>5, <1>6, <1>8, <1>9 DEF Engine, OMS!heldVars

(* Every step of the deduplicator is one of the set of ids, or none.       *)
LEMMA StepOfHeld ==
  IInv /\ StillFree /\ [Next]_dedupVars => [OMS!Next]_OMS!heldVars
<1> SUFFICES ASSUME IInv, StillFree, [Next]_dedupVars
             PROVE  OMS!Next \/ UNCHANGED OMS!heldVars
  OBVIOUS
<1>1. CASE Engine
  BY <1>1, EngineOnIds
<1>2. ASSUME UNCHANGED <<call, engine, of>> PROVE Placing' = Placing
  BY <1>2, PlacingSame DEF Started
<1>3. ASSUME NEW a \in Acqs, TimerFires(a) PROVE UNCHANGED OMS!heldVars
  BY <1>2, <1>3 DEF TimerFires, OMS!heldVars
<1>4. ASSUME NEW a \in Acqs, CallReturns(a) PROVE OMS!Next
  <2>1. /\ of[a] \in Ids /\ call[a] # "none" /\ engine.acq # a /\ None \notin Ids
        /\ call \in [Acqs -> {"none", "placing", "forgotten"}]
    BY <1>4, DedupAssumption DEF CallReturns, IInv, TypeOK, Private
  <2>2. call' = [call EXCEPT ![a] = "none"] /\ UNCHANGED <<of, engine, inFlight>>
    BY <1>4 DEF CallReturns
  <2>3. \A b \in Acqs \ {a} : Started(b)' <=> Started(b)
    BY <2>1, <2>2 DEF Started
  <2>4. ~Started(a)' /\ Started(a)
    BY <2>1, <2>2 DEF Started
  <2>5. \A b \in Acqs : (IF Started(b)' THEN of'[b] ELSE None)
                        = IF b = a THEN None
                          ELSE IF Started(b) THEN of[b] ELSE None
    BY <2>2, <2>3, <2>4
  <2>6. Placing' = [Placing EXCEPT ![a] = None] /\ Placing[a] # None
    BY <2>1, <2>4, <2>5 DEF Placing
  <2>7. OMS!Return(a)
    BY <2>2, <2>6 DEF OMS!Return
  <2> QED
    BY <2>7 DEF OMS!Next
<1>5. ASSUME NEW p \in Releasers, Releaser(p)
      PROVE  OMS!Next \/ UNCHANGED OMS!heldVars
  <2>1. Placing' = Placing
    BY <1>2, <1>5 DEF Releaser, LoadAndDelete, StopTimer, ClearBit
  <2>2. CASE ClearBit(p)
    <3>1. of[p[2]] \in Ids
      BY ReleaserFacts DEF IInv, TypeOK
    <3>2. OMS!Free(of[p[2]])
      BY <2>1, <2>2 DEF ClearBit, OMS!Free
    <3> QED
      BY <3>1, <3>2 DEF OMS!Next
  <2>3. CASE LoadAndDelete(p) \/ StopTimer(p)
    BY <2>1, <2>3 DEF LoadAndDelete, StopTimer, OMS!heldVars
  <2> QED
    BY <1>5, <2>2, <2>3 DEF Releaser
<1>6. CASE UNCHANGED dedupVars
  BY <1>2, <1>6 DEF dedupVars, OMS!heldVars
<1> QED
  BY <1>1, <1>3, <1>4, <1>5, <1>6 DEF Next

(* Test, setting and start of the timer may be torn apart, Releases may    *)
(* come late and twice, and Clear between any two steps: the OMS need not  *)
(* know, and may take the deduplicator for a set of ids                    *)
(* (deduplicator.go:35-127, oms.go:349-430).                               *)
THEOREM ImplementsHeld == Spec => OMS!Spec
<1>1. Init => OMS!Init /\ StillFree
  <2> SUFFICES ASSUME Init PROVE OMS!Init /\ StillFree
    OBVIOUS
  <2>1. \A a \in Acqs : ~Started(a)
    BY DEF Init, Started, Idle
  <2>2. Placing = [a \in Acqs |-> None]
    BY <2>1 DEF Placing
  <2> QED
    BY <2>2 DEF Init, OMS!Init, StillFree, Idle
<1> QED
  BY <1>1, StillFreeStep, StepOfHeld, Invariance, PTL DEF Spec, OMS!Spec
=============================================================================
