------------------------------- MODULE Dedup -------------------------------
(***************************************************************************)
(* The execution deduplicator of internal/execution/deduplicator.go with   *)
(* the three kinds of goroutine that use it: the engine (TryAcquire, then  *)
(* one goroutine per accepted order, and Clear at a new cycle), the        *)
(* goroutines that place the orders (Release when the call fails), and the *)
(* timers of the dedup window (Release when it is over).                   *)
(*                                                                         *)
(* Bits are read and written by atomic operations and timers are kept in a *)
(* sync.Map, but nothing makes a sequence of them atomic: one action here  *)
(* is one such operation.  Only the engine sets bits, so that an id may be *)
(* taken as a bit of its own word.                                         *)
(*                                                                         *)
(* An acquisition is a successful TryAcquire; its timer and its place call *)
(* go by its name.  One that has ended in every respect may be reused.     *)
(***************************************************************************)
EXTENDS FiniteSets

CONSTANTS
  Ids,    \* execution ids
  Acqs,   \* acquisitions (bound on those alive at a time)
  None

ASSUME DedupAssumption == None \notin Acqs /\ None \notin Ids /\ Ids # {}

VARIABLES
  inFlight,      \* the ids whose bit is set
  releaseTimers, \* the sync.Map: the acquisition whose timer is stored, or None
  of,            \* of[a]: the id a was acquired for
  timer,         \* timer[a]: "armed", "fired" or "off" (not started or stopped)
  call,          \* call[a]: the place call of a: "none", "placing", or
                 \* "forgotten" when Clear has run since it was made
  release,       \* release[p]: where the Release that p is in has got to
  engine         \* the step of TryAcquire or Clear the engine is at

dedupVars == <<inFlight, releaseTimers, of, timer, call, release, engine>>

-----------------------------------------------------------------------------
(* Those that call Release: the place call of a, and the timer of a.       *)
Releasers == {"call", "timer"} \X Acqs

Idle == [at |-> "idle", acq |-> None]
EngineSteps == {"set", "arm", "keep", "replace"}
Clearing == [at |-> "clear", acq |-> None]

Stop(ts, a) == IF a # None /\ ts[a] = "armed" THEN [ts EXCEPT ![a] = "off"]
               ELSE ts

(* Nothing is left of a.                                                   *)
Over(a) ==
  /\ timer[a] # "armed"
  /\ call[a] = "none"
  /\ \A p \in Releasers : /\ p[2] = a => release[p] = Idle
                          /\ release[p].acq # a
  /\ \A id \in Ids : releaseTimers[id] # a
  /\ engine.acq # a

-----------------------------------------------------------------------------
(* TryAcquire: the bit is read, and if it is clear set.                    *)
LoadClear(a, id) ==
  /\ engine = Idle
  /\ id \notin inFlight
  /\ Over(a)
  /\ engine' = [at |-> "set", acq |-> a]
  /\ of' = [of EXCEPT ![a] = id]
  /\ timer' = [timer EXCEPT ![a] = "off"]
  /\ UNCHANGED <<inFlight, releaseTimers, call, release>>

SetBit ==
  /\ engine.at = "set"
  /\ inFlight' = inFlight \cup {of[engine.acq]}
  /\ engine' = [engine EXCEPT !.at = "arm"]
  /\ UNCHANGED <<releaseTimers, of, timer, call, release>>

(* scheduleRelease: AfterFunc, and LoadOrStore of the timer; if another is *)
(* there it is stopped and overwritten.  The goroutine starts at the end.  *)
Arm ==
  /\ engine.at = "arm"
  /\ timer' = [timer EXCEPT ![engine.acq] = "armed"]
  /\ engine' = [engine EXCEPT !.at = "keep"]
  /\ UNCHANGED <<inFlight, releaseTimers, of, call, release>>

(* Mutant: the timer that is overwritten is not stopped.                   *)
LoadOrOverwrite ==
  LET id == of[engine.acq] IN
  /\ engine.at = "keep"
  /\ releaseTimers' = [releaseTimers EXCEPT ![id] = engine.acq]
  /\ call' = [call EXCEPT ![engine.acq] = "placing"]
  /\ engine' = Idle
  /\ UNCHANGED <<inFlight, of, timer, release>>

LoadOrStore ==
  LET a == engine.acq
      id == of[engine.acq] IN
  /\ engine.at = "keep"
  /\ \/ /\ releaseTimers[id] = None
        /\ releaseTimers' = [releaseTimers EXCEPT ![id] = a]
        /\ call' = [call EXCEPT ![a] = "placing"]
        /\ engine' = Idle
        /\ UNCHANGED timer
     \/ /\ releaseTimers[id] # None
        /\ timer' = Stop(timer, releaseTimers[id])
        /\ engine' = [engine EXCEPT !.at = "replace"]
        /\ UNCHANGED <<releaseTimers, call>>
  /\ UNCHANGED <<inFlight, of, release>>

Replace ==
  /\ engine.at = "replace"
  /\ releaseTimers' = [releaseTimers EXCEPT ![of[engine.acq]] = engine.acq]
  /\ call' = [call EXCEPT ![engine.acq] = "placing"]
  /\ engine' = Idle
  /\ UNCHANGED <<inFlight, of, timer, release>>

(* Clear: Range stops and deletes what it meets, then every word is zeroed.*)
ClearTimer(id) ==
  /\ engine \in {Idle, Clearing}
  /\ releaseTimers[id] # None
  /\ timer' = Stop(timer, releaseTimers[id])
  /\ releaseTimers' = [releaseTimers EXCEPT ![id] = None]
  /\ engine' = Clearing
  /\ UNCHANGED <<inFlight, of, call, release>>

ClearBits ==
  /\ engine \in {Idle, Clearing}
  /\ \A id \in Ids : releaseTimers[id] = None
  /\ inFlight' = {}
  /\ engine' = Idle
  /\ call' = [a \in Acqs |-> IF call[a] = "placing" THEN "forgotten" ELSE call[a]]
  /\ UNCHANGED <<releaseTimers, of, timer, release>>

-----------------------------------------------------------------------------
(* The window of a is over: its timer's goroutine starts.                  *)
TimerFires(a) ==
  /\ timer[a] = "armed"
  /\ timer' = [timer EXCEPT ![a] = "fired"]
  /\ release' = [release EXCEPT ![<<"timer", a>>] = [at |-> "delete", acq |-> None]]
  /\ UNCHANGED <<inFlight, releaseTimers, of, call, engine>>

(* The place call of a returns: a failure releases, a success does not.    *)
CallReturns(a) ==
  /\ call[a] # "none"
  /\ call' = [call EXCEPT ![a] = "none"]
  /\ release' \in {release,
       [release EXCEPT ![<<"call", a>>] = [at |-> "delete", acq |-> None]]}
  /\ UNCHANGED <<inFlight, releaseTimers, of, timer, engine>>

(* Mutant of LoadAndDelete: no timer, nothing to release.                  *)
LoadAndDeleteOrReturn(p) ==
  LET id == of[p[2]] IN
  /\ release[p].at = "delete"
  /\ releaseTimers' = [releaseTimers EXCEPT ![id] = None]
  /\ release' = [release EXCEPT ![p] =
       IF releaseTimers[id] = None THEN Idle
       ELSE [at |-> "stop", acq |-> releaseTimers[id]]]
  /\ UNCHANGED <<inFlight, of, timer, call, engine>>

(* Release: LoadAndDelete of the id's timer, whosever it is; Stop; And.    *)
LoadAndDelete(p) ==
  LET id == of[p[2]] IN
  /\ release[p].at = "delete"
  /\ releaseTimers' = [releaseTimers EXCEPT ![id] = None]
  /\ release' = [release EXCEPT ![p] = [at |-> "stop", acq |-> releaseTimers[id]]]
  /\ UNCHANGED <<inFlight, of, timer, call, engine>>

(* Mutant of StopTimer: a timer that cannot be stopped any more, or is not *)
(* there, ends the Release.                                                *)
StopTimerOrReturn(p) ==
  /\ release[p].at = "stop"
  /\ timer' = Stop(timer, release[p].acq)
  /\ release' = [release EXCEPT ![p] =
       IF timer' = timer THEN Idle ELSE [at |-> "clear", acq |-> None]]
  /\ UNCHANGED <<inFlight, releaseTimers, of, call, engine>>

StopTimer(p) ==
  /\ release[p].at = "stop"
  /\ timer' = Stop(timer, release[p].acq)
  /\ release' = [release EXCEPT ![p] = [at |-> "clear", acq |-> None]]
  /\ UNCHANGED <<inFlight, releaseTimers, of, call, engine>>

ClearBit(p) ==
  /\ release[p].at = "clear"
  /\ inFlight' = inFlight \ {of[p[2]]}
  /\ release' = [release EXCEPT ![p] = Idle]
  /\ UNCHANGED <<releaseTimers, of, timer, call, engine>>

-----------------------------------------------------------------------------
Engine ==
  \/ \E a \in Acqs, id \in Ids : LoadClear(a, id)
  \/ SetBit \/ Arm \/ LoadOrStore \/ Replace
  \/ \E id \in Ids : ClearTimer(id)
  \/ ClearBits

Releaser(p) == LoadAndDelete(p) \/ StopTimer(p) \/ ClearBit(p)

Init ==
  /\ inFlight = {}
  /\ releaseTimers = [id \in Ids |-> None]
  /\ of = [a \in Acqs |-> CHOOSE id \in Ids : TRUE]
  /\ timer = [a \in Acqs |-> "off"]
  /\ call = [a \in Acqs |-> "none"]
  /\ release = [p \in Releasers |-> Idle]
  /\ engine = Idle

Next ==
  \/ Engine
  \/ \E a \in Acqs : TimerFires(a) \/ CallReturns(a)
  \/ \E p \in Releasers : Releaser(p)

Spec == Init /\ [][Next]_dedupVars

(* Timers fire, and goroutines that have started run to their end.         *)
Fairness ==
  /\ \A a \in Acqs : WF_dedupVars(TimerFires(a))
  /\ \A p \in Releasers : WF_dedupVars(Releaser(p))
  /\ WF_dedupVars(engine # Idle /\ Engine)

FairSpec == Spec /\ Fairness

-----------------------------------------------------------------------------
(* Every variable has its type, and the engine's acquisition is one only    *)
(* while it is at a step of TryAcquire.                                    *)
TypeOK ==
  /\ inFlight \subseteq Ids
  /\ releaseTimers \in [Ids -> Acqs \cup {None}]
  /\ of \in [Acqs -> Ids]
  /\ timer \in [Acqs -> {"off", "armed", "fired"}]
  /\ call \in [Acqs -> {"none", "placing", "forgotten"}]
  /\ release \in [Releasers -> [at : {"idle", "delete", "stop", "clear"},
                               acq : Acqs \cup {None}]]
  /\ engine \in {Idle, Clearing} \cup [at : EngineSteps, acq : Acqs]

(* No bit is stuck: whatever stale Releases have stopped or deleted, some- *)
(* one is still going to clear it, a timer, a Release on its way, or the   *)
(* engine, which is about to start a timer or to zero the words            *)
(* (deduplicator.go:61-93: Stop without And would lose a price for ever).  *)
NoStuckBit ==
  \A id \in inFlight :
    \/ \E a \in Acqs : of[a] = id /\ timer[a] = "armed"
    \/ \E p \in Releasers : of[p[2]] = id /\ release[p] # Idle
    \/ engine.at = "arm" /\ of[engine.acq] = id
    \/ engine = Clearing

(* Every running timer can still be stopped: it is in the map, or in the   *)
(* hands of whoever took it out or is about to put it in                   *)
(* (deduplicator.go:82-92).  Clear thus leaves no timer of the old cycle   *)
(* running but those a Release is about to stop.                           *)
NoLostTimer ==
  \A a \in Acqs : timer[a] = "armed" =>
    \/ releaseTimers[of[a]] = a
    \/ \E p \in Releasers : release[p].acq = a
    \/ engine.acq = a

(* An execution id does not stay taken for ever (deduplicator.go:54).      *)
EveryBitIsReleased ==
  \A id \in Ids : id \in inFlight ~> id \notin inFlight

(* "prevents duplicate order execution" (oms.go:142): within a cycle two   *)
(* place calls of an execution id are in flight together only after the    *)
(* window of one of them.                                                  *)
NoDuplicateExecution ==
  \A a, b \in Acqs :
    a # b /\ of[a] = of[b] /\ call[a] = "placing" /\ call[b] = "placing"
      => timer[a] = "fired" \/ timer[b] = "fired"
=============================================================================
