-------------------------------- MODULE Bus --------------------------------
(***************************************************************************)
(* The event bus of internal/bus/bus.go and both its ends: the goroutines  *)
(* of an adapter that publish, and Run of internal/engine/engine.go, which *)
(* starts the adapter, receives, and closes the bus when the context is    *)
(* done.                                                                   *)
(*                                                                         *)
(* Publish is three separate steps: the test of closed under the mutex,    *)
(* the increment of seq, and the select between sending and giving up.     *)
(* The adapter is the polymarket one: its Start publishes a snapshot, from *)
(* the goroutine of Run, before it starts the goroutines of its loops.     *)
(* Events are told apart by their publisher and their number.              *)
(***************************************************************************)
EXTENDS Integers, Sequences, FiniteSets

CONSTANTS
  Publishers,  \* the goroutines that publish
  Starter,     \* the one that runs Start and then Run's loop
  Buffers,     \* the values of Config.BusBuffer
  MaxSeq       \* bound on the calls of Publish that pass the test of closed

ASSUME BusAssumption ==
  /\ Starter \in Publishers
  /\ Buffers \subseteq Int
  /\ MaxSeq \in Nat

VARIABLES
  capacity,   \* of the channel
  ch,         \* the channel's buffer
  seq,        \* b.seq
  closed,     \* b.closed, and the channel is closed
  pc,         \* pc[p]: where p is in Publish
  stamp,      \* stamp[p]: the Seq of the event p is publishing
  accepted,   \* accepted[p]: how many events p has sent (their numbers)
  delivered,  \* delivered[p]: the number of the last event received from p
  run,        \* where Run is
  ctxDone

vars == <<capacity, ch, seq, closed, pc, stamp, accepted, delivered, run, ctxDone>>

-----------------------------------------------------------------------------
(* Mutant of New: a buffer of 0 is taken as it is.                         *)
NewAsGiven(buffer) == buffer

New(buffer) == IF buffer <= 0 THEN 1 ELSE buffer

(* Start calls Publish once; the loops run from its return on.             *)
MayPublish(p) == IF p = Starter THEN run = "starting"
                 ELSE run \in {"receiving", "returned"}

(* A closed bus turns the call away.                                       *)
CheckClosed(p) ==
  /\ pc[p] = "idle"
  /\ MayPublish(p)
  /\ ~closed
  /\ seq + Cardinality({q \in Publishers : pc[q] = "checked"}) < MaxSeq
  /\ pc' = [pc EXCEPT ![p] = "checked"]
  /\ UNCHANGED <<capacity, ch, seq, closed, stamp, accepted, delivered, run, ctxDone>>

(* Mutant of Stamp: seq++, and an increment may be lost to another.        *)
StampFromLoad(p) ==
  /\ pc[p] = "checked"
  /\ seq' \in {seq, seq + 1}
  /\ stamp' = [stamp EXCEPT ![p] = seq + 1]
  /\ pc' = [pc EXCEPT ![p] = "select"]
  /\ UNCHANGED <<capacity, ch, closed, accepted, delivered, run, ctxDone>>

Stamp(p) ==
  /\ pc[p] = "checked"
  /\ seq' = seq + 1
  /\ stamp' = [stamp EXCEPT ![p] = seq + 1]
  /\ pc' = [pc EXCEPT ![p] = "select"]
  /\ UNCHANGED <<capacity, ch, closed, accepted, delivered, run, ctxDone>>

(* Publish returns; Start goes on.                                         *)
Return(p) ==
  /\ pc' = [pc EXCEPT ![p] = "idle"]
  /\ run' = IF p = Starter THEN "announced" ELSE run

Event(p) == [pub |-> p, num |-> accepted[p] + 1, seq |-> stamp[p]]

(* Mutant of Send: an event that finds no room is dropped.                 *)
SendOrDrop(p) ==
  /\ pc[p] = "select"
  /\ ~closed
  /\ ch' = IF Len(ch) < capacity THEN Append(ch, Event(p)) ELSE ch
  /\ accepted' = [accepted EXCEPT ![p] = @ + 1]
  /\ Return(p)
  /\ UNCHANGED <<capacity, seq, closed, stamp, delivered, ctxDone>>

(* The select of Publish: the event is sent when there is room ...         *)
Send(p) ==
  /\ pc[p] = "select"
  /\ ~closed
  /\ Len(ch) < capacity
  /\ ch' = Append(ch, Event(p))
  /\ accepted' = [accepted EXCEPT ![p] = @ + 1]
  /\ Return(p)
  /\ UNCHANGED <<capacity, seq, closed, stamp, delivered, ctxDone>>

(* ... or the context is done, which callers do not look at ...            *)
GiveUp(p) ==
  /\ pc[p] = "select"
  /\ ctxDone
  /\ Return(p)
  /\ UNCHANGED <<capacity, ch, seq, closed, stamp, accepted, delivered, ctxDone>>

(* ... or the send comes first and meets a closed channel.                 *)
SendOnClosed(p) ==
  /\ pc[p] = "select"
  /\ closed
  /\ pc' = [pc EXCEPT ![p] = "panicked"]
  /\ UNCHANGED <<capacity, ch, seq, closed, stamp, accepted, delivered, run, ctxDone>>

-----------------------------------------------------------------------------
(* Start fails before its snapshot is out (discover) or after that         *)
(* (initTrading), and Run with it, without closing the bus ...             *)
StartFails ==
  /\ run \in {"starting", "announced"}
  /\ pc[Starter] = "idle"
  /\ run' = "failed"
  /\ UNCHANGED <<capacity, ch, seq, closed, pc, stamp, accepted, delivered, ctxDone>>

(* ... or it starts the goroutines of the loops and returns.               *)
StartReturns ==
  /\ run = "announced"
  /\ run' = "receiving"
  /\ UNCHANGED <<capacity, ch, seq, closed, pc, stamp, accepted, delivered, ctxDone>>

(* The loop of Run: an event is received and handled ...                   *)
Receive ==
  /\ run = "receiving"
  /\ ch # <<>>
  /\ ch' = Tail(ch)
  /\ delivered' = [delivered EXCEPT ![Head(ch).pub] = Head(ch).num]
  /\ UNCHANGED <<capacity, seq, closed, pc, stamp, accepted, run, ctxDone>>

(* Mutant of Stop: Run returns, and closes the bus, for another reason.    *)
StopAtWill ==
  /\ run = "receiving"
  /\ run' = "returned"
  /\ closed' = TRUE
  /\ UNCHANGED <<capacity, ch, seq, pc, stamp, accepted, delivered, ctxDone>>

(* ... or the context is done, and the bus is closed on the way out.       *)
Stop ==
  /\ run = "receiving"
  /\ ctxDone
  /\ run' = "returned"
  /\ closed' = TRUE
  /\ UNCHANGED <<capacity, ch, seq, pc, stamp, accepted, delivered, ctxDone>>

(* A signal to the process.                                                *)
Cancel ==
  /\ ~ctxDone
  /\ ctxDone' = TRUE
  /\ UNCHANGED <<capacity, ch, seq, closed, pc, stamp, accepted, delivered, run>>

-----------------------------------------------------------------------------
Init ==
  /\ capacity \in {New(b) : b \in Buffers}
  /\ ch = <<>>
  /\ seq = 0
  /\ closed = FALSE
  /\ pc = [p \in Publishers |-> "idle"]
  /\ stamp = [p \in Publishers |-> 0]
  /\ accepted = [p \in Publishers |-> 0]
  /\ delivered = [p \in Publishers |-> 0]
  /\ run = "starting"
  /\ ctxDone = FALSE

Select(p) == Send(p) \/ GiveUp(p) \/ SendOnClosed(p)

Publish(p) == CheckClosed(p) \/ Stamp(p) \/ Select(p)

Next ==
  \/ \E p \in Publishers : Publish(p)
  \/ StartFails \/ StartReturns \/ Receive \/ Stop \/ Cancel

Spec == Init /\ [][Next]_vars

(* Goroutines run; Run loops; and room that is made in the channel goes to *)
(* the sender that has waited longest, so that a sender is not overtaken   *)
(* for ever.                                                               *)
Fairness ==
  /\ \A p \in Publishers : WF_vars(Stamp(p)) /\ SF_vars(Select(p))
  /\ WF_vars(StartFails \/ StartReturns)
  /\ WF_vars(Receive \/ Stop)

FairSpec == Spec /\ Fairness

-----------------------------------------------------------------------------
Events == [pub : Publishers, num : Nat \ {0}, seq : Nat]

(* Every variable has its type, and the channel holds no more than its     *)
(* buffer has places, which is at least one.                               *)
TypeOK ==
  /\ capacity \in {New(b) : b \in Buffers}
  /\ ch \in Seq(Events) /\ Len(ch) <= capacity
  /\ seq \in Nat
  /\ closed \in BOOLEAN
  /\ pc \in [Publishers -> {"idle", "checked", "select", "panicked"}]
  /\ stamp \in [Publishers -> Nat]
  /\ accepted \in [Publishers -> Nat]
  /\ delivered \in [Publishers -> Nat]
  /\ run \in {"starting", "announced", "failed", "receiving", "returned"}
  /\ ctxDone \in BOOLEAN

(* A Seq names one event, and orders the events of one goroutine: those in *)
(* the channel, and those on their way into it (bus.go:63, types.go:50).   *)
SeqIdentifies ==
  /\ \A i, j \in 1..Len(ch) :
       i < j => /\ ch[i].seq # ch[j].seq
                /\ ch[i].pub = ch[j].pub => ch[i].seq < ch[j].seq
  /\ \A p \in Publishers : pc[p] = "select" =>
       /\ \A i \in 1..Len(ch) :
            /\ ch[i].seq # stamp[p]
            /\ ch[i].pub = p => ch[i].seq < stamp[p]
       /\ \A q \in Publishers : pc[q] = "select" /\ stamp[q] = stamp[p] => q = p

(* A publisher can be caught by the closing of the bus between its test of *)
(* closed and its send, and panic, but not before the context is done      *)
(* (engine.go:83-88, bus.go:53-70).                                        *)
PanicOnlyAtShutdown == \A p \in Publishers : pc[p] = "panicked" => ctxDone

(* No goroutine hangs in Publish, however full the bus is, and Start does  *)
(* not wait for the loop that runs after it (bus.go:28-35).                *)
EveryPublishReturns ==
  \A p \in Publishers : pc[p] \in {"checked", "select"} ~> pc[p] \in {"idle", "panicked"}

(* The bus is the feed the engine relies on.                               *)
Engine == INSTANCE Feed WITH over <- ctxDone \/ run = "failed"

ImplementsFeed == Engine!FairSpec
=============================================================================
