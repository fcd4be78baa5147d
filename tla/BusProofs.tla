----------------------------- MODULE BusProofs -----------------------------
(***************************************************************************)
(* The bus is the feed the engine relies on, for any number of publishers, *)
(* any capacity and any number of events, as far as safety goes.           *)
(*                                                                         *)
(* The events of one publisher that have been accepted and not delivered   *)
(* lie in the channel, all of them and in their order (Numbered), so that  *)
(* the one at its head is the next of its publisher; and the snapshot of   *)
(* Start keeps the head until it is received (SnapshotFirst).              *)
(***************************************************************************)
EXTENDS Bus, TLAPS

(* Every accepted event that is still to be delivered is in the channel.   *)
Numbered ==
  /\ \A p \in Publishers : delivered[p] <= accepted[p]
  /\ \A i \in 1..Len(ch) : /\ delivered[ch[i].pub] < ch[i].num
                           /\ ch[i].num <= accepted[ch[i].pub]
  /\ \A i, j \in 1..Len(ch) :
       i < j /\ ch[i].pub = ch[j].pub => ch[i].num < ch[j].num
  /\ \A p \in Publishers, k \in Nat :
       delivered[p] < k /\ k <= accepted[p] =>
         \E i \in 1..Len(ch) : ch[i].pub = p /\ ch[i].num = k

(* The loops publish after Start, and Start publishes before they do.      *)
Gated ==
  /\ pc[Starter] \in {"checked", "select"} => run = "starting"
  /\ \A p \in Publishers \ {Starter} :
       pc[p] # "idle" => run \in {"receiving", "returned"}

(* Unless all is over, what Start publishes is received first.             *)
SnapshotFirst ==
  \/ ctxDone \/ run = "failed"
  \/ delivered[Starter] > 0
  \/ Len(ch) > 0 /\ ch[1].pub = Starter
  \/ run = "starting" /\ ch = <<>>

(* No Seq is given before it is counted.                                   *)
Stamped ==
  /\ \A i \in 1..Len(ch) : ch[i].seq <= seq
  /\ \A p \in Publishers : pc[p] = "select" => stamp[p] <= seq

(* Run closes the bus when the context is done, and only a closed bus can  *)
(* make a send panic.                                                      *)
Closing ==
  /\ closed => ctxDone
  /\ \A p \in Publishers : pc[p] = "panicked" => closed

IInv == TypeOK /\ Numbered /\ Gated /\ SnapshotFirst /\ Stamped /\ Closing
          /\ SeqIdentifies

-----------------------------------------------------------------------------
(* The capacity of a bus is a positive number.                             *)
LEMMA CapacityFacts == \A b \in Buffers : New(b) \in Nat /\ New(b) > 0
BY BusAssumption DEF New

(* What lies in the channel is events.                                     *)
LEMMA EventFacts ==
  ASSUME TypeOK
  PROVE  /\ Len(ch) \in Nat
         /\ \A i \in 1..Len(ch) : /\ ch[i].pub \in Publishers
                                  /\ ch[i].num \in Nat /\ ch[i].num > 0
                                  /\ ch[i].seq \in Nat
<1>1. Len(ch) \in Nat /\ \A i \in 1..Len(ch) : ch[i] \in Events
  BY DEF TypeOK
<1>2. ASSUME NEW e \in Events
      PROVE  e.pub \in Publishers /\ e.num \in Nat /\ e.num > 0 /\ e.seq \in Nat
  BY DEF Events
<1> QED
  BY <1>1, <1>2

(* The inductive invariant holds of a bus that has just been made.         *)
LEMMA InitInv == Init => IInv
<1> SUFFICES ASSUME Init PROVE IInv
  OBVIOUS
<1>1. TypeOK
  <2>1. ch \in Seq(Events) /\ Len(ch) = 0 /\ capacity > 0 /\ capacity \in Nat
    BY CapacityFacts DEF Init
  <2>2. Len(ch) <= capacity
    BY <2>1
  <2> QED
    BY <2>1, <2>2 DEF Init, TypeOK
<1>2. Numbered /\ Gated /\ SnapshotFirst /\ Stamped /\ Closing
  BY BusAssumption DEF Init, Numbered, Gated, SnapshotFirst, Stamped, Closing
<1>3. SeqIdentifies
  BY DEF Init, SeqIdentifies
<1> QED
  BY <1>1, <1>2, <1>3 DEF IInv

(* CheckClosed keeps the inductive invariant.                              *)
LEMMA CheckClosedInv ==
  ASSUME IInv, NEW p \in Publishers, CheckClosed(p)
  PROVE  IInv'
<1> USE BusAssumption DEF IInv, CheckClosed
<1>1. TypeOK'
  BY CapacityFacts DEF TypeOK, MayPublish
<1>2. Numbered'
  BY DEF Numbered
<1>3. Gated'
  BY DEF TypeOK, MayPublish, Gated
<1>4. SnapshotFirst'
  BY DEF SnapshotFirst
<1>5. Stamped'
  BY DEF TypeOK, MayPublish, Stamped
<1>6. Closing'
  BY DEF TypeOK, MayPublish, Closing, Gated
<1>7. SeqIdentifies'
  BY DEF TypeOK, MayPublish, SeqIdentifies, Stamped
<1> QED
  BY <1>1, <1>2, <1>3, <1>4, <1>5, <1>6, <1>7 DEF IInv

(* Stamp keeps the inductive invariant.                                    *)
LEMMA StampInv ==
  ASSUME IInv, NEW p \in Publishers, Stamp(p)
  PROVE  IInv'
<1> USE BusAssumption DEF IInv, Stamp
<1>b. seq \in Nat /\ seq' = seq + 1 /\ ch' = ch
  BY DEF TypeOK
<1>c. /\ stamp'[p] = seq'
      /\ \A q \in Publishers : q # p => stamp'[q] = stamp[q] /\ pc'[q] = pc[q]
      /\ stamp' \in [Publishers -> Nat]
  BY DEF TypeOK
<1>1. TypeOK'
  BY CapacityFacts DEF TypeOK
<1>2. Numbered'
  BY DEF Numbered
<1>3. Gated'
  BY DEF TypeOK, Gated
<1>4. SnapshotFirst'
  BY DEF SnapshotFirst
<1>5. Stamped'
  <2>1. \A i \in 1..Len(ch) : ch[i].seq \in Nat /\ ch[i].seq <= seq
    BY EventFacts DEF Stamped
  <2>2. ASSUME NEW q \in Publishers, pc'[q] = "select"
        PROVE  stamp'[q] <= seq'
    BY <1>b, <1>c, <2>2 DEF Stamped, TypeOK
  <2>3. \A i \in 1..Len(ch') : ch'[i].seq <= seq'
    BY <1>b, <2>1
  <2> QED
    BY <2>2, <2>3 DEF Stamped
<1>6. Closing'
  BY DEF TypeOK, Closing, Gated
<1>7. SeqIdentifies'
  <2>1. \A i \in 1..Len(ch) : ch[i].seq \in Nat /\ ch[i].seq < seq'
    BY <1>b, EventFacts DEF Stamped
  <2>2. ASSUME NEW i \in 1..Len(ch), NEW q \in Publishers, pc'[q] = "select"
        PROVE  ch[i].seq # stamp'[q] /\ (ch[i].pub = q => ch[i].seq < stamp'[q])
    BY <1>b, <1>c, <2>1, <2>2 DEF SeqIdentifies
  <2>3. ASSUME NEW q \in Publishers, pc'[q] = "select",
               NEW r \in Publishers, pc'[r] = "select", stamp'[q] = stamp'[r]
        PROVE  q = r
    <3>1. ASSUME NEW t \in Publishers, t # p, pc'[t] = "select"
          PROVE  stamp'[t] < seq'
      <4>1. stamp[t] \in Nat /\ stamp'[t] = stamp[t] /\ stamp[t] <= seq
        BY <1>c, <3>1 DEF Stamped, TypeOK
      <4> QED
        BY <1>b, <4>1
    <3>2. stamp'[p] = seq'
      BY <1>b, <1>c
    <3>3. q = p <=> r = p
      BY <1>b, <2>3, <3>1, <3>2
    <3> QED
      BY <1>c, <2>3, <3>3 DEF SeqIdentifies
  <2> QED
    BY <1>b, <2>2, <2>3 DEF SeqIdentifies
<1> QED
  BY <1>1, <1>2, <1>3, <1>4, <1>5, <1>6, <1>7 DEF IInv

(* Send keeps the inductive invariant.                                     *)
LEMMA SendInv ==
  ASSUME IInv, NEW p \in Publishers, Send(p)
  PROVE  IInv'
<1> USE BusAssumption DEF IInv, Send, Return
<1>a. /\ Event(p) \in Events
      /\ Event(p).pub = p /\ Event(p).num = accepted[p] + 1
      /\ Event(p).seq = stamp[p]
  BY DEF TypeOK, Event, Events
<1>b. /\ ch' \in Seq(Events)
      /\ Len(ch') = Len(ch) + 1
      /\ ch'[Len(ch) + 1] = Event(p)
      /\ \A i \in 1..Len(ch) : ch'[i] = ch[i]
  BY <1>a DEF TypeOK
<1>c. Len(ch) \in Nat /\ \A i \in 1..Len(ch') : i \in 1..Len(ch) \/ i = Len(ch) + 1
  BY <1>b DEF TypeOK
<1>d. \A q \in Publishers : pc'[q] = "select" <=> pc[q] = "select" /\ q # p
  BY DEF TypeOK
<1>1. TypeOK'
  BY CapacityFacts, <1>a, <1>b DEF TypeOK, Events
<1>2. Numbered'
  <2>1. accepted' = [accepted EXCEPT ![p] = @ + 1]
    OBVIOUS
  <2>2. ASSUME NEW i \in 1..Len(ch')
        PROVE  delivered[ch'[i].pub] < ch'[i].num /\ ch'[i].num <= accepted'[ch'[i].pub]
    <3>1. CASE i \in 1..Len(ch)
      <4>1. delivered[ch[i].pub] < ch[i].num /\ ch[i].num <= accepted[ch[i].pub]
        BY <3>1 DEF Numbered
      <4>a. ch[i].pub \in Publishers /\ ch[i].num \in Nat
        BY <3>1, EventFacts
      <4>b. accepted \in [Publishers -> Nat]
        BY DEF TypeOK
      <4>2. accepted[ch[i].pub] <= accepted'[ch[i].pub] /\ ch[i].num \in Nat
        BY ONLY <4>a, <4>b, <2>1
      <4>3. ch'[i] = ch[i] /\ delivered'[ch[i].pub] = delivered[ch[i].pub]
        BY <1>b, <3>1
      <4>4. accepted[ch[i].pub] \in Nat /\ accepted'[ch[i].pub] \in Nat
        BY ONLY <4>a, <4>b, <2>1
      <4> QED
        BY <4>1, <4>2, <4>3, <4>4
    <3>2. CASE i = Len(ch) + 1
      BY <1>a, <1>b, <2>1, <3>2 DEF TypeOK, Numbered
    <3> QED
      BY <1>c, <3>1, <3>2
  <2>3. ASSUME NEW i \in 1..Len(ch'), NEW j \in 1..Len(ch'),
               i < j, ch'[i].pub = ch'[j].pub
        PROVE  ch'[i].num < ch'[j].num
    <3>1. CASE j \in 1..Len(ch)
      BY <1>b, <1>c, <2>3, <3>1 DEF Numbered
    <3>2. CASE j = Len(ch) + 1
      <4>1. i \in 1..Len(ch) /\ ch[i].pub = p
        BY <1>a, <1>b, <1>c, <2>3, <3>2
      <4>2. ch[i].num <= accepted[p] /\ ch[i].num \in Nat
        BY <4>1, EventFacts DEF Numbered
      <4> QED
        BY <1>a, <1>b, <3>2, <4>1, <4>2 DEF TypeOK
    <3> QED
      BY <1>c, <3>1, <3>2
  <2>4. ASSUME NEW q \in Publishers, NEW k \in Nat,
               delivered[q] < k, k <= accepted'[q]
        PROVE  \E i \in 1..Len(ch') : ch'[i].pub = q /\ ch'[i].num = k
    <3>1. CASE q = p /\ k = accepted[p] + 1
      BY <1>a, <1>b, <1>c, <3>1
    <3>2. CASE k <= accepted[q]
      <4>1. PICK i \in 1..Len(ch) : ch[i].pub = q /\ ch[i].num = k
        BY <2>4, <3>2 DEF Numbered
      <4> QED
        BY <1>b, <1>c, <4>1
    <3> QED
      BY <2>1, <2>4, <3>1, <3>2 DEF TypeOK
  <2>5. \A q \in Publishers : delivered[q] <= accepted'[q]
    BY <2>1 DEF TypeOK, Numbered
  <2> QED
    BY <2>2, <2>3, <2>4, <2>5 DEF Numbered
<1>3. Gated'
  BY <1>a, <1>b DEF TypeOK, Gated, Events
<1>4. SnapshotFirst'
  BY <1>a, <1>b DEF TypeOK, SnapshotFirst, Gated, Numbered, Events
<1>5. Stamped'
  <2>1. stamp' = stamp /\ seq' = seq /\ stamp[p] <= seq
    BY DEF Stamped
  <2>2. \A i \in 1..Len(ch') : ch'[i].seq <= seq
    BY <1>a, <1>b, <1>c, <2>1 DEF Stamped
  <2> QED
    BY <1>d, <2>1, <2>2 DEF Stamped
<1>6. Closing'
  BY <1>a, <1>b DEF TypeOK, Closing, Gated, Events
<1>7. SeqIdentifies'
  <2>1. ASSUME NEW i \in 1..Len(ch'), NEW j \in 1..Len(ch'), i < j
        PROVE  /\ ch'[i].seq # ch'[j].seq
               /\ ch'[i].pub = ch'[j].pub => ch'[i].seq < ch'[j].seq
    BY <1>a, <1>b, <1>c, <2>1 DEF SeqIdentifies
  <2>2. ASSUME NEW q \in Publishers, pc'[q] = "select", NEW i \in 1..Len(ch')
        PROVE  ch'[i].seq # stamp[q] /\ (ch'[i].pub = q => ch'[i].seq < stamp[q])
    BY <1>a, <1>b, <1>c, <1>d, <2>2 DEF SeqIdentifies
  <2> QED
    BY <1>d, <2>1, <2>2 DEF SeqIdentifies
<1> QED
  BY <1>1, <1>2, <1>3, <1>4, <1>5, <1>6, <1>7 DEF IInv

(* GiveUp keeps the inductive invariant.                                   *)
LEMMA GiveUpInv ==
  ASSUME IInv, NEW p \in Publishers, GiveUp(p)
  PROVE  IInv'
<1> USE BusAssumption DEF IInv, GiveUp, Return
<1>1. TypeOK'
  BY CapacityFacts DEF TypeOK
<1>2. Numbered'
  BY DEF Numbered
<1>3. Gated'
  BY DEF TypeOK, Gated
<1>4. SnapshotFirst'
  BY DEF TypeOK, SnapshotFirst, Gated, Numbered
<1>5. Stamped'
  BY DEF TypeOK, Stamped
<1>6. Closing'
  BY DEF TypeOK, Closing, Gated
<1>7. SeqIdentifies'
  BY DEF TypeOK, SeqIdentifies, Stamped
<1> QED
  BY <1>1, <1>2, <1>3, <1>4, <1>5, <1>6, <1>7 DEF IInv

(* SendOnClosed keeps the inductive invariant.                             *)
LEMMA SendOnClosedInv ==
  ASSUME IInv, NEW p \in Publishers, SendOnClosed(p)
  PROVE  IInv'
<1> USE BusAssumption DEF IInv, SendOnClosed
<1>1. TypeOK'
  BY CapacityFacts DEF TypeOK
<1>2. Numbered'
  BY DEF Numbered
<1>3. Gated'
  BY DEF TypeOK, Gated
<1>4. SnapshotFirst'
  BY DEF SnapshotFirst
<1>5. Stamped'
  BY DEF TypeOK, Stamped
<1>6. Closing'
  BY DEF TypeOK, Closing, Gated
<1>7. SeqIdentifies'
  BY DEF TypeOK, SeqIdentifies, Stamped
<1> QED
  BY <1>1, <1>2, <1>3, <1>4, <1>5, <1>6, <1>7 DEF IInv

(* StartFails keeps the inductive invariant.                               *)
LEMMA StartFailsInv ==
  ASSUME IInv, StartFails
  PROVE  IInv'
<1> USE BusAssumption DEF IInv, StartFails
<1>1. TypeOK'
  BY CapacityFacts DEF TypeOK
<1>2. Numbered'
  BY DEF Numbered
<1>3. Gated'
  BY DEF TypeOK, Gated
<1>4. SnapshotFirst'
  BY DEF TypeOK, SnapshotFirst, Gated, Numbered
<1>5. Stamped'
  BY DEF Stamped
<1>6. Closing'
  BY DEF Closing
<1>7. SeqIdentifies'
  BY DEF SeqIdentifies
<1> QED
  BY <1>1, <1>2, <1>3, <1>4, <1>5, <1>6, <1>7 DEF IInv

(* StartReturns keeps the inductive invariant.                             *)
LEMMA StartReturnsInv ==
  ASSUME IInv, StartReturns
  PROVE  IInv'
<1> USE BusAssumption DEF IInv, StartReturns
<1>1. TypeOK'
  BY CapacityFacts DEF TypeOK
<1>2. Numbered'
  BY DEF Numbered
<1>3. Gated'
  BY DEF TypeOK, Gated
<1>4. SnapshotFirst'
  BY DEF TypeOK, SnapshotFirst, Gated, Numbered
<1>5. Stamped'
  BY DEF Stamped
<1>6. Closing'
  BY DEF Closing
<1>7. SeqIdentifies'
  BY DEF SeqIdentifies
<1> QED
  BY <1>1, <1>2, <1>3, <1>4, <1>5, <1>6, <1>7 DEF IInv

(* The event at the head is the next one of its publisher: the one before  *)
(* it has been delivered, or would lie before it.                          *)
LEMMA HeadIsNext ==
  ASSUME TypeOK, Numbered, Len(ch) > 0
  PROVE  ch[1].num = delivered[ch[1].pub] + 1
<1> DEFINE q == ch[1].pub
           next == delivered[ch[1].pub] + 1
<1>1. 1 \in 1..Len(ch) /\ q \in Publishers /\ ch[1].num \in Nat
  BY EventFacts
<1>2. next \in Nat
  BY <1>1 DEF TypeOK
<1>3. delivered[q] < ch[1].num /\ ch[1].num <= accepted[q]
  BY <1>1 DEF Numbered
<1>4. delivered[q] < next /\ next <= accepted[q]
  BY <1>1, <1>2, <1>3 DEF TypeOK
<1>5. PICK i \in 1..Len(ch) : ch[i].pub = q /\ ch[i].num = next
  BY <1>1, <1>2, <1>4 DEF Numbered
<1>6. 1 < i => ch[1].num < next
  BY <1>1, <1>5 DEF Numbered
<1>7. i = 1
  BY <1>1, <1>3, <1>5, <1>6 DEF TypeOK
<1> QED
  BY <1>5, <1>7

(* Receive keeps the inductive invariant.                                  *)
LEMMA ReceiveInv ==
  ASSUME IInv, Receive
  PROVE  IInv'
<1> USE BusAssumption DEF IInv, Receive
<1>a. /\ ch[1] \in Events /\ Head(ch) = ch[1]
      /\ Len(ch) > 0 /\ 1 \in 1..Len(ch)
  BY DEF TypeOK
<1>b. /\ ch' \in Seq(Events)
      /\ Len(ch') = Len(ch) - 1
      /\ \A i \in 1..Len(ch') : i + 1 \in 1..Len(ch) /\ ch'[i] = ch[i + 1]
  BY <1>a DEF TypeOK
<1>c. TypeOK /\ Numbered /\ Len(ch) > 0 /\ 1 \in 1..Len(ch)
  BY <1>a
<1>d. ch[1].pub \in Publishers /\ ch[1].num \in Nat
  BY <1>a, EventFacts
<1>1. TypeOK'
  <2>1. delivered' \in [Publishers -> Nat]
    BY <1>a, <1>d DEF TypeOK
  <2>2. Len(ch') <= capacity
    BY <1>b, CapacityFacts DEF TypeOK
  <2> QED
    BY <2>1, <2>2, <1>b DEF TypeOK
<1>2. Numbered'
  <2>1. ch[1].num = delivered[ch[1].pub] + 1
    BY <1>c, HeadIsNext
  <2>2. delivered' = [delivered EXCEPT ![ch[1].pub] = ch[1].num]
    BY <1>a
  <2>3. ASSUME NEW i \in 1..Len(ch')
        PROVE  /\ delivered'[ch'[i].pub] < ch'[i].num
               /\ ch'[i].num <= accepted[ch'[i].pub]
    <3>1. delivered[ch[i + 1].pub] < ch[i + 1].num /\ ch[i + 1].num <= accepted[ch[i + 1].pub]
      BY <1>b DEF Numbered
    <3>2. ch[1].pub = ch[i + 1].pub => ch[1].num < ch[i + 1].num
      BY <1>b, <1>c DEF Numbered
    <3> QED
      BY <1>b, <2>2, <3>1, <3>2 DEF TypeOK
  <2>4. ASSUME NEW i \in 1..Len(ch'), NEW j \in 1..Len(ch'),
               i < j, ch'[i].pub = ch'[j].pub
        PROVE  ch'[i].num < ch'[j].num
    BY <1>b, <2>4 DEF Numbered
  <2>5. ASSUME NEW q \in Publishers, NEW k \in Nat,
               delivered'[q] < k, k <= accepted[q]
        PROVE  \E i \in 1..Len(ch') : ch'[i].pub = q /\ ch'[i].num = k
    <3>1. delivered[q] < k /\ ~(ch[1].pub = q /\ ch[1].num = k)
      BY <1>d, <2>1, <2>2, <2>5 DEF TypeOK
    <3>2. PICK i \in 1..Len(ch) : ch[i].pub = q /\ ch[i].num = k
      BY <2>5, <3>1 DEF Numbered
    <3>3. i # 1 /\ i - 1 \in 1..Len(ch') /\ ch'[i - 1] = ch[i]
      BY <1>b, <3>1, <3>2
    <3> QED
      BY <3>2, <3>3
  <2> QED
    BY <2>3, <2>4, <2>5 DEF Numbered
<1>3. Gated'
  BY DEF Gated
<1>4. SnapshotFirst'
  BY <1>a, <1>b, <1>c DEF TypeOK, SnapshotFirst, Events
<1>5. Stamped'
  BY <1>a, <1>b DEF TypeOK, Stamped, Events
<1>6. Closing'
  BY DEF Closing
<1>7. SeqIdentifies'
  <2>1. \A i, j \in 1..Len(ch') : i < j =>
          i + 1 \in 1..Len(ch) /\ j + 1 \in 1..Len(ch) /\ i + 1 < j + 1
    BY <1>b
  <2> QED
    BY <1>b, <2>1 DEF SeqIdentifies
<1> QED
  BY <1>1, <1>2, <1>3, <1>4, <1>5, <1>6, <1>7 DEF IInv

(* Stop keeps the inductive invariant.                                     *)
LEMMA StopInv ==
  ASSUME IInv, Stop
  PROVE  IInv'
<1> USE BusAssumption DEF IInv, Stop
<1>1. TypeOK'
  BY CapacityFacts DEF TypeOK
<1>2. Numbered'
  BY DEF Numbered
<1>3. Gated'
  BY DEF TypeOK, Gated
<1>4. SnapshotFirst'
  BY DEF TypeOK, SnapshotFirst, Gated, Numbered
<1>5. Stamped'
  BY DEF Stamped
<1>6. Closing'
  BY DEF TypeOK, Closing, Gated
<1>7. SeqIdentifies'
  BY DEF SeqIdentifies
<1> QED
  BY <1>1, <1>2, <1>3, <1>4, <1>5, <1>6, <1>7 DEF IInv

(* Cancel keeps the inductive invariant.                                   *)
LEMMA CancelInv ==
  ASSUME IInv, Cancel
  PROVE  IInv'
<1> USE BusAssumption DEF IInv, Cancel
<1>1. TypeOK'
  BY CapacityFacts DEF TypeOK
<1>2. Numbered'
  BY DEF Numbered
<1>3. Gated'
  BY DEF Gated
<1>4. SnapshotFirst'
  BY DEF TypeOK, SnapshotFirst, Gated, Numbered
<1>5. Stamped'
  BY DEF Stamped
<1>6. Closing'
  BY DEF TypeOK, Closing, Gated
<1>7. SeqIdentifies'
  BY DEF SeqIdentifies
<1> QED
  BY <1>1, <1>2, <1>3, <1>4, <1>5, <1>6, <1>7 DEF IInv

(* A step of the bus, or none, keeps the inductive invariant.              *)
LEMMA NextInv ==
  ASSUME IInv, [Next]_vars
  PROVE  IInv'
<1>1. CASE \E p \in Publishers : Publish(p)
  BY <1>1, CheckClosedInv, StampInv, SendInv, GiveUpInv, SendOnClosedInv
     DEF Publish, Select
<1>2. CASE StartFails \/ StartReturns \/ Receive \/ Stop \/ Cancel
  BY <1>2, StartFailsInv, StartReturnsInv, ReceiveInv, StopInv, CancelInv
<1>3. CASE UNCHANGED vars
  BY <1>3 DEF vars, IInv, TypeOK, Numbered, Gated, SnapshotFirst, Stamped, Closing,
     SeqIdentifies
<1> QED
  BY <1>1, <1>2, <1>3 DEF Next

(* What the engine receives is the next event of its publisher, and that   *)
(* of Start before any other: Receive is a Deliver of the feed.            *)
LEMMA ReceiveDelivers ==
  ASSUME IInv, Receive
  PROVE  \E p \in Publishers : Engine!Deliver(p)
<1> DEFINE p == ch[1].pub
<1>1. TypeOK /\ Numbered /\ SnapshotFirst /\ Len(ch) > 0 /\ Head(ch) = ch[1]
  BY DEF IInv, TypeOK, Receive
<1>2. p \in Publishers /\ ch[1].num <= accepted[p]
  BY <1>1, EventFacts DEF Numbered
<1>3. ch[1].num = delivered[p] + 1
  BY <1>1, HeadIsNext
<1>4. delivered' = [delivered EXCEPT ![p] = @ + 1]
  BY <1>1, <1>3 DEF Receive
<1>5. delivered[p] < accepted[p]
  BY <1>1, <1>2, <1>3 DEF TypeOK
<1>6. p = Starter \/ delivered[Starter] > 0 \/ (ctxDone \/ run = "failed")
  BY <1>1 DEF SnapshotFirst, Receive
<1> QED
  BY <1>2, <1>4, <1>5, <1>6 DEF Engine!Deliver, Receive

(* A step of the bus is a step of the feed, or none.                       *)
LEMMA StepOfFeed ==
  ASSUME IInv, [Next]_vars
  PROVE  [Engine!Next]_Engine!feedVars
<1> USE DEF Engine!Next, Engine!feedVars
<1>1. ASSUME NEW p \in Publishers, Send(p)
      PROVE  Engine!Accept(p)
  BY <1>1 DEF Engine!Accept, Send, Return, IInv, Gated
<1>2. ASSUME NEW p \in Publishers, GiveUp(p)
      PROVE  UNCHANGED Engine!feedVars
  BY <1>2 DEF GiveUp, Return
<1>3. ASSUME NEW p \in Publishers, CheckClosed(p) \/ Stamp(p) \/ SendOnClosed(p)
      PROVE  UNCHANGED Engine!feedVars
  BY <1>3 DEF CheckClosed, Stamp, SendOnClosed
<1>4. CASE StartFails \/ Cancel
  BY <1>4 DEF StartFails, Cancel, Engine!End
<1>5. CASE StartReturns \/ Stop
  BY <1>5 DEF StartReturns, Stop
<1>6. CASE Receive
  BY <1>6, ReceiveDelivers
<1>7. CASE UNCHANGED vars
  BY <1>7 DEF vars
<1> QED
  BY <1>1, <1>2, <1>3, <1>4, <1>5, <1>6, <1>7 DEF Next, Publish, Select

-----------------------------------------------------------------------------
(* The inductive invariant holds of every reachable state, for any number  *)
(* of publishers, any buffer and any number of events.                     *)
THEOREM Invariance == Spec => []IInv
BY InitInv, NextInv, PTL DEF Spec

(* The bus never holds more than its capacity, and its state has its type. *)
THEOREM TypeCorrect == Spec => []TypeOK
<1>1. IInv => TypeOK
  BY DEF IInv
<1> QED
  BY <1>1, Invariance, PTL

(* No two events carry the same Seq, and the events of one goroutine carry *)
(* theirs in order, however the calls of Publish interleave.               *)
THEOREM SeqsIdentify == Spec => []SeqIdentifies
<1>1. IInv => SeqIdentifies
  BY DEF IInv
<1> QED
  BY <1>1, Invariance, PTL

(* No publisher panics before the context is done.                         *)
THEOREM NoEarlyPanic == Spec => []PanicOnlyAtShutdown
<1>1. IInv => PanicOnlyAtShutdown
  BY DEF IInv, Closing, PanicOnlyAtShutdown
<1> QED
  BY <1>1, Invariance, PTL

(* Events reach the engine in each goroutine's order, each once, none left *)
(* out, and the first snapshot before all others: the bus implements the   *)
(* safety part of the feed.                                                *)
THEOREM ImplementsFeedSafely == Spec => Engine!Spec
<1>1. Init => Engine!Init
  BY DEF Init, Engine!Init
<1> QED
  BY <1>1, StepOfFeed, Invariance, PTL DEF Spec, Engine!Spec
=============================================================================
