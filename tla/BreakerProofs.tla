---------------------------- MODULE BreakerProofs ----------------------------
(***************************************************************************)
(* A trip lasts, errors in a row halt the breaker, and traders overrun a   *)
(* limit by the trades they were let through with and no more, for any     *)
(* number of traders and any limits, although no lock is held over two     *)
(* fields.                                                                 *)
(*                                                                         *)
(* A trip that no reset overlapped can only be undone by a reset.  The     *)
(* operator's is one that sure gives way to.  CanExecute's needs a caller  *)
(* that passed the test of halted before the trip; it finds the trip too   *)
(* fresh, since no call takes as long as the cooldown (Tripped).           *)
(*                                                                         *)
(* A limit is tested before the trade is counted, so that what is counted  *)
(* and what those let through may still add have room together (Within).   *)
(* The total is a sum over the markets, and grows by as much as one of its *)
(* summands does (AddedOnce).                                              *)
(***************************************************************************)
EXTENDS Breaker, TLAPS, FiniteSetTheorems, WellFoundedInduction

Places == {"idle", "cooldown", "day", "limits", "trade", "pnl", "position", "halt",
           "note", "reset", "forget", "zero"}

(* As much of the types as the arguments need.                             *)
Typed ==
  /\ halted \in BOOLEAN /\ sure \in BOOLEAN
  /\ tripped \in {"never", "now", "ago"}
  /\ errors \in Nat
  /\ caller \in [Callers -> [at : Places, market : Markets, contracts : 1..MaxContracts]]

(* While the trip is sure nobody resets, and nobody is about to.           *)
Tripped ==
  sure =>
    /\ halted /\ ~Resetting /\ tripped # "never"
    /\ tripped = "ago" => \A c \in Traders : ~At(c, "cooldown")

(* Errors in a row halt, or are about to: ErrorsHalt is inductive itself.  *)
IInv == Typed /\ Tripped /\ ErrorsHalt

-----------------------------------------------------------------------------
(* Moving one caller moves no other.                                       *)
LEMMA GoesFacts ==
  ASSUME Typed, NEW c \in Callers, NEW place \in Places, Goes(c, place)
  PROVE  /\ caller' \in [Callers -> [at : Places, market : Markets,
                                     contracts : 1..MaxContracts]]
         /\ caller'[c].at = place
         /\ \A d \in Callers : d # c => caller'[d] = caller[d]
BY DEF Typed, Goes

(* Asking moves nobody else.                                               *)
LEMMA AskFacts ==
  ASSUME Typed, NEW c \in Callers, Ask(c)
  PROVE  /\ caller' \in [Callers -> [at : Places, market : Markets,
                                     contracts : 1..MaxContracts]]
         /\ caller'[c].at = IF halted THEN "idle" ELSE "cooldown"
         /\ \A d \in Callers : d # c => caller'[d] = caller[d]
BY DEF Typed, Ask, Places

(* The inductive invariant holds of a new breaker.                         *)
LEMMA InitInv == Init => IInv
<1> SUFFICES ASSUME Init PROVE IInv
  OBVIOUS
<1>1. (CHOOSE m \in Markets : TRUE) \in Markets
  BY BreakerAssumption
<1>2. 1 \in 1..MaxContracts
  BY BreakerAssumption
<1>3. Typed
  BY <1>1, <1>2 DEF Init, Typed, Places
<1>4. Tripped
  BY DEF Init, Tripped
<1>5. ErrorsHalt
  BY BreakerAssumption DEF Init, ErrorsHalt
<1> QED
  BY <1>3, <1>4, <1>5 DEF IInv

(* CanExecute keeps the inductive invariant: only a caller that is through *)
(* with the cooldown resets, and no sure trip lets it.                     *)
LEMMA CanExecuteInv ==
  ASSUME IInv, NEW c \in Traders, CanExecute(c)
  PROVE  IInv'
<1> USE DEF IInv
<1>c. c \in Callers
  BY DEF Callers
<1>1. CASE Ask(c)
  <2>1. Typed'
    BY <1>c, <1>1, AskFacts DEF Typed, Ask
  <2>2. Tripped'
    BY <1>c, <1>1, AskFacts DEF Ask, Typed, Tripped, Resetting, At, Callers
  <2>3. ErrorsHalt'
    BY <1>c, <1>1, AskFacts DEF Ask, Typed, ErrorsHalt, At
  <2> QED
    BY <2>1, <2>2, <2>3
<1>2. CASE Cooldown(c)
  <2> DEFINE next == CASE tripped = "never" -> "day" [] tripped = "ago" -> "reset"
                       [] OTHER -> "idle"
  <2>1. next \in {"day", "reset", "idle"} /\ Goes(c, next)
    BY <1>2 DEF Cooldown
  <2>2. next = "reset" => tripped = "ago"
    BY DEF Typed
  <2> HIDE DEF next
  <2>3. /\ caller' \in [Callers -> [at : Places, market : Markets,
                                    contracts : 1..MaxContracts]]
        /\ caller'[c].at = next
        /\ \A d \in Callers : d # c => caller'[d] = caller[d]
    BY <1>c, <2>1, GoesFacts DEF Places
  <2>4. Typed'
    BY <1>2, <2>3 DEF Cooldown, Typed
  <2>5. Tripped'
    <3>1. sure => next # "reset"
      BY <1>2, <2>2 DEF Cooldown, Tripped
    <3>2. ASSUME sure PROVE ~Resetting'
      BY <1>c, <2>1, <2>3, <3>1, <3>2 DEF Tripped, Resetting
    <3>3. \A d \in Traders : At(d, "cooldown")' => At(d, "cooldown")
      BY <2>1, <2>3 DEF At, Callers
    <3> QED
      BY <1>2, <3>2, <3>3 DEF Cooldown, Tripped
  <2>6. ErrorsHalt'
    BY <1>c, <1>2, <2>3 DEF Cooldown, ErrorsHalt, At
  <2> QED
    BY <2>4, <2>5, <2>6
<1>3. CASE Day(c)
  <2>1. Goes(c, "limits") /\ "limits" \in Places
    BY <1>3 DEF Day, Places
  <2>2. Typed'
    BY <1>c, <1>3, <2>1, GoesFacts DEF Day, Typed
  <2>3. Tripped'
    BY <1>c, <1>3, <2>1, GoesFacts DEF Day, Tripped, Resetting, At, Callers
  <2>4. ErrorsHalt'
    BY <1>c, <1>3, <2>1, GoesFacts DEF Day, ErrorsHalt, At
  <2> QED
    BY <2>2, <2>3, <2>4
<1>4. CASE Limits(c)
  <2>1. PICK place \in {"trade", "idle"} : Goes(c, place)
    BY <1>4 DEF Limits
  <2>2. place \in Places
    BY DEF Places
  <2>3. Typed'
    BY <1>c, <1>4, <2>1, <2>2, GoesFacts DEF Limits, Typed
  <2>4. Tripped'
    BY <1>c, <1>4, <2>1, <2>2, GoesFacts DEF Limits, Tripped, Resetting, At, Callers
  <2>5. ErrorsHalt'
    BY <1>c, <1>4, <2>1, <2>2, GoesFacts DEF Limits, ErrorsHalt, At
  <2> QED
    BY <2>3, <2>4, <2>5
<1> QED
  BY <1>1, <1>2, <1>3, <1>4 DEF CanExecute

(* Recording keeps the inductive invariant: an error that completes the    *)
(* row goes on to halt, and a trip becomes sure only while nobody resets.  *)
LEMMA RecordInv ==
  ASSUME IInv, NEW c \in Traders, Record(c)
  PROVE  IInv'
<1> USE DEF IInv
<1>c. c \in Callers
  BY DEF Callers
<1>1. CASE RecordSuccess(c)
  <2>1. Goes(c, "pnl") /\ "pnl" \in Places
    BY <1>1 DEF RecordSuccess, Places
  <2>2. Typed'
    BY <1>c, <1>1, <2>1, GoesFacts, BreakerAssumption DEF RecordSuccess, Typed
  <2>3. Tripped'
    BY <1>c, <1>1, <2>1, GoesFacts DEF RecordSuccess, Tripped, Resetting, At, Callers
  <2>4. ErrorsHalt'
    BY <1>c, <1>1, <2>1, GoesFacts, BreakerAssumption DEF RecordSuccess, ErrorsHalt, At
  <2> QED
    BY <2>2, <2>3, <2>4
<1>2. CASE RecordPnl(c)
  <2>1. Goes(c, "position") /\ "position" \in Places
    BY <1>2 DEF RecordPnl, Places
  <2>2. Typed'
    BY <1>c, <1>2, <2>1, GoesFacts, BreakerAssumption DEF RecordPnl, Typed
  <2>3. Tripped'
    BY <1>c, <1>2, <2>1, GoesFacts DEF RecordPnl, Tripped, Resetting, At, Callers
  <2>4. ErrorsHalt'
    BY <1>c, <1>2, <2>1, GoesFacts, BreakerAssumption DEF RecordPnl, ErrorsHalt, At
  <2> QED
    BY <2>2, <2>3, <2>4
<1>3. CASE RecordPosition(c)
  <2>1. Goes(c, "idle") /\ "idle" \in Places
    BY <1>3 DEF RecordPosition, Places
  <2>2. Typed'
    BY <1>c, <1>3, <2>1, GoesFacts, BreakerAssumption DEF RecordPosition, Typed
  <2>3. Tripped'
    BY <1>c, <1>3, <2>1, GoesFacts DEF RecordPosition, Tripped, Resetting, At, Callers
  <2>4. ErrorsHalt'
    BY <1>c, <1>3, <2>1, GoesFacts, BreakerAssumption DEF RecordPosition, ErrorsHalt, At
  <2> QED
    BY <2>2, <2>3, <2>4
<1>4. CASE RecordError(c)
  <2>1. PICK place \in {"halt", "idle"} : Goes(c, place)
    BY <1>4 DEF RecordError
  <2>2. place \in Places
    BY DEF Places
  <2>3. caller'[c].at = place
    BY <1>c, <2>1, <2>2, GoesFacts
  <2>4. Typed'
    BY <1>c, <1>4, <2>1, <2>2, GoesFacts DEF RecordError, Typed
  <2>5. Tripped'
    BY <1>c, <1>4, <2>1, <2>2, GoesFacts DEF RecordError, Tripped, Resetting, At, Callers
  <2>6. errors + 1 >= MaxConsecutiveErrors => Goes(c, "halt")
    BY <1>4 DEF RecordError
  <2>7. errors + 1 >= MaxConsecutiveErrors => caller'[c].at = "halt"
    BY <1>c, <2>6, GoesFacts DEF Places
  <2>8. ErrorsHalt'
    BY <1>c, <1>4, <2>7 DEF RecordError, ErrorsHalt, At
  <2> QED
    BY <2>4, <2>5, <2>8
<1>5. CASE Halt(c)
  <2>1. Goes(c, "note") /\ "note" \in Places
    BY <1>5 DEF Halt, Places
  <2>2. Typed'
    BY <1>c, <1>5, <2>1, GoesFacts, BreakerAssumption DEF Halt, Typed
  <2>3. Tripped'
    BY <1>c, <1>5, <2>1, GoesFacts DEF Halt, Tripped, Resetting, At, Callers
  <2>4. ErrorsHalt'
    BY <1>c, <1>5, <2>1, GoesFacts, BreakerAssumption DEF Halt, ErrorsHalt, At
  <2> QED
    BY <2>2, <2>3, <2>4
<1>6. CASE NoteTrip(c)
  <2>1. Goes(c, "idle") /\ "idle" \in Places
    BY <1>6 DEF NoteTrip, Places
  <2>2. Typed'
    BY <1>c, <1>6, <2>1, GoesFacts, BreakerAssumption DEF NoteTrip, Typed
  <2>3. Tripped'
    BY <1>c, <1>6, <2>1, GoesFacts DEF NoteTrip, Tripped, Resetting, At, Callers
  <2>4. ErrorsHalt'
    BY <1>c, <1>6, <2>1, GoesFacts, BreakerAssumption DEF NoteTrip, ErrorsHalt, At
  <2> QED
    BY <2>2, <2>3, <2>4
<1> QED
  BY <1>1, <1>2, <1>3, <1>4, <1>5, <1>6 DEF Record

(* Resetting keeps the inductive invariant: no trip is sure meanwhile, and *)
(* the errors are zeroed before the reset is over.                         *)
LEMMA ResetInv ==
  ASSUME IInv, NEW c \in Callers, Reset(c)
  PROVE  IInv'
<1> USE DEF IInv
<1>c. c \in Callers
  OBVIOUS
<1>s. ~sure /\ ~sure'
  BY DEF Reset, Unhalt, ForgetTrip, ZeroErrors, At, Tripped, Resetting
<1>t. Tripped'
  BY <1>s DEF Tripped
<1>1. CASE Unhalt(c)
  <2>1. Goes(c, "forget") /\ "forget" \in Places
    BY <1>1 DEF Unhalt, Places
  <2>2. Typed'
    BY <1>1, <2>1, GoesFacts DEF Unhalt, Typed
  <2>3. ErrorsHalt'
    BY <1>1, <2>1, GoesFacts DEF Unhalt, ErrorsHalt, At
  <2> QED
    BY <1>t, <2>2, <2>3
<1>2. CASE ForgetTrip(c)
  <2>1. Goes(c, "zero") /\ "zero" \in Places
    BY <1>2 DEF ForgetTrip, Places
  <2>2. Typed'
    BY <1>2, <2>1, GoesFacts DEF ForgetTrip, Typed
  <2>3. ErrorsHalt'
    BY <1>2, <2>1, GoesFacts DEF ForgetTrip, ErrorsHalt, At
  <2> QED
    BY <1>t, <2>2, <2>3
<1>3. CASE ZeroErrors(c)
  <2>1. PICK place \in {"idle", "day"} : Goes(c, place)
    BY <1>3 DEF ZeroErrors
  <2>2. place \in Places
    BY DEF Places
  <2>3. Typed'
    BY <1>3, <2>1, <2>2, GoesFacts DEF ZeroErrors, Typed
  <2>4. ErrorsHalt'
    BY <1>3, BreakerAssumption DEF ZeroErrors, ErrorsHalt
  <2> QED
    BY <1>t, <2>3, <2>4
<1> QED
  BY <1>1, <1>2, <1>3 DEF Reset

(* Every step keeps the inductive invariant.                               *)
LEMMA StepInv == IInv /\ [Next]_vars => IInv'
<1> SUFFICES ASSUME IInv, [Next]_vars PROVE IInv'
  OBVIOUS
<1> USE DEF IInv
<1>1. ASSUME NEW c \in Traders, CanExecute(c) \/ Record(c)
      PROVE  IInv'
  BY <1>1, CanExecuteInv, RecordInv
<1>2. ASSUME NEW c \in Callers, Reset(c)
      PROVE  IInv'
  BY <1>2, ResetInv
<1>3. CASE CallReset
  <2>1. Goes(Operator, "reset") /\ "reset" \in Places /\ Operator \in Callers
    BY <1>3 DEF CallReset, Places, Callers
  <2>2. Typed'
    BY <1>3, <2>1, GoesFacts DEF CallReset, Typed
  <2>3. Tripped'
    BY <1>3 DEF CallReset, Tripped
  <2>4. ErrorsHalt'
    BY <1>3, <2>1, GoesFacts DEF CallReset, ErrorsHalt, At
  <2> QED
    BY <2>2, <2>3, <2>4
<1>4. CASE Cool
  BY <1>4 DEF Cool, Typed, Tripped, Resetting, ErrorsHalt, At
<1>5. CASE Midnight
  BY <1>5 DEF Midnight, Typed, Tripped, Resetting, ErrorsHalt, At
<1>6. CASE UNCHANGED vars
  BY <1>6 DEF vars, Typed, Tripped, Resetting, ErrorsHalt, At
<1> QED
  BY <1>1, <1>2, <1>3, <1>4, <1>5, <1>6 DEF Next

-----------------------------------------------------------------------------
(* The inductive invariant holds in every reachable state.                 *)
THEOREM Invariance == Spec => []IInv
<1> QED
  BY InitInv, StepInv, PTL DEF Spec

(* A trip that no reset overlapped lasts until the operator's next Reset   *)
(* (risk.go:99-117, 205-239).                                              *)
THEOREM TripsLast == Spec => []TripLasts
<1>1. IInv => TripLasts
  BY DEF IInv, Tripped, TripLasts
<1> QED
  BY <1>1, Invariance, PTL

(* As many errors in a row as it takes halt the breaker (risk.go:188-222). *)
THEOREM ErrorsInARowHalt == Spec => []ErrorsHalt
<1>1. IInv => ErrorsHalt
  BY DEF IInv
<1> QED
  BY <1>1, Invariance, PTL

-----------------------------------------------------------------------------
(* Sums of the values of a function over the subsets of a finite set: each *)
(* is what f has at an element and the sum over the rest.                  *)
Pick(s) == CHOOSE x \in s : TRUE

(* g adds f up over each of the subsets of S in D.                         *)
Adds(g, f, D) ==
  g = [s \in D |-> IF s = {} THEN 0 ELSE f[Pick(s)] + g[s \ {Pick(s)}]]

Sums(f, S) == CHOOSE g : Adds(g, f, SUBSET S)

(* Total adds the positions up, in this state and in the next.             *)
TotalSum == Total = Sums(positions, Known)[Known]

LEMMA TotalIsSum == TotalSum /\ TotalSum'
<1>1. TotalSum
  BY SMT DEF TotalSum, Total, FoldSet, MapThenFoldSet, Sums, Adds, Known, Pick
<1> QED
  BY <1>1, PTL

(* Of some subsets of a finite set one is the least.                       *)
LEMMA Least ==
  ASSUME NEW S, IsFiniteSet(S), NEW B \in SUBSET SUBSET S, B # {}
  PROVE  \E s \in B : \A t \in SUBSET s : t # s => t \notin B
<1>1. B \subseteq FiniteSubsetsOf(S)
  BY FS_FiniteSubsetsOfFinite
<1>2. PICK s \in B : \A t \in B : ~(<<t, s>> \in StrictSubsetOrdering(S))
  BY <1>1, FS_StrictSubsetOrderingWellFounded, WFMin
<1>3. \A t \in SUBSET s : t # s => t \notin B
  BY <1>2 DEF StrictSubsetOrdering
<1> QED
  BY <1>3

(* Induction on numbers: if k is not in the set, look at the first one.    *)
LEMMA Induction ==
  ASSUME NEW B \in SUBSET Nat, 0 \in B, \A n \in B : n + 1 \in B
  PROVE  \A n \in Nat : n \in B
<1> SUFFICES ASSUME NEW k \in Nat, k \notin B PROVE FALSE
  OBVIOUS
<1> DEFINE I == 1..k
           T == {s \in SUBSET I : \E n \in 0..k : n \notin B /\ s = 1..n}
<1>1. T \in SUBSET SUBSET I /\ T # {}
  BY 1..k \in T
<1>2. \A n \in 0..k : n \notin B => 1..n \in T
  OBVIOUS
<1>3. \A s \in T : \E n \in 0..k : n \notin B /\ s = 1..n
  OBVIOUS
<1>4. PICK s \in T : \A t \in SUBSET s : t # s => t \notin T
  <2>1. IsFiniteSet(I)
    BY FS_Interval
  <2> HIDE DEF I, T
  <2> QED
    BY <1>1, <2>1, Least
<1> HIDE DEF I, T
<1>5. PICK n \in 0..k : n \notin B /\ s = 1..n
  BY <1>3
<1>6. n - 1 \in 0..k /\ n - 1 \notin B
  BY <1>5, (n - 1) + 1 = n
<1>7. 1..(n - 1) \in SUBSET (1..n) /\ 1..(n - 1) # 1..n
  BY <1>6, n \in 1..n, n \notin 1..(n - 1)
<1> QED
  BY <1>2, <1>4, <1>5, <1>6, <1>7

(* The subsets of up to n elements.                                        *)
Subsets(S, n) == {s \in SUBSET S : Cardinality(s) <= n}

(* A subset without one of its elements is a smaller one.                  *)
LEMMA Smaller ==
  ASSUME NEW S, IsFiniteSet(S), NEW s \in SUBSET S, NEW x \in s
  PROVE  /\ s \ {x} \in SUBSET S
         /\ Cardinality(s) \in Nat
         /\ Cardinality(s \ {x}) \in Nat
         /\ Cardinality(s) = Cardinality(s \ {x}) + 1
BY FS_Subset, FS_RemoveElement, FS_CardinalityType

(* What is picked of a set is in it.                                       *)
LEMMA PickIn == ASSUME NEW s, s # {} PROVE Pick(s) \in s
BY DEF Pick

(* The sums exist: take those over the subsets of up to n elements.        *)
LEMMA SumsExist ==
  ASSUME NEW S, IsFiniteSet(S), NEW f
  PROVE  Adds(Sums(f, S), f, SUBSET S)
<1> DEFINE B == {n \in Nat : \E g : Adds(g, f, Subsets(S, n))}
<1>1. 0 \in B
  <2> DEFINE g == [s \in Subsets(S, 0) |-> 0]
  <2>1. \A s \in Subsets(S, 0) : s = {}
    BY FS_Subset, FS_CardinalityType, FS_EmptySet DEF Subsets
  <2>2. Adds(g, f, Subsets(S, 0))
    BY <2>1 DEF Adds
  <2> QED
    BY <2>2
<1>2. ASSUME NEW n \in B PROVE n + 1 \in B
  <2>1. PICK g : Adds(g, f, Subsets(S, n))
    OBVIOUS
  <2> DEFINE h == [s \in Subsets(S, n + 1) |->
                     IF s = {} THEN 0 ELSE f[Pick(s)] + g[s \ {Pick(s)}]]
  <2>2. \A t \in Subsets(S, n) : t \in Subsets(S, n + 1) /\ h[t] = g[t]
    <3> TAKE t \in Subsets(S, n)
    <3>1. t \in SUBSET S /\ Cardinality(t) \in Nat /\ Cardinality(t) <= n
      BY FS_Subset, FS_CardinalityType DEF Subsets
    <3>2. t \in Subsets(S, n + 1)
      BY <3>1 DEF Subsets
    <3> QED
      BY <2>1, <3>2 DEF Adds
  <2>3. \A s \in Subsets(S, n + 1) : s # {} => s \ {Pick(s)} \in Subsets(S, n)
    BY Smaller, PickIn DEF Subsets
  <2>4. Adds(h, f, Subsets(S, n + 1))
    BY <2>2, <2>3 DEF Adds
  <2> QED
    BY <2>4
<1>3. Cardinality(S) \in B
  <2> HIDE DEF B
  <2> B \in SUBSET Nat
    BY DEF B
  <2> QED
    BY <1>1, <1>2, Induction, FS_CardinalityType
<1>4. Subsets(S, Cardinality(S)) = SUBSET S
  BY FS_Subset DEF Subsets
<1> QED
  BY <1>3, <1>4 DEF Sums

(* A sum may start with any of the elements.                               *)
Additive(g, f, S) == \A s \in SUBSET S : \A x \in s : g[s] = f[x] + g[s \ {x}]

(* The sum of nothing is zero.                                             *)
LEMMA AddsEmpty == ASSUME NEW S, NEW f, NEW g, Adds(g, f, SUBSET S) PROVE g[{}] = 0
BY DEF Adds

(* The sum of something starts with what is picked.                        *)
LEMMA AddsNonempty ==
  ASSUME NEW S, NEW f, NEW g, Adds(g, f, SUBSET S)
  PROVE  \A s \in SUBSET S : s # {} => g[s] = f[Pick(s)] + g[s \ {Pick(s)}]
BY DEF Adds

(* The sums of whole numbers are whole numbers.                            *)
LEMMA AddsInt ==
  ASSUME NEW S, IsFiniteSet(S), NEW f \in [S -> Int], NEW g, Adds(g, f, SUBSET S)
  PROVE  \A s \in SUBSET S : g[s] \in Int
<1> DEFINE B == {s \in SUBSET S : g[s] \notin Int}
<1>1. B \in SUBSET SUBSET S /\ \A s \in SUBSET S : s \in B <=> g[s] \notin Int
  OBVIOUS
<1> HIDE DEF B
<1>2. ASSUME B # {} PROVE FALSE
  <2>1. PICK s \in B : \A t \in SUBSET s : t # s => t \notin B
    BY <1>1, <1>2, Least
  <2>2. s \in SUBSET S /\ g[s] \notin Int
    BY <1>1, <2>1
  <2>3. PICK p \in s : g[s] = f[p] + g[s \ {p}]
    <3>1. g[{}] \in Int
      BY AddsEmpty
    <3>2. s # {}
      BY <2>2, <3>1, Zenon
    <3>3. Pick(s) \in s
      BY <3>2, PickIn
    <3>4. g[s] = f[Pick(s)] + g[s \ {Pick(s)}]
      BY <2>2, <3>2, AddsNonempty
    <3> QED
      BY <3>3, <3>4
  <2>4. f[p] \in Int /\ g[s \ {p}] \in Int
    BY <1>1, <2>1, <2>2
  <2> QED
    BY <2>2, <2>3, <2>4
<1> QED
  BY <1>1, <1>2

(* What a sum over a subset starts with does not matter.                   *)
LEMMA AddsAny ==
  ASSUME NEW S, IsFiniteSet(S), NEW f \in [S -> Int], NEW g, Adds(g, f, SUBSET S)
  PROVE  Additive(g, f, S)
<1> DEFINE B == {s \in SUBSET S : \E x \in s : g[s] # f[x] + g[s \ {x}]}
<1>1. /\ B \in SUBSET SUBSET S
      /\ \A s \in SUBSET S : s \notin B <=> \A x \in s : g[s] = f[x] + g[s \ {x}]
  OBVIOUS
<1> HIDE DEF B
<1>2. ASSUME B # {} PROVE FALSE
  <2>1. PICK s \in B : \A t \in SUBSET s : t # s => t \notin B
    BY <1>1, <1>2, Least
  <2>2. PICK x \in s : s \in SUBSET S /\ g[s] # f[x] + g[s \ {x}]
    BY <1>1, <2>1
  <2>3. PICK p \in s : g[s] = f[p] + g[s \ {p}]
    <3>1. s # {}
      BY <2>2
    <3>2. Pick(s) \in s
      BY <3>1, PickIn
    <3>3. g[s] = f[Pick(s)] + g[s \ {Pick(s)}]
      BY <2>2, <3>1, AddsNonempty
    <3> QED
      BY <3>2, <3>3
  <2>4. x # p /\ x \in s \ {p} /\ p \in s \ {x}
    BY <2>2, <2>3
  <2>5. s \ {p} \in (SUBSET S) \ B /\ s \ {x} \in (SUBSET S) \ B
    BY <2>1, <2>2
  <2>6. g[s \ {p}] = f[x] + g[(s \ {p}) \ {x}] /\ g[s \ {x}] = f[p] + g[(s \ {x}) \ {p}]
    BY <1>1, <2>4, <2>5
  <2>7. (s \ {p}) \ {x} = (s \ {x}) \ {p} /\ (s \ {x}) \ {p} \in SUBSET S
    BY <2>2
  <2>8. PICK k \in Int : g[s \ {p}] = f[x] + k /\ g[s \ {x}] = f[p] + k
    BY <2>6, <2>7, AddsInt
  <2>9. f[x] \in Int /\ f[p] \in Int
    BY <2>2
  <2> QED
    BY <2>2, <2>3, <2>8, <2>9
<1> QED
  BY <1>1, <1>2 DEF Additive

(* The same of the sums as they are chosen.                                *)
LEMMA AnyFirst ==
  ASSUME NEW S, IsFiniteSet(S), NEW f \in [S -> Int]
  PROVE  /\ Sums(f, S)[{}] = 0
         /\ \A s \in SUBSET S : Sums(f, S)[s] \in Int
         /\ Additive(Sums(f, S), f, S)
<1>1. Adds(Sums(f, S), f, SUBSET S)
  BY SumsExist
<1>3. Sums(f, S)[{}] = 0
  BY <1>1, AddsEmpty
<1>4. \A s \in SUBSET S : Sums(f, S)[s] \in Int
  BY <1>1, AddsInt
<1>5. Additive(Sums(f, S), f, S)
  BY <1>1, AddsAny
<1> QED
  BY <1>3, <1>4, <1>5

(* Two functions that agree on a set have the same sum over it.            *)
LEMMA SameSum ==
  ASSUME NEW S, IsFiniteSet(S), NEW f \in [S -> Int],
         NEW T, IsFiniteSet(T), NEW g \in [T -> Int],
         NEW U \in SUBSET (S \cap T), \A x \in U : f[x] = g[x]
  PROVE  Sums(f, S)[U] = Sums(g, T)[U]
<1> DEFINE B == {s \in SUBSET U : Sums(f, S)[s] # Sums(g, T)[s]}
<1>1. /\ B \in SUBSET SUBSET U /\ IsFiniteSet(U)
      /\ \A s \in SUBSET U : s \notin B <=> Sums(f, S)[s] = Sums(g, T)[s]
  BY FS_Subset
<1> HIDE DEF B
<1>2. ASSUME B # {} PROVE FALSE
  <2>1. PICK s \in B : \A t \in SUBSET s : t # s => t \notin B
    BY <1>1, <1>2, Least
  <2>2. Sums(f, S)[s] # Sums(g, T)[s] /\ s \in SUBSET U
    BY <1>1, <2>1
  <2>3. Sums(f, S)[{}] = 0 /\ Sums(g, T)[{}] = 0
    BY AnyFirst
  <2>4. PICK x \in s : TRUE
    BY <2>2, <2>3
  <2>5. Sums(f, S)[s \ {x}] = Sums(g, T)[s \ {x}]
    BY <1>1, <2>1, <2>2
  <2>6. Additive(Sums(f, S), f, S) /\ Additive(Sums(g, T), g, T)
    BY AnyFirst
  <2>7. /\ Sums(f, S)[s] = f[x] + Sums(f, S)[s \ {x}]
        /\ Sums(g, T)[s] = g[x] + Sums(g, T)[s \ {x}]
    BY <2>2, <2>6 DEF Additive
  <2> QED
    BY <2>2, <2>5, <2>7
<1> QED
  BY <1>1, <1>2

(* Adding to one place, which may be a new one, adds as much to the sum.   *)
LEMMA AddedOnce ==
  ASSUME NEW S, IsFiniteSet(S), NEW f \in [S -> Int],
         NEW T, IsFiniteSet(T), NEW g \in [T -> Int],
         NEW U, U \in SUBSET (S \cap T), \A k \in U : f[k] = g[k],
         NEW m \in T, NEW n \in Int, T \ {m} = U,
         \/ m \in S /\ S \ {m} = U /\ g[m] = f[m] + n
         \/ S = U /\ g[m] = n
  PROVE  Sums(g, T)[T] = Sums(f, S)[S] + n
<1>1. Sums(f, S)[U] = Sums(g, T)[U]
  BY SameSum
<1>2. Additive(Sums(g, T), g, T) /\ Additive(Sums(f, S), f, S)
  BY AnyFirst
<1>3. Sums(g, T)[T] = g[m] + Sums(f, S)[U]
  <2>1. Sums(g, T)[T] = g[m] + Sums(g, T)[T \ {m}]
    BY <1>2, T \in SUBSET T DEF Additive
  <2> QED
    BY <1>1, <2>1
<1>4. Sums(f, S)[U] \in Int
  BY AnyFirst
<1>5. CASE m \in S /\ S \ {m} = U /\ g[m] = f[m] + n
  <2>1. f[m] \in Int /\ Sums(f, S)[S] = f[m] + Sums(f, S)[U]
    BY <1>2, <1>5, S \in SUBSET S DEF Additive
  <2> QED
    BY <1>3, <1>4, <1>5, <2>1
<1>6. CASE S = U /\ g[m] = n
  <2>1. Sums(f, S)[S] = Sums(f, S)[U]
    BY <1>6
  <2> QED
    BY <1>3, <1>4, <1>6, <2>1
<1> QED
  BY <1>5, <1>6

-----------------------------------------------------------------------------
(* The number of traders.                                                  *)
N == Cardinality(Traders)

(* Those that are about to halt, and those that may still record an error. *)
Halting == {c \in Traders : At(c, "halt")}
Asking == {c \in Traders : caller[c].at \in {"cooldown", "day", "limits", "trade"}}

(* While the breaker is not halted, errors beyond the row are of traders   *)
(* about to halt it, or are a reset's to zero; once it is halted, all but  *)
(* those that were let through before may have added one.                  *)
ErrorRoom ==
  /\ ~halted => errors <= MaxConsecutiveErrors - 1 + N * Cardinality(Unhalted)
                          + Cardinality(Halting)
  /\ halted => errors <= MaxConsecutiveErrors - 1 + N * Cardinality(Unhalted)
                         + (N - Cardinality(Asking))

(* The constants are numbers, and there is a trader.                       *)
LEMMA Numbers ==
  /\ N \in Nat \ {0} /\ IsFiniteSet(Callers)
  /\ MaxContracts \in Nat \ {0} /\ MaxConsecutiveErrors \in Nat \ {0}
  /\ MaxLossPerTrade \in Nat /\ MaxDailyLoss \in Nat
  /\ MaxPositionPerMarket \in Nat /\ MaxTotalPosition \in Nat
<1>1. N \in Nat /\ N # 0
  BY BreakerAssumption, FS_CardinalityType, FS_EmptySet DEF N
<1>2. IsFiniteSet(Callers)
  BY BreakerAssumption, FS_AddElement DEF Callers
<1> QED
  BY <1>1, <1>2, BreakerAssumption

(* A set that changes by one element at most.                              *)
LEMMA OneMoved ==
  ASSUME NEW V, IsFiniteSet(V), NEW W, NEW c, W \ {c} = V \ {c}
  PROVE  /\ IsFiniteSet(W)
         /\ Cardinality(V) \in Nat /\ Cardinality(W) \in Nat
         /\ Cardinality(W) = Cardinality(V) - (IF c \in V THEN 1 ELSE 0)
                             + (IF c \in W THEN 1 ELSE 0)
<1> DEFINE U == V \ {c}
<1>1. /\ IsFiniteSet(U) /\ Cardinality(U) \in Nat /\ Cardinality(V) \in Nat
      /\ Cardinality(U) = Cardinality(V) - (IF c \in V THEN 1 ELSE 0)
  BY FS_RemoveElement, FS_CardinalityType
<1>2. W = IF c \in W THEN U \cup {c} ELSE U
  OBVIOUS
<1>3. c \notin U
  OBVIOUS
<1> HIDE DEF U
<1>4. /\ IsFiniteSet(U \cup {c}) /\ Cardinality(U \cup {c}) = Cardinality(U) + 1
  BY <1>1, <1>3, FS_AddElement
<1>5. CASE c \in W
  <2>1. Cardinality(W) = Cardinality(U) + 1 /\ IsFiniteSet(W)
    BY <1>2, <1>4, <1>5
  <2> QED
    BY <1>1, <1>5, <2>1
<1>6. CASE c \notin W
  <2>1. Cardinality(W) = Cardinality(U) /\ IsFiniteSet(W)
    BY <1>1, <1>2, <1>6
  <2> QED
    BY <1>1, <1>6, <2>1
<1> QED
  BY <1>5, <1>6

(* Their numbers.                                                          *)
Counts ==
  /\ IsFiniteSet(Halting) /\ IsFiniteSet(Asking) /\ IsFiniteSet(Unhalted)
  /\ Cardinality(Halting) \in Nat /\ Cardinality(Asking) \in Nat
  /\ Cardinality(Unhalted) \in Nat
  /\ Cardinality(Halting) + Cardinality(Asking) <= N

(* Nobody is both about to halt and asking; all are counted.               *)
LEMMA Distinct == Counts
<1>1. /\ Halting \in SUBSET Traders /\ Asking \in SUBSET Traders
      /\ Unhalted \in SUBSET Callers
      /\ Halting \cap Asking = {}
      /\ Halting \cup Asking \in SUBSET Traders
  BY DEF Halting, Asking, Unhalted, At
<1>2. IsFiniteSet(Halting) /\ IsFiniteSet(Asking) /\ IsFiniteSet(Unhalted)
  BY <1>1, BreakerAssumption, Numbers, FS_Subset
<1>3. Cardinality(Halting \cup Asking) <= N
  BY <1>1, BreakerAssumption, FS_Subset DEF N
<1>4. Cardinality(Halting \cup Asking)
        = Cardinality(Halting) + Cardinality(Asking) - Cardinality({})
  BY <1>1, <1>2, FS_Union
<1>5. /\ Cardinality(Halting) \in Nat /\ Cardinality(Asking) \in Nat
      /\ Cardinality(Unhalted) \in Nat
  BY <1>2, FS_CardinalityType
<1> QED
  BY <1>2, <1>3, <1>4, <1>5, FS_EmptySet DEF Counts

(* The same in the next state.                                             *)
LEMMA DistinctNext == Counts'
BY Distinct, PTL

(* Moving c changes the sets by c alone.                                   *)
Moved(c) == \A d \in Callers : d # c => caller'[d].at = caller[d].at

(* What a move of c does to the numbers of those.                          *)
LEMMA Counted ==
  ASSUME NEW c \in Callers, Moved(c)
  PROVE  /\ Cardinality(Unhalted)' = Cardinality(Unhalted) - (IF c \in Unhalted THEN 1 ELSE 0)
                                     + (IF c \in Unhalted' THEN 1 ELSE 0)
         /\ Cardinality(Halting)' = Cardinality(Halting) - (IF c \in Halting THEN 1 ELSE 0)
                                     + (IF c \in Halting' THEN 1 ELSE 0)
         /\ Cardinality(Asking)' = Cardinality(Asking) - (IF c \in Asking THEN 1 ELSE 0)
                                     + (IF c \in Asking' THEN 1 ELSE 0)
<1>1. /\ Unhalted' \ {c} = Unhalted \ {c}
      /\ Halting' \ {c} = Halting \ {c}
      /\ Asking' \ {c} = Asking \ {c}
  BY DEF Moved, Unhalted, Halting, Asking, At, Callers
<1> QED
  BY <1>1, Distinct, OneMoved DEF Counts

(* A step that records no error and moves nobody to or from a halt.        *)
LEMMA QuietErrors ==
  ASSUME Typed, Typed', ErrorRoom, UNCHANGED <<halted, errors>>,
         Unhalted' = Unhalted, Halting' = Halting, halted => Asking' \subseteq Asking
  PROVE  ErrorRoom'
<1>1. halted => Cardinality(Asking') <= Cardinality(Asking) /\ Cardinality(Asking') \in Nat
  BY Distinct, FS_Subset, FS_CardinalityType DEF Counts
<1>2. /\ Cardinality(Asking) \in Nat /\ N \in Nat /\ N * Cardinality(Unhalted) \in Nat
      /\ Cardinality(Halting) \in Nat
  BY Distinct, Numbers DEF Counts
<1> QED
  BY <1>1, <1>2, Numbers DEF ErrorRoom, Typed

(* There is always room for no errors.                                     *)
LEMMA ZeroedErrors == ASSUME errors' = 0 PROVE ErrorRoom'
<1>1. /\ Cardinality(Halting)' \in Nat /\ Cardinality(Asking)' \in Nat
      /\ Cardinality(Unhalted)' \in Nat
      /\ Cardinality(Halting)' + Cardinality(Asking)' <= N
  BY DistinctNext DEF Counts
<1>2. N * Cardinality(Unhalted)' \in Nat
  BY <1>1, Numbers
<1> QED
  BY <1>1, <1>2, Numbers DEF ErrorRoom

(* A move that records no error, and neither enters nor leaves a halt.     *)
LEMMA QuietMove ==
  ASSUME Typed, Typed', ErrorRoom, UNCHANGED <<halted, errors>>,
         NEW c \in Callers, Moved(c),
         c \in Unhalted' <=> c \in Unhalted, c \in Halting' <=> c \in Halting,
         halted /\ c \in Asking' => c \in Asking
  PROVE  ErrorRoom'
<1>1. /\ Unhalted' = Unhalted /\ Halting' = Halting
      /\ halted => Asking' \subseteq Asking
  <2>1. \A d : /\ d \in Unhalted' => d \in Callers
               /\ d \in Halting' \/ d \in Asking' => d \in Traders
               /\ d \in Unhalted => d \in Callers
               /\ d \in Halting \/ d \in Asking => d \in Traders
    BY DEF Unhalted, Halting, Asking
  <2>2. \A d \in Callers : d # c =>
               /\ d \in Unhalted' <=> d \in Unhalted
               /\ d \in Halting' <=> d \in Halting
               /\ d \in Asking' <=> d \in Asking
    BY DEF Moved, Unhalted, Halting, Asking, At
  <2>3. Traders \subseteq Callers
    BY DEF Callers
  <2> QED
    BY <2>1, <2>2, <2>3
<1> QED
  BY <1>1, QuietErrors

(* Where c goes.                                                           *)
LEMMA GoesMoves ==
  ASSUME Typed, NEW c \in Callers, NEW place \in Places, Goes(c, place)
  PROVE  Moved(c) /\ caller'[c].at = place
BY GoesFacts DEF Moved

(* One error more, of a trader that goes on to halt if the row is complete.*)
LEMMA OneMore ==
  ASSUME NEW e \in Nat, NEW max \in Nat \ {0}, NEW k \in Nat, NEW n \in Nat,
         NEW h \in Nat, NEW a \in Nat, NEW g \in {h, h + 1}, a > 0, h + a <= n,
         e + 1 >= max => g = h + 1
  PROVE  /\ e <= max - 1 + k + h => e + 1 <= max - 1 + k + g
         /\ e <= max - 1 + k + (n - a) => e + 1 <= max - 1 + k + (n - (a - 1))
OBVIOUS

(* A reset under way makes room for an error of each trader.               *)
LEMMA OneReset ==
  ASSUME NEW e \in Nat, NEW max \in Nat \ {0}, NEW k \in Nat, NEW n \in Nat,
         NEW h \in Nat, e <= max - 1 + k + n
  PROVE  e <= max - 1 + (k + n) + h
OBVIOUS

(* Every step keeps ErrorRoom.                                             *)
LEMMA ErrorsStep ==
  ASSUME Typed, Typed', ErrorRoom, [Next]_vars
  PROVE  ErrorRoom'
<1> DEFINE quiet == {"idle", "cooldown", "day", "limits", "trade", "pnl", "position",
                     "note", "reset"}
<1>1. ASSUME NEW c \in Traders,
             CanExecute(c) \/ RecordPnl(c) \/ RecordPosition(c) \/ NoteTrip(c)
      PROVE  ErrorRoom'
  <2> c \in Callers
    BY DEF Callers
  <2>1. UNCHANGED <<halted, errors>>
    BY <1>1 DEF CanExecute, Ask, Cooldown, Day, Limits, RecordPnl, RecordPosition, NoteTrip
  <2>2. caller[c].at \in quiet
    BY <1>1 DEF CanExecute, Ask, Cooldown, Day, Limits, RecordPnl, RecordPosition, NoteTrip, At
  <2>3. /\ Moved(c) /\ caller'[c].at \in quiet
        /\ halted /\ c \in Asking' => c \in Asking
    <3>1. CASE Ask(c)
      <4>1. /\ \A d \in Callers : d # c => caller'[d] = caller[d]
            /\ caller'[c].at = IF halted THEN "idle" ELSE "cooldown"
        BY <3>1, AskFacts
      <4> QED
        BY <4>1 DEF Moved, Asking
    <3>2. CASE ~Ask(c)
      <4>1. PICK place \in {"day", "reset", "idle", "limits", "trade", "position"} :
              Goes(c, place)
        BY <1>1, <3>2 DEF CanExecute, Cooldown, Day, Limits, RecordPnl, RecordPosition, NoteTrip
      <4>2. place \in Places
        BY DEF Places
      <4>3. Moved(c) /\ caller'[c].at = place
        BY <4>1, <4>2, GoesMoves
      <4>4. place \in {"day", "limits", "trade"} =>
              caller[c].at \in {"cooldown", "day", "limits"}
        <5>1. CASE Cooldown(c) \/ Day(c) \/ Limits(c)
          BY <5>1 DEF Cooldown, Day, Limits, At
        <5>2. CASE RecordPnl(c) \/ RecordPosition(c) \/ NoteTrip(c)
          <6>1. Goes(c, "position") \/ Goes(c, "idle")
            BY <5>2 DEF RecordPnl, RecordPosition, NoteTrip
          <6>2. caller'[c].at \in {"position", "idle"}
            BY <6>1, GoesMoves DEF Places
          <6> QED
            BY <4>3, <6>2
        <5> QED
          BY <1>1, <3>2, <5>1, <5>2 DEF CanExecute
      <4> QED
        BY <4>3, <4>4 DEF Asking
    <3> QED
      BY <3>1, <3>2
  <2>4. /\ c \in Unhalted' <=> c \in Unhalted
        /\ c \in Halting' <=> c \in Halting
    BY <2>2, <2>3 DEF Unhalted, Halting, At
  <2> QED
    BY <2>1, <2>3, <2>4, QuietMove
<1>2. ASSUME NEW c \in Callers, (c \in Traders /\ RecordSuccess(c)) \/ ZeroErrors(c)
      PROVE  ErrorRoom'
  BY <1>2, ZeroedErrors DEF RecordSuccess, ZeroErrors
<1>3. ASSUME NEW c \in Callers, ForgetTrip(c)
      PROVE  ErrorRoom'
  <2>1. Goes(c, "zero") /\ At(c, "forget") /\ UNCHANGED <<halted, errors>>
    BY <1>3 DEF ForgetTrip
  <2>2. Moved(c) /\ caller'[c].at = "zero"
    BY <2>1, GoesMoves DEF Places
  <2> QED
    BY <2>1, <2>2, QuietMove DEF Unhalted, Halting, Asking, At
<1>4. CASE CallReset
  <2>1. /\ Goes(Operator, "reset") /\ At(Operator, "idle") /\ UNCHANGED <<halted, errors>>
        /\ Operator \in Callers
    BY <1>4 DEF CallReset, Callers
  <2>2. Moved(Operator) /\ caller'[Operator].at = "reset"
    BY <2>1, GoesMoves DEF Places
  <2> QED
    BY <2>1, <2>2, QuietMove DEF Unhalted, Halting, Asking, At
<1>5. CASE Cool \/ Midnight \/ UNCHANGED vars
  <2>1. UNCHANGED <<halted, errors, caller>>
    BY <1>5 DEF Cool, Midnight, vars
  <2> QED
    BY <2>1, QuietErrors DEF Unhalted, Halting, Asking, At
<1> DEFINE R == Cardinality(Unhalted)
           H == Cardinality(Halting)
           A == Cardinality(Asking)
<1>n. /\ R \in Nat /\ H \in Nat /\ A \in Nat /\ H + A <= N
      /\ R' \in Nat /\ H' \in Nat /\ A' \in Nat /\ H' + A' <= N
      /\ N * R \in Nat /\ N * (R + 1) = N * R + N
      /\ N \in Nat /\ MaxConsecutiveErrors \in Nat /\ errors \in Nat
  BY Distinct, DistinctNext, Numbers DEF Counts, Typed
<1>6. ASSUME NEW c \in Traders, RecordError(c)
      PROVE  ErrorRoom'
  <2>1. PICK place \in {"halt", "idle"} : Goes(c, place)
    BY <1>6 DEF RecordError
  <2>2. /\ At(c, "trade") /\ errors' = errors + 1 /\ halted' = halted /\ c \in Callers
        /\ errors + 1 >= MaxConsecutiveErrors => Goes(c, "halt")
    BY <1>6 DEF RecordError, Callers
  <2>3. /\ Moved(c)
        /\ caller'[c].at \in {"halt", "idle"}
        /\ errors + 1 >= MaxConsecutiveErrors => caller'[c].at = "halt"
    BY <2>1, <2>2, GoesMoves DEF Places
  <2>4. /\ R' = R /\ A' = A - 1 /\ H' \in {H, H + 1}
        /\ errors + 1 >= MaxConsecutiveErrors => H' = H + 1
    <3>1. /\ c \notin Unhalted /\ c \notin Unhalted' /\ c \in Asking /\ c \notin Asking'
          /\ c \notin Halting
          /\ errors + 1 >= MaxConsecutiveErrors => c \in Halting'
      BY <2>2, <2>3 DEF Unhalted, Asking, Halting, At
    <3>2. /\ R' = R - (IF c \in Unhalted THEN 1 ELSE 0) + (IF c \in Unhalted' THEN 1 ELSE 0)
          /\ H' = H - (IF c \in Halting THEN 1 ELSE 0) + (IF c \in Halting' THEN 1 ELSE 0)
          /\ A' = A - (IF c \in Asking THEN 1 ELSE 0) + (IF c \in Asking' THEN 1 ELSE 0)
      BY <2>2, <2>3, Counted
    <3> HIDE DEF R, H, A
    <3> QED
      BY <1>n, <3>1, <3>2
  <2>5. /\ ~halted => errors <= MaxConsecutiveErrors - 1 + N * R + H
        /\ halted => errors <= MaxConsecutiveErrors - 1 + N * R + (N - A)
    BY DEF ErrorRoom
  <2>6. /\ ~halted => errors + 1 <= MaxConsecutiveErrors - 1 + N * R + H'
        /\ halted => errors + 1 <= MaxConsecutiveErrors - 1 + N * R + (N - A')
    <3> HIDE DEF R, H, A
    <3>1. A > 0 /\ A' = A - 1
      BY <1>n, <2>4
    <3>2. MaxConsecutiveErrors \in Nat \ {0}
      BY Numbers
    <3> QED
      BY <1>n, <2>4, <2>5, <3>1, <3>2, OneMore
  <2>7. N * R' = N * R
    <3> HIDE DEF R
    <3> QED
      BY <2>4
  <2> QED
    BY <2>2, <2>6, <2>7 DEF ErrorRoom
<1>7. ASSUME NEW c \in Traders, Halt(c)
      PROVE  ErrorRoom'
  <2>1. Goes(c, "note") /\ At(c, "halt") /\ errors' = errors /\ halted' /\ c \in Callers
    BY <1>7 DEF Halt, Callers
  <2>2. Moved(c) /\ caller'[c].at = "note"
    BY <2>1, GoesMoves DEF Places
  <2>3. R' = R /\ A' = A
    <3>1. c \notin Unhalted /\ c \notin Unhalted' /\ c \notin Asking /\ c \notin Asking'
      BY <2>1, <2>2 DEF Unhalted, Asking, At
    <3>2. /\ R' = R - (IF c \in Unhalted THEN 1 ELSE 0) + (IF c \in Unhalted' THEN 1 ELSE 0)
          /\ A' = A - (IF c \in Asking THEN 1 ELSE 0) + (IF c \in Asking' THEN 1 ELSE 0)
      BY <2>1, <2>2, Counted
    <3> HIDE DEF R, A
    <3> QED
      BY <1>n, <3>1, <3>2
  <2>4. errors <= MaxConsecutiveErrors - 1 + N * R + (N - A)
    <3>1. /\ ~halted => errors <= MaxConsecutiveErrors - 1 + N * R + H
          /\ halted => errors <= MaxConsecutiveErrors - 1 + N * R + (N - A)
      BY DEF ErrorRoom
    <3> HIDE DEF R, H, A
    <3> QED
      BY <1>n, <3>1
  <2>5. errors' <= MaxConsecutiveErrors - 1 + N * R' + (N - A')
    <3> HIDE DEF R, A
    <3> QED
      BY <2>1, <2>3, <2>4
  <2> QED
    BY <2>1, <2>5 DEF ErrorRoom
<1>8. ASSUME NEW c \in Callers, Unhalt(c)
      PROVE  ErrorRoom'
  <2>1. Goes(c, "forget") /\ At(c, "reset") /\ errors' = errors /\ ~halted'
    BY <1>8 DEF Unhalt
  <2>2. Moved(c) /\ caller'[c].at = "forget"
    BY <2>1, GoesMoves DEF Places
  <2>3. R' = R + 1
    <3>1. c \notin Unhalted /\ c \in Unhalted'
      BY <2>1, <2>2 DEF Unhalted, At
    <3>2. R' = R - (IF c \in Unhalted THEN 1 ELSE 0) + (IF c \in Unhalted' THEN 1 ELSE 0)
      BY <2>2, Counted
    <3> HIDE DEF R
    <3> QED
      BY <1>n, <3>1, <3>2
  <2>4. errors <= MaxConsecutiveErrors - 1 + N * R + N
    <3>1. /\ ~halted => errors <= MaxConsecutiveErrors - 1 + N * R + H
          /\ halted => errors <= MaxConsecutiveErrors - 1 + N * R + (N - A)
      BY DEF ErrorRoom
    <3> HIDE DEF R, H, A
    <3> QED
      BY <1>n, <3>1
  <2>5. N * R' = N * R + N
    <3> HIDE DEF R
    <3> QED
      BY <1>n, <2>3
  <2>6. errors' <= MaxConsecutiveErrors - 1 + N * R' + H'
    <3> HIDE DEF R, H
    <3>1. errors <= MaxConsecutiveErrors - 1 + (N * R + N) + H'
      BY <1>n, <2>4, Numbers, OneReset
    <3> QED
      BY <2>1, <2>5, <3>1
  <2> QED
    BY <2>1, <2>6 DEF ErrorRoom
<1> QED
  BY <1>1, <1>2, <1>3, <1>4, <1>5, <1>6, <1>7, <1>8 DEF Next, Record, Reset, Callers

-----------------------------------------------------------------------------
(* What is multiplied.                                                     *)
LEMMA Times ==
  ASSUME NEW k \in Int, NEW c \in Nat
  PROVE  k * c \in Int /\ (k - 1) * c = k * c - c /\ (k + 1) * c = k * c + c
OBVIOUS

(* More of the same is more.                                               *)
LEMMA Monotone ==
  ASSUME NEW k \in Nat, NEW n \in Nat, NEW c \in Nat, k <= n
  PROVE  k * c \in Nat /\ n * c \in Nat /\ k * c <= n * c
<1>1. (n - k) * c \in Nat /\ k * c \in Nat /\ n * c \in Nat
  OBVIOUS
<1>2. n * c = k * c + (n - k) * c
  OBVIOUS
<1> QED
  BY <1>1, <1>2

(* There is room up to hi for the trades of those in V, w being what they  *)
(* trade: even if each is of the most contracts, or one of those it is.    *)
Room(x, V, hi, w) ==
  \/ x + Cardinality(V) * MaxContracts <= hi
  \/ \E l \in V : x + w[l].contracts + (Cardinality(V) - 1) * MaxContracts <= hi

(* Each of those in V trades so many contracts.                            *)
Sized(w, V) == \A l \in V : w[l].contracts \in 1..MaxContracts

(* Where there is room the bound holds already.                            *)
LEMMA RoomHolds ==
  ASSUME NEW V, IsFiniteSet(V), NEW x \in Int, NEW hi \in Int, NEW w, Sized(w, V),
         Room(x, V, hi, w)
  PROVE  x <= hi
<1> DEFINE k == Cardinality(V)
<1>1. k \in Nat /\ k * MaxContracts \in Nat
  BY FS_CardinalityType, Numbers, Monotone
<1>2. CASE x + k * MaxContracts <= hi
  <2> HIDE DEF k
  <2> QED
    BY <1>1, <1>2
<1>3. CASE \E l \in V : x + w[l].contracts + (k - 1) * MaxContracts <= hi
  <2>1. PICK l \in V : x + w[l].contracts + (k - 1) * MaxContracts <= hi
    BY <1>3
  <2>2. w[l].contracts \in Nat
    BY DEF Sized
  <2>3. k - 1 \in Nat
    BY <1>1, FS_EmptySet
  <2>4. (k - 1) * MaxContracts \in Nat
    BY <2>3, Numbers, Monotone
  <2> HIDE DEF k
  <2> QED
    BY <2>1, <2>2, <2>4
<1> QED
  BY <1>2, <1>3 DEF Room

(* Whoever is let through fits below the limit, and the others overrun it. *)
LEMMA RoomEntered ==
  ASSUME NEW V \in SUBSET Traders, NEW x \in Int, NEW limit \in Int, NEW w, Sized(w, V),
         NEW c \in V, x + w[c].contracts <= limit
  PROVE  Room(x, V, limit + Others * MaxContracts, w)
<1> DEFINE k == Cardinality(V)
<1>1. k \in Nat /\ k <= N /\ k # 0
  <2>1. IsFiniteSet(V) /\ k <= N
    BY BreakerAssumption, FS_Subset DEF N
  <2> QED
    BY <2>1, FS_CardinalityType, FS_EmptySet
<1>2. k - 1 \in Nat /\ N - 1 \in Nat /\ k - 1 <= N - 1
  BY <1>1, Numbers
<1>3. /\ (k - 1) * MaxContracts \in Nat /\ (N - 1) * MaxContracts \in Nat
      /\ (k - 1) * MaxContracts <= (N - 1) * MaxContracts
  BY <1>2, Numbers, Monotone
<1>4. w[c].contracts \in Nat
  BY DEF Sized
<1>5. x + w[c].contracts + (k - 1) * MaxContracts <= limit + (N - 1) * MaxContracts
  <2> HIDE DEF k
  <2> QED
    BY <1>3, <1>4
<1> QED
  BY <1>5 DEF Room, Others, N

(* Whoever leaves takes what it trades, or nothing if it failed.           *)
LEMMA RoomLeft ==
  ASSUME NEW V, IsFiniteSet(V), NEW x \in Int, NEW hi \in Int, NEW w, Sized(w, V),
         NEW c \in V, NEW n \in 0..w[c].contracts, Room(x, V, hi, w),
         NEW v, \A l \in V : v[l].contracts = w[l].contracts
  PROVE  Room(x + n, V \ {c}, hi, v)
<1> DEFINE k == Cardinality(V)
           W == V \ {c}
           j == Cardinality(W)
<1>1. k \in Nat /\ j = k - 1 /\ j \in Nat
  BY FS_CardinalityType, FS_RemoveElement
<1>2. /\ k * MaxContracts \in Int /\ j * MaxContracts = k * MaxContracts - MaxContracts
      /\ j * MaxContracts \in Int
      /\ (j - 1) * MaxContracts = j * MaxContracts - MaxContracts
  <2> HIDE DEF j, k
  <2> QED
    BY <1>1, Numbers, Times
<1>3. w[c].contracts \in 1..MaxContracts /\ n <= w[c].contracts /\ n \in Nat
      /\ MaxContracts \in Nat
  BY Numbers DEF Sized
<1>4. CASE x + k * MaxContracts <= hi
  <2>1. x + n + j * MaxContracts <= hi
    <3> HIDE DEF j, k
    <3> QED
      BY <1>2, <1>3, <1>4
  <2> QED
    BY <2>1 DEF Room
<1>5. ASSUME NEW l \in V, x + w[l].contracts + (k - 1) * MaxContracts <= hi
      PROVE  Room(x + n, W, hi, v)
  <2>1. x + w[l].contracts + j * MaxContracts <= hi
    <3> HIDE DEF j, k
    <3> QED
      BY <1>1, <1>5
  <2>2. CASE l = c
    <3>1. x + n + j * MaxContracts <= hi
      <4> HIDE DEF j, k
      <4> QED
        BY <1>2, <1>3, <2>1, <2>2
    <3> QED
      BY <3>1 DEF Room
  <2>3. CASE l # c
    <3>1. x + n + w[l].contracts + (j - 1) * MaxContracts <= hi
      <4>1. w[l].contracts \in Nat
        BY DEF Sized
      <4> HIDE DEF j, k
      <4> QED
        BY <1>2, <1>3, <2>1, <4>1
    <3>2. l \in W /\ v[l].contracts = w[l].contracts
      BY <2>3
    <3>3. x + n + v[l].contracts + (j - 1) * MaxContracts <= hi
      BY <3>1, <3>2
    <3> QED
      BY <3>2, <3>3 DEF Room
  <2> QED
    BY <2>2, <2>3
<1> QED
  BY <1>4, <1>5 DEF Room

(* Room depends on what those in V trade and on nothing else.              *)
LEMMA RoomSame ==
  ASSUME NEW V, NEW x, NEW hi, NEW w, NEW v, Room(x, V, hi, w),
         \A l \in V : v[l].contracts = w[l].contracts
  PROVE  Room(x, V, hi, v)
BY DEF Room

-----------------------------------------------------------------------------
(* What is recorded has its type.                                          *)
Stored ==
  /\ newDay \in BOOLEAN /\ loss \in Nat
  /\ Known \subseteq Markets /\ IsFiniteSet(Known) /\ positions \in [Known -> Nat]

(* Those that were let through and have not recorded all of their trade.   *)
Through == {c \in Traders : caller[c].at \in {"trade", "pnl", "position"}}
Into(m) == {c \in Through : caller[c].market = m}
Losing == {c \in Traders : caller[c].at \in {"trade", "pnl"}}
(* The position in m, which is zero where none is recorded.                *)
Held(m) == IF m \in Known THEN positions[m] ELSE 0

(* There is room for what those who have not recorded it may lose.         *)
LossRoom ==
  loss + Cardinality(Losing) * MaxLossPerTrade <= MaxDailyLoss + N * MaxLossPerTrade

(* There is room for all of the trades of those who are through.           *)
TotalRoom == Room(Total, Through, MaxTotalPosition + Others * MaxContracts, caller)

(* So there is in each market, or it holds a trade of each at the most.    *)
MarketFits(m) ==
  \/ Room(Held(m), Into(m), MaxPositionPerMarket + Others * MaxContracts, caller)
  \/ Held(m) + Cardinality(Into(m)) * MaxContracts <= N * MaxContracts

MarketRoom == \A m \in Markets : MarketFits(m)

(* Every step keeps the types of what is recorded.                         *)
LEMMA StoredStep ==
  ASSUME Typed, Stored, [Next]_vars
  PROVE  Stored'
<1>1. ASSUME NEW c \in Traders, Day(c)
      PROVE  Stored'
  BY <1>1 DEF Day, Stored, Known
<1>2. ASSUME NEW c \in Traders, RecordPnl(c)
      PROVE  Stored'
  BY <1>2, Numbers DEF RecordPnl, Stored, Known
<1>3. ASSUME NEW c \in Traders, RecordPosition(c)
      PROVE  Stored'
  <2> DEFINE m == caller[c].market
             n == caller[c].contracts
  <2>1. /\ positions' = [k \in Known \cup {m} |->
                           (IF k \in Known THEN positions[k] ELSE 0) + (IF k = m THEN n ELSE 0)]
        /\ UNCHANGED <<loss, newDay>>
    BY <1>3 DEF RecordPosition
  <2>2. m \in Markets /\ n \in Nat
    BY Numbers DEF Typed, Callers
  <2> HIDE DEF m, n
  <2>3. Known' = Known \cup {m}
    BY <2>1 DEF Known
  <2>4. positions' \in [Known' -> Nat]
    BY <2>1, <2>2, <2>3 DEF Stored
  <2>5. IsFiniteSet(Known')
    BY <2>3, FS_AddElement DEF Stored
  <2> QED
    BY <2>1, <2>2, <2>3, <2>4, <2>5 DEF Stored
<1>4. CASE UNCHANGED <<loss, newDay, positions>>
  BY <1>4 DEF Stored, Known
<1>5. CASE Midnight
  BY <1>5 DEF Midnight, Stored, Known
<1>6. ASSUME NEW c \in Traders, Ask(c) \/ Cooldown(c) \/ Limits(c) \/ RecordSuccess(c)
                                \/ RecordError(c) \/ Halt(c) \/ NoteTrip(c)
      PROVE  UNCHANGED <<loss, newDay, positions>>
  BY <1>6 DEF Ask, Cooldown, Limits, RecordSuccess, RecordError, Halt, NoteTrip
<1>7. ASSUME NEW c \in Callers, Reset(c)
      PROVE  UNCHANGED <<loss, newDay, positions>>
  BY <1>7 DEF Reset, Unhalt, ForgetTrip, ZeroErrors
<1>8. CallReset \/ Cool \/ UNCHANGED vars => UNCHANGED <<loss, newDay, positions>>
  BY DEF CallReset, Cool, vars
<1> QED
  BY <1>1, <1>2, <1>3, <1>4, <1>5, <1>6, <1>7, <1>8 DEF Next, CanExecute, Record

(* The steps that matter to the limits: being let through, and recording.  *)
Passes(c) == Limits(c) /\ caller'[c].at = "trade"
Matters(c) == Passes(c) \/ RecordPnl(c) \/ RecordPosition(c) \/ RecordError(c)

(* Whoever moves keeps its trade.                                          *)
LEMMA TradeKept ==
  ASSUME Typed, NEW c \in Callers, NEW place \in Places, Goes(c, place)
  PROVE  /\ caller'[c].market = caller[c].market
         /\ caller'[c].contracts = caller[c].contracts
BY DEF Typed, Goes

(* No other step changes who is through, or adds to a loss or a position.  *)
LEMMA Elsewhere ==
  ASSUME Typed, Stored, [Next]_vars, \A c \in Traders : ~Matters(c)
  PROVE  /\ UNCHANGED positions /\ loss' \in {0, loss}
         /\ Through' = Through /\ Losing' = Losing
         /\ \A l \in Through : /\ caller'[l].contracts = caller[l].contracts
                               /\ caller'[l].market = caller[l].market
<1> DEFINE none == /\ UNCHANGED positions /\ loss' \in {0, loss}
           away == {"idle", "cooldown", "day", "limits", "halt", "note", "reset",
                    "forget", "zero"}
           same == /\ Through' = Through /\ Losing' = Losing
                   /\ \A l \in Through : /\ caller'[l].contracts = caller[l].contracts
                                         /\ caller'[l].market = caller[l].market
<1>0. Traders \subseteq Callers
  BY DEF Callers
<1>1. ASSUME NEW c \in Callers, \A d \in Callers : d # c => caller'[d] = caller[d],
             caller[c].at \in away, caller'[c].at \in away
      PROVE  same
  <2>1. c \notin Through /\ c \notin Through' /\ c \notin Losing /\ c \notin Losing'
    BY <1>1 DEF Through, Losing
  <2>2. \A d \in Traders : d # c => /\ d \in Through' <=> d \in Through
                                    /\ d \in Losing' <=> d \in Losing
    BY <1>0, <1>1 DEF Through, Losing
  <2>3. /\ Through \subseteq Traders /\ Through' \subseteq Traders
        /\ Losing \subseteq Traders /\ Losing' \subseteq Traders
    BY DEF Through, Losing
  <2> QED
    BY <1>0, <1>1, <2>1, <2>2, <2>3
<1>2. ASSUME NEW c \in Traders, CanExecute(c) \/ Halt(c) \/ NoteTrip(c)
      PROVE  none /\ same
  <2>1. none
    BY <1>2 DEF CanExecute, Ask, Cooldown, Day, Limits, Halt, NoteTrip
  <2>2. caller[c].at \in away /\ c \in Callers
    BY <1>2, <1>0 DEF CanExecute, Ask, Cooldown, Day, Limits, Halt, NoteTrip, At
  <2>3. /\ \A d \in Callers : d # c => caller'[d] = caller[d]
        /\ caller'[c].at \in away
    <3>1. CASE Ask(c)
      BY <2>2, <3>1, AskFacts
    <3>2. CASE ~Ask(c)
      <4>1. PICK place \in {"day", "reset", "idle", "limits", "trade", "note"} : Goes(c, place)
        BY <1>2, <3>2 DEF CanExecute, Cooldown, Day, Limits, Halt, NoteTrip
      <4>2. /\ \A d \in Callers : d # c => caller'[d] = caller[d]
            /\ caller'[c].at = place
        BY <2>2, <4>1, GoesFacts DEF Places
      <4>3. place # "trade"
        <5>1. CASE Cooldown(c) \/ Day(c) \/ Halt(c) \/ NoteTrip(c)
          <6>1. PICK other \in {"day", "reset", "idle", "limits", "note"} : Goes(c, other)
            BY <5>1 DEF Cooldown, Day, Halt, NoteTrip
          <6>2. caller'[c].at = other
            BY <2>2, <6>1, GoesFacts DEF Places
          <6> QED
            BY <4>2, <6>2
        <5>2. CASE Limits(c)
          BY <4>2, <5>2 DEF Matters, Passes
        <5> QED
          BY <1>2, <3>2, <5>1, <5>2 DEF CanExecute
      <4> QED
        BY <4>2, <4>3
    <3> QED
      BY <3>1, <3>2
  <2> QED
    BY <1>1, <2>1, <2>2, <2>3
<1>3. ASSUME NEW c \in Callers, Reset(c) \/ (c = Operator /\ CallReset)
      PROVE  none /\ same
  <2>1. none
    BY <1>3 DEF Reset, Unhalt, ForgetTrip, ZeroErrors, CallReset
  <2>2. caller[c].at \in away
    BY <1>3 DEF Reset, Unhalt, ForgetTrip, ZeroErrors, CallReset, At
  <2>3. PICK place \in {"reset", "forget", "zero", "idle", "day"} : Goes(c, place)
    BY <1>3 DEF Reset, Unhalt, ForgetTrip, ZeroErrors, CallReset
  <2>4. /\ \A d \in Callers : d # c => caller'[d] = caller[d]
        /\ caller'[c].at = place
    BY <2>3, GoesFacts DEF Places
  <2> QED
    BY <1>1, <2>1, <2>2, <2>4
<1>4. ASSUME NEW c \in Traders, RecordSuccess(c)
      PROVE  none /\ same
  <2>1. none /\ At(c, "trade") /\ Goes(c, "pnl") /\ c \in Callers
    BY <1>0, <1>4 DEF RecordSuccess
  <2>2. /\ \A d \in Callers : d # c => caller'[d] = caller[d]
        /\ caller'[c].at = "pnl"
        /\ caller'[c].market = caller[c].market /\ caller'[c].contracts = caller[c].contracts
    BY <2>1, GoesFacts, TradeKept DEF Places
  <2>3. \A d \in Traders : /\ d \in Through' <=> d \in Through
                           /\ d \in Losing' <=> d \in Losing
    BY <1>0, <2>1, <2>2 DEF Through, Losing, At
  <2>4. /\ Through \subseteq Traders /\ Through' \subseteq Traders
        /\ Losing \subseteq Traders /\ Losing' \subseteq Traders
    BY DEF Through, Losing
  <2> QED
    BY <1>0, <2>1, <2>2, <2>3, <2>4
<1>5. CASE Cool \/ Midnight \/ UNCHANGED vars
  BY <1>5 DEF Cool, Midnight, vars, Through, Losing
<1>6. Operator \in Callers
  BY DEF Callers
<1> QED
  BY <1>2, <1>3, <1>4, <1>5, <1>6 DEF Next, Record, Matters

-----------------------------------------------------------------------------
(* What the steps that matter do to those who are through.                 *)
SetsFacts ==
  /\ Through \in SUBSET Traders /\ Losing \in SUBSET Traders
  /\ IsFiniteSet(Through) /\ IsFiniteSet(Losing)
  /\ Cardinality(Losing) \in Nat /\ Cardinality(Losing) <= N

(* Those who are through are traders, finitely many.                       *)
LEMMA Sets == SetsFacts
<1>1. Through \in SUBSET Traders /\ Losing \in SUBSET Traders
  BY DEF Through, Losing
<1> QED
  BY <1>1, BreakerAssumption, FS_Subset, FS_CardinalityType DEF N, SetsFacts

(* The same in the next state.                                             *)
LEMMA SetsNext == SetsFacts'
BY Sets, PTL

(* Who is through, after a move of c alone.                                *)
LEMMA ThroughMoved ==
  ASSUME Typed, NEW c \in Traders, NEW place \in Places, Goes(c, place)
  PROVE  /\ Through' = IF place \in {"trade", "pnl", "position"}
                       THEN Through \cup {c} ELSE Through \ {c}
         /\ Losing' = IF place \in {"trade", "pnl"} THEN Losing \cup {c} ELSE Losing \ {c}
         /\ \A l \in Callers : /\ caller'[l].contracts = caller[l].contracts
                               /\ caller'[l].market = caller[l].market
<1>1. c \in Callers /\ Traders \subseteq Callers
  BY DEF Callers
<1>2. /\ caller'[c].at = place
      /\ \A d \in Callers : d # c => caller'[d] = caller[d]
      /\ caller'[c].market = caller[c].market /\ caller'[c].contracts = caller[c].contracts
  BY <1>1, GoesFacts, TradeKept
<1>3. /\ Through \subseteq Traders /\ Through' \subseteq Traders
      /\ Losing \subseteq Traders /\ Losing' \subseteq Traders
  BY DEF Through, Losing
<1>4. /\ c \in Through' <=> place \in {"trade", "pnl", "position"}
      /\ c \in Losing' <=> place \in {"trade", "pnl"}
  BY <1>2 DEF Through, Losing
<1>5. \A d \in Traders : d # c => /\ d \in Through' <=> d \in Through
                                  /\ d \in Losing' <=> d \in Losing
  BY <1>1, <1>2 DEF Through, Losing
<1>6. Through' = IF place \in {"trade", "pnl", "position"}
                 THEN Through \cup {c} ELSE Through \ {c}
  BY <1>3, <1>4, <1>5
<1>7. Losing' = IF place \in {"trade", "pnl"} THEN Losing \cup {c} ELSE Losing \ {c}
  BY <1>3, <1>4, <1>5
<1> QED
  BY <1>2, <1>6, <1>7

(* Whoever passes the limits goes on to trade.                             *)
LEMMA Passed ==
  ASSUME Typed, NEW c \in Traders, Passes(c)
  PROVE  /\ Goes(c, "trade") /\ WithinLimits(caller[c].market, caller[c].contracts)
         /\ c \notin Through /\ c \notin Losing
         /\ UNCHANGED <<loss, positions>>
<1>1. c \in Callers
  BY DEF Callers
<1>2. PICK place \in {"trade", "idle"} : Goes(c, place)
  BY DEF Passes, Limits
<1>3. caller'[c].at = place
  BY <1>1, <1>2, GoesFacts DEF Places
<1>4. Goes(c, "trade")
  BY <1>2, <1>3 DEF Passes
<1>5. WithinLimits(caller[c].market, caller[c].contracts)
  <2>1. CASE ~WithinLimits(caller[c].market, caller[c].contracts)
    <3>1. Goes(c, "idle")
      BY <2>1 DEF Passes, Limits
    <3>2. caller'[c].at = "idle"
      BY <1>1, <3>1, GoesFacts DEF Places
    <3> QED
      BY <3>2 DEF Passes
  <2> QED
    BY <2>1
<1> QED
  BY <1>4, <1>5 DEF Passes, Limits, Through, Losing, At

(* The sums that bound a loss, x, of which k more may come, of c each.     *)
LEMMA FewerToCome ==
  ASSUME NEW x \in Nat, NEW y \in Nat, NEW k \in Nat, NEW j \in Nat, NEW c \in Nat,
         NEW hi \in Int, y <= x, j <= k, x + k * c <= hi
  PROVE  y + j * c <= hi
<1>1. k * c \in Nat /\ j * c \in Nat /\ j * c <= k * c
  BY Monotone
<1> QED
  BY <1>1

(* One of them came, of n.                                                 *)
LEMMA OneCame ==
  ASSUME NEW x \in Nat, NEW n \in Nat, NEW k \in Nat, NEW c \in Nat,
         NEW hi \in Int, n <= c, x + k * c <= hi
  PROVE  (x + n) + (k - 1) * c <= hi
<1>1. k * c \in Int /\ (k - 1) * c = k * c - c
  BY Times
<1> QED
  BY <1>1

(* Nobody counts twice.                                                    *)
LEMMA AtMostAll ==
  ASSUME NEW x \in Nat, NEW hi \in Nat, NEW k \in Nat, NEW n \in Nat, NEW c \in Nat,
         x <= hi, k <= n
  PROVE  x + k * c <= hi + n * c
<1>1. k * c \in Nat /\ n * c \in Nat /\ k * c <= n * c
  BY Monotone
<1> QED
  BY <1>1

(* Every step keeps LossRoom.                                              *)
LEMMA LossStep ==
  ASSUME Typed, Stored, Stored', LossRoom, [Next]_vars
  PROVE  LossRoom'
<1> DEFINE k == Cardinality(Losing)
           hi == MaxDailyLoss + N * MaxLossPerTrade
<1>1. /\ k \in Nat /\ k' \in Nat /\ k' <= N
      /\ loss \in Nat /\ loss' \in Nat
      /\ N \in Nat /\ MaxDailyLoss \in Nat /\ MaxLossPerTrade \in Nat
  BY Sets, SetsNext, Numbers DEF SetsFacts, Stored
<1>2. hi \in Int
  BY <1>1
<1>3. loss + k * MaxLossPerTrade <= hi
  BY DEF LossRoom
<1>4. loss' + k' * MaxLossPerTrade <= hi => LossRoom'
  BY DEF LossRoom
<1>5. ASSUME loss' \in {0, loss}, Losing' \subseteq Losing
      PROVE  LossRoom'
  <2>1. k' <= k
    BY <1>5, Sets, FS_Subset DEF SetsFacts
  <2>2. loss' <= loss
    BY <1>1, <1>5
  <2> HIDE DEF k, hi
  <2> QED
    BY <1>1, <1>2, <1>3, <1>4, <2>1, <2>2, FewerToCome
<1>6. ASSUME NEW c \in Traders, Passes(c)
      PROVE  LossRoom'
  <2>1. loss' <= MaxDailyLoss
    BY <1>6, Passed DEF WithinLimits
  <2>2. loss' + k' * MaxLossPerTrade <= MaxDailyLoss + N * MaxLossPerTrade
    <3> HIDE DEF k
    <3> QED
      BY <1>1, <2>1, AtMostAll
  <2> QED
    BY <1>4, <2>2
<1>7. ASSUME NEW c \in Traders, RecordPnl(c)
      PROVE  LossRoom'
  <2>1. Losing' = Losing \ {c} /\ c \in Losing
    BY <1>7, ThroughMoved DEF RecordPnl, Losing, At, Places
  <2>2. k' = k - 1
    BY <2>1, Sets, FS_RemoveElement DEF SetsFacts
  <2>3. PICK n \in 0..MaxLossPerTrade : loss' = loss + n
    BY <1>7 DEF RecordPnl
  <2>4. n \in Nat /\ n <= MaxLossPerTrade
    BY <1>1
  <2> HIDE DEF k, hi
  <2>5. (loss + n) + (k - 1) * MaxLossPerTrade <= hi
    BY <1>1, <1>2, <1>3, <2>4, OneCame
  <2> QED
    BY <1>4, <2>2, <2>3, <2>5
<1>8. ASSUME NEW c \in Traders, RecordPosition(c) \/ RecordError(c)
      PROVE  LossRoom'
  <2>1. PICK place \in {"idle", "halt"} : Goes(c, place)
    BY <1>8 DEF RecordPosition, RecordError
  <2>2. Losing' \subseteq Losing
    BY <2>1, ThroughMoved DEF Places
  <2> QED
    BY <1>5, <1>8, <2>2 DEF RecordPosition, RecordError
<1>9. CASE \A c \in Traders : ~Matters(c)
  BY <1>5, <1>9, Elsewhere
<1> QED
  BY <1>6, <1>7, <1>8, <1>9 DEF Matters

(* Without a new position the total stays.                                 *)
LEMMA TotalKept ==
  ASSUME Stored, UNCHANGED positions
  PROVE  Total' = Total /\ Total \in Int
<1>1. Known' = Known
  BY DEF Known
<1>2. Total = Sums(positions, Known)[Known] /\ Total' = Sums(positions', Known')[Known']
  BY TotalIsSum DEF TotalSum
<1>3. Total' = Total
  BY <1>1, <1>2
<1>4. IsFiniteSet(Known) /\ positions \in [Known -> Int] /\ Known \in SUBSET Known
  BY DEF Stored
<1>5. Sums(positions, Known)[Known] \in Int
  BY <1>4, AnyFirst
<1> QED
  BY <1>2, <1>3, <1>5

(* The total grows by the contracts that are recorded.                     *)
LEMMA TotalGrows ==
  ASSUME Typed, Stored, NEW c \in Traders, RecordPosition(c)
  PROVE  Total' = Total + caller[c].contracts /\ Total \in Int
<1> DEFINE m == caller[c].market
           n == caller[c].contracts
           U == Known \ {m}
<1>1. /\ positions' = [k \in Known \cup {m} |->
                         (IF k \in Known THEN positions[k] ELSE 0) + (IF k = m THEN n ELSE 0)]
  BY DEF RecordPosition
<1>2. n \in Int
  BY Numbers DEF Typed, Callers
<1> HIDE DEF m, n
<1>3. Known' = Known \cup {m}
  BY <1>1 DEF Known
<1>4. IsFiniteSet(Known) /\ positions \in [Known -> Int]
  BY DEF Stored
<1>5. IsFiniteSet(Known')
  BY <1>3, <1>4, FS_AddElement
<1>6. positions' \in [Known' -> Int]
  BY <1>1, <1>2, <1>3, <1>4
<1>7. \A k \in U : positions[k] = positions'[k]
  BY <1>1, <1>4
<1>8. U \in SUBSET (Known \cap Known') /\ m \in Known' /\ Known' \ {m} = U
  BY <1>3
<1>9. \/ m \in Known /\ Known \ {m} = U /\ positions'[m] = positions[m] + n
      \/ Known = U /\ positions'[m] = n
  BY <1>1, <1>2, <1>4
<1> HIDE DEF U
<1>10. Sums(positions', Known')[Known'] = Sums(positions, Known)[Known] + n
  BY <1>2, <1>4, <1>5, <1>6, <1>7, <1>8, <1>9, AddedOnce
<1>11. Sums(positions, Known)[Known] \in Int
  BY <1>4, Known \in SUBSET Known, AnyFirst
<1> QED
  BY <1>10, <1>11, TotalIsSum DEF TotalSum, n

(* Everybody's trade is of so many contracts.                              *)
LEMMA TradesSized == ASSUME Typed, NEW V \in SUBSET Traders PROVE Sized(caller, V)
BY DEF Typed, Sized, Callers

(* Every step keeps TotalRoom.                                             *)
LEMMA TotalStep ==
  ASSUME Typed, Typed', Stored, TotalRoom, [Next]_vars
  PROVE  TotalRoom'
<1> DEFINE hi == MaxTotalPosition + Others * MaxContracts
<1>1. hi \in Int /\ MaxTotalPosition \in Int
  BY Numbers, Times DEF Others, N
<1>2. Room(Total, Through, hi, caller) /\ (Room(Total', Through', hi, caller') => TotalRoom')
  BY DEF TotalRoom
<1>3. /\ Through \in SUBSET Traders /\ Through' \in SUBSET Traders /\ IsFiniteSet(Through)
      /\ Traders \subseteq Callers
  BY Sets, SetsNext DEF SetsFacts, Callers
<1>4. Sized(caller, Through) /\ Sized(caller', Through')
  BY <1>3 DEF Typed, Sized
<1> HIDE DEF hi
<1>5. ASSUME NEW c \in Traders, Passes(c)
      PROVE  TotalRoom'
  <2>1. /\ Goes(c, "trade") /\ UNCHANGED positions
        /\ Total + caller[c].contracts <= MaxTotalPosition
    BY <1>5, Passed DEF WithinLimits
  <2>2. c \in Through' /\ caller'[c].contracts = caller[c].contracts
    BY <1>3, <2>1, ThroughMoved DEF Places
  <2>3. Total' \in Int /\ Total' + caller'[c].contracts <= MaxTotalPosition
    BY <2>1, <2>2, TotalKept
  <2>4. Room(Total', Through', MaxTotalPosition + Others * MaxContracts, caller')
    BY <1>1, <1>3, <1>4, <2>2, <2>3, RoomEntered
  <2> QED
    BY <2>4 DEF TotalRoom
<1>6. ASSUME NEW c \in Traders, RecordPosition(c) \/ RecordError(c)
      PROVE  TotalRoom'
  <2>1. PICK place \in {"idle", "halt"} : Goes(c, place)
    BY <1>6 DEF RecordPosition, RecordError
  <2>2. /\ Through' = Through \ {c} /\ c \in Through
        /\ \A l \in Through : caller'[l].contracts = caller[l].contracts
    BY <1>3, <1>6, <2>1, ThroughMoved DEF Places, RecordPosition, RecordError, At, Through
  <2>3. PICK n \in 0..caller[c].contracts : Total' = Total + n
    <3>1. caller[c].contracts \in Nat
      BY <1>3, Numbers DEF Typed
    <3>2. CASE RecordPosition(c)
      BY <3>1, <3>2, TotalGrows
    <3>3. CASE RecordError(c)
      BY <3>1, <3>3, TotalKept DEF RecordError
    <3> QED
      BY <1>6, <3>2, <3>3
  <2>4. Total \in Int
    BY <1>6, TotalKept, TotalGrows DEF RecordError
  <2>5. Room(Total + n, Through \ {c}, hi, caller')
    BY <1>1, <1>2, <1>3, <1>4, <2>2, <2>4, RoomLeft
  <2> QED
    BY <1>2, <2>2, <2>3, <2>5
<1>7. CASE \/ \E c \in Traders : RecordPnl(c)
           \/ \A c \in Traders : ~Matters(c)
  <2>1. /\ Through' = Through /\ UNCHANGED positions
        /\ \A l \in Through : caller'[l].contracts = caller[l].contracts
    <3>1. ASSUME NEW c \in Traders, RecordPnl(c)
          PROVE  /\ Through' = Through /\ UNCHANGED positions
                 /\ \A l \in Through : caller'[l].contracts = caller[l].contracts
      <4>1. Goes(c, "position") /\ c \in Through /\ UNCHANGED positions
        BY <3>1 DEF RecordPnl, Through, At
      <4>2. /\ Through' = Through \cup {c}
            /\ \A l \in Callers : caller'[l].contracts = caller[l].contracts
        BY <4>1, ThroughMoved DEF Places
      <4> QED
        BY <1>3, <4>1, <4>2
    <3> QED
      BY <1>7, <3>1, Elsewhere
  <2>2. Total' = Total
    BY <2>1, TotalKept
  <2> QED
    BY <1>2, <2>1, <2>2, RoomSame
<1> QED
  BY <1>5, <1>6, <1>7 DEF Matters

(* A market for which nobody who trades in it does anything.               *)
LEMMA MarketKept ==
  ASSUME NEW m \in Markets, MarketFits(m),
         Held(m)' = Held(m), Into(m)' = Into(m),
         \A l \in Into(m) : caller'[l].contracts = caller[l].contracts
  PROVE  MarketFits(m)'
<1> DEFINE hi == MaxPositionPerMarket + Others * MaxContracts
<1>1. CASE Room(Held(m), Into(m), hi, caller)
  <2>1. Room(Held(m), Into(m), hi, caller')
    <3> HIDE DEF hi
    <3> QED
      BY <1>1, RoomSame
  <2>2. Room(Held(m)', Into(m)', hi, caller')
    BY <2>1
  <2> QED
    BY <2>2 DEF MarketFits
<1>2. CASE Held(m) + Cardinality(Into(m)) * MaxContracts <= N * MaxContracts
  BY <1>2 DEF MarketFits
<1> QED
  BY <1>1, <1>2 DEF MarketFits

(* Every step keeps MarketRoom.                                            *)
LEMMA MarketStep ==
  ASSUME Typed, Typed', Stored, Stored', MarketRoom, [Next]_vars, NEW m \in Markets
  PROVE  MarketFits(m)'
<1> DEFINE hi == MaxPositionPerMarket + Others * MaxContracts
<1>1. /\ hi \in Int /\ MaxPositionPerMarket \in Int
      /\ N \in Nat /\ MaxContracts \in Nat /\ N * MaxContracts \in Int
  BY Numbers, Times DEF Others, N
<1>2. MarketFits(m)
  BY DEF MarketRoom
<1>3. /\ Into(m) \in SUBSET Traders /\ Into(m)' \in SUBSET Traders
      /\ IsFiniteSet(Into(m)) /\ Cardinality(Into(m)) \in Nat
      /\ IsFiniteSet(Into(m)') /\ Cardinality(Into(m)') \in Nat
      /\ Cardinality(Into(m)') <= N
      /\ Traders \subseteq Callers
  <2>1. Into(m) \in SUBSET Traders /\ Into(m)' \in SUBSET Traders
    BY DEF Into, Through
  <2> QED
    BY <2>1, BreakerAssumption, FS_Subset, FS_CardinalityType DEF N, Callers
<1>4. Sized(caller, Into(m)) /\ Sized(caller', Into(m)')
  BY <1>3 DEF Typed, Sized
<1>5. /\ Held(m) \in Nat /\ Held(m)' \in Nat
      /\ Held(m) \in Int /\ Held(m)' \in Int
  BY DEF Held, Stored
<1>6. /\ Room(Held(m), Into(m), hi, caller) => MarketFits(m)
      /\ Room(Held(m)', Into(m)', hi, caller') => MarketFits(m)'
      /\ Held(m)' + Cardinality(Into(m)') * MaxContracts <= N * MaxContracts => MarketFits(m)'
  BY DEF MarketFits
<1>7. ASSUME Through' = Through, UNCHANGED positions,
             \A l \in Through : /\ caller'[l].contracts = caller[l].contracts
                                /\ caller'[l].market = caller[l].market
      PROVE  MarketFits(m)'
  BY <1>2, <1>7, MarketKept DEF Held, Known, Into
<1> HIDE DEF hi
<1>8. ASSUME NEW c \in Traders, Passes(c)
      PROVE  MarketFits(m)'
  <2>1. /\ Goes(c, "trade") /\ UNCHANGED positions
        /\ m = caller[c].market /\ m \in Known =>
             positions[m] + caller[c].contracts <= MaxPositionPerMarket
    BY <1>8, Passed DEF WithinLimits
  <2>2. /\ Through' = Through \cup {c}
        /\ \A l \in Callers : /\ caller'[l].contracts = caller[l].contracts
                              /\ caller'[l].market = caller[l].market
    BY <2>1, ThroughMoved DEF Places
  <2>3. Held(m)' = Held(m)
    BY <2>1 DEF Held, Known
  <2>4. CASE m # caller[c].market
    <3>1. Into(m)' = Into(m)
      BY <1>3, <2>2, <2>4 DEF Into, Through
    <3> QED
      BY <1>2, <1>3, <2>2, <2>3, <3>1, MarketKept
  <2>5. CASE m = caller[c].market /\ m \in Known
    <3>1. c \in Into(m)' /\ Held(m)' = positions[m]
      BY <1>3, <2>2, <2>3, <2>5 DEF Into, Held
    <3>2. Held(m)' + caller'[c].contracts <= MaxPositionPerMarket
      BY <1>3, <2>1, <2>2, <2>5, <3>1
    <3>3. Room(Held(m)', Into(m)', MaxPositionPerMarket + Others * MaxContracts, caller')
      BY <1>1, <1>3, <1>4, <1>5, <3>1, <3>2, RoomEntered
    <3> QED
      BY <1>6, <3>3 DEF hi
  <2>6. CASE m = caller[c].market /\ m \notin Known
    <3>1. Held(m)' = 0
      BY <2>3, <2>6 DEF Held
    <3>2. 0 + Cardinality(Into(m)') * MaxContracts <= 0 + N * MaxContracts
      BY <1>1, <1>3, AtMostAll
    <3>3. Held(m)' + Cardinality(Into(m)') * MaxContracts <= N * MaxContracts
      BY <1>1, <3>1, <3>2
    <3> QED
      BY <1>6, <3>3
  <2> QED
    BY <2>4, <2>5, <2>6
<1>9. ASSUME NEW c \in Traders, RecordPosition(c) \/ RecordError(c)
      PROVE  MarketFits(m)'
  <2>1. PICK place \in {"idle", "halt"} : Goes(c, place)
    BY <1>9 DEF RecordPosition, RecordError
  <2>2. /\ Through' = Through \ {c} /\ c \in Through
        /\ \A l \in Callers : /\ caller'[l].contracts = caller[l].contracts
                              /\ caller'[l].market = caller[l].market
    BY <1>3, <1>9, <2>1, ThroughMoved DEF Places, RecordPosition, RecordError, At, Through
  <2>3. CASE m # caller[c].market
    <3>1. Into(m)' = Into(m)
      BY <1>3, <2>2, <2>3 DEF Into, Through
    <3>2. Held(m)' = Held(m)
      <4>1. CASE RecordPosition(c)
        BY <2>3, <4>1 DEF RecordPosition, Held, Known, Stored
      <4>2. CASE RecordError(c)
        BY <4>2 DEF RecordError, Held, Known
      <4> QED
        BY <1>9, <4>1, <4>2
    <3> QED
      BY <1>2, <1>3, <2>2, <3>1, <3>2, MarketKept
  <2>4. CASE m = caller[c].market
    <3>1. Into(m)' = Into(m) \ {c} /\ c \in Into(m)
      BY <1>3, <2>2, <2>4 DEF Into, Through
    <3>2. PICK n \in 0..caller[c].contracts : Held(m)' = Held(m) + n
      <4>1. caller[c].contracts \in Nat
        BY <1>3, Numbers DEF Typed
      <4>2. CASE RecordPosition(c)
        BY <2>4, <4>1, <4>2 DEF RecordPosition, Held, Known, Stored
      <4>3. CASE RecordError(c)
        BY <1>5, <4>1, <4>3 DEF RecordError, Held, Known
      <4> QED
        BY <1>9, <4>2, <4>3
    <3>3. CASE Room(Held(m), Into(m), hi, caller)
      <4>1. \A l \in Into(m) : caller'[l].contracts = caller[l].contracts
        BY <1>3, <2>2
      <4>2. Room(Held(m) + n, Into(m) \ {c}, hi, caller')
        BY <1>1, <1>3, <1>4, <1>5, <3>1, <3>3, <4>1, RoomLeft
      <4> QED
        BY <1>6, <3>1, <3>2, <4>2
    <3>4. CASE Held(m) + Cardinality(Into(m)) * MaxContracts <= N * MaxContracts
      <4>1. n \in Nat /\ n <= MaxContracts
        BY <1>3, Numbers DEF Typed
      <4>2. Cardinality(Into(m)') = Cardinality(Into(m)) - 1
        BY <1>3, <3>1, FS_RemoveElement
      <4>3. (Held(m) + n) + (Cardinality(Into(m)) - 1) * MaxContracts <= N * MaxContracts
        BY <1>1, <1>3, <1>5, <3>4, <4>1, OneCame
      <4> QED
        BY <1>6, <3>2, <4>2, <4>3
    <3> QED
      BY <1>2, <3>3, <3>4 DEF MarketFits, hi
  <2> QED
    BY <2>3, <2>4
<1>10. ASSUME NEW c \in Traders, RecordPnl(c)
       PROVE  MarketFits(m)'
  <2>1. Goes(c, "position") /\ c \in Through /\ UNCHANGED positions
    BY <1>10 DEF RecordPnl, Through, At
  <2>2. /\ Through' = Through \cup {c}
        /\ \A l \in Callers : /\ caller'[l].contracts = caller[l].contracts
                              /\ caller'[l].market = caller[l].market
    BY <2>1, ThroughMoved DEF Places
  <2>3. Through' = Through /\ Through \subseteq Callers
    BY <1>3, <2>1, <2>2 DEF Through
  <2> QED
    BY <1>7, <2>1, <2>2, <2>3
<1>11. CASE \A c \in Traders : ~Matters(c)
  BY <1>7, <1>11, Elsewhere
<1> QED
  BY <1>8, <1>9, <1>10, <1>11 DEF Matters

-----------------------------------------------------------------------------
(* All of the bounds.                                                      *)
Within == Stored /\ ErrorRoom /\ LossRoom /\ TotalRoom /\ MarketRoom

(* A new breaker is within its bounds.                                     *)
LEMMA InitWithin == Init => Within
<1> SUFFICES ASSUME Init PROVE Within
  OBVIOUS
<1>1. positions = [m \in {} |-> 0] /\ Known = {}
  BY DEF Init, Known
<1>2. Stored
  BY <1>1, FS_EmptySet DEF Init, Stored
<1>3. Through = {} /\ Losing = {} /\ \A m \in Markets : Into(m) = {}
  BY DEF Init, Callers, Through, Losing, Into
<1>4. Cardinality({}) = 0 /\ IsFiniteSet({})
  BY FS_EmptySet
<1>5. ErrorRoom
  <2>1. /\ Cardinality(Unhalted) \in Nat /\ Cardinality(Halting) \in Nat
        /\ N * Cardinality(Unhalted) \in Nat
    BY Distinct, Numbers, Monotone DEF Counts
  <2>2. ~halted /\ errors = 0 /\ MaxConsecutiveErrors - 1 \in Nat
    BY Numbers DEF Init
  <2> QED
    BY <2>1, <2>2 DEF ErrorRoom
<1>6. LossRoom
  <2>1. 0 + 0 * MaxLossPerTrade <= MaxDailyLoss + N * MaxLossPerTrade
    BY Numbers, AtMostAll
  <2> QED
    BY <1>3, <1>4, <2>1 DEF Init, LossRoom
<1>7. TotalRoom
  <2>1. Total = 0
    <3>1. positions \in [{} -> Int]
      BY <1>1
    <3> QED
      BY <1>1, <1>4, <3>1, TotalIsSum, AnyFirst DEF TotalSum
  <2>2. Others \in Nat /\ Others * MaxContracts \in Nat /\ 0 * MaxContracts = 0
    BY Numbers, Monotone DEF Others, N
  <2>3. 0 + 0 * MaxContracts <= MaxTotalPosition + Others * MaxContracts
    BY <2>2, Numbers
  <2> QED
    BY <1>3, <1>4, <2>1, <2>3 DEF TotalRoom, Room
<1>8. MarketRoom
  <2>1. 0 + 0 * MaxContracts <= N * MaxContracts
    BY Numbers, Monotone
  <2> QED
    BY <1>1, <1>3, <1>4, <2>1 DEF MarketRoom, MarketFits, Held
<1> QED
  BY <1>2, <1>5, <1>6, <1>7, <1>8 DEF Within

(* Every step stays within the bounds.                                     *)
LEMMA StepWithin == IInv /\ IInv' /\ Within /\ [Next]_vars => Within'
<1> SUFFICES ASSUME IInv, IInv', Within, [Next]_vars PROVE Within'
  OBVIOUS
<1>1. Typed /\ Typed' /\ Stored /\ ErrorRoom /\ LossRoom /\ TotalRoom /\ MarketRoom
  BY DEF IInv, Within
<1>2. Stored'
  BY <1>1, StoredStep
<1>3. ErrorRoom' /\ LossRoom' /\ TotalRoom'
  BY <1>1, <1>2, ErrorsStep, LossStep, TotalStep
<1>4. MarketRoom'
  BY <1>1, <1>2, MarketStep DEF MarketRoom
<1> QED
  BY <1>2, <1>3, <1>4 DEF Within

(* The breaker is within its bounds in every reachable state.              *)
THEOREM Bounds == Spec => [](IInv /\ Within)
<1>1. Init => Within
  BY InitWithin
<1>2. IInv /\ IInv' /\ Within /\ [Next]_vars => Within'
  BY StepWithin
<1> QED
  BY <1>1, <1>2, Invariance, PTL DEF Spec

(* The types, and how many errors there may be.                            *)
THEOREM TypeCorrect == Spec => []TypeOK
<1>1. ASSUME IInv, Within PROVE TypeOK
  <2> DEFINE R == Cardinality(Unhalted)
             H == Cardinality(Halting)
             A == Cardinality(Asking)
  <2>1. /\ Typed /\ Stored /\ ErrorRoom
    BY <1>1 DEF IInv, Within
  <2>2. errors <= MaxConsecutiveErrors - 1 + N * (1 + R)
    <3>1. /\ R \in Nat /\ H \in Nat /\ A \in Nat /\ H + A <= N /\ N \in Nat
          /\ N * R \in Nat /\ N * (1 + R) = N * R + N
          /\ MaxConsecutiveErrors \in Nat /\ errors \in Nat
      BY <2>1, Distinct, Numbers DEF Counts, Typed
    <3>2. /\ ~halted => errors <= MaxConsecutiveErrors - 1 + N * R + H
          /\ halted => errors <= MaxConsecutiveErrors - 1 + N * R + (N - A)
      BY <2>1 DEF ErrorRoom
    <3> HIDE DEF R, H, A
    <3> QED
      BY <3>1, <3>2
  <2>3. errors \in 0..(MaxConsecutiveErrors - 1 + N * (1 + R))
    <3>1. errors \in Nat /\ N * (1 + R) \in Int /\ MaxConsecutiveErrors \in Nat
      BY <2>1, Distinct, Numbers, Times DEF Counts, Typed
    <3> HIDE DEF R
    <3> QED
      BY <2>2, <3>1
  <2>4. \A m \in Known : positions[m] \in Nat
    BY <2>1 DEF Stored
  <2> QED
    BY <2>1, <2>3, <2>4 DEF TypeOK, Typed, Stored, Places, N
<1> QED
  BY <1>1, Bounds, PTL

(* Traders that were let through together overrun the limits by their own  *)
(* trades and no more (risk.go:93-170, 173-185).                           *)
THEOREM LimitsOverrunByNoMore == Spec => []LimitsOverrunByTradesUnderWay
<1>1. ASSUME IInv, Within PROVE LimitsOverrunByTradesUnderWay
  <2>1. Typed /\ Stored /\ LossRoom /\ TotalRoom /\ MarketRoom
    BY <1>1 DEF IInv, Within
  <2>2. /\ Others \in Int /\ Others + 1 = N /\ N \in Nat
        /\ MaxTotalPosition + Others * MaxContracts \in Int
        /\ MaxPositionPerMarket + Others * MaxContracts \in Int
    BY Numbers, Times DEF Others, N
  <2>3. Total <= MaxTotalPosition + Others * MaxContracts
    <3>1. Total \in Int
      <4>1. IsFiniteSet(Known) /\ positions \in [Known -> Int] /\ Known \in SUBSET Known
        BY <2>1 DEF Stored
      <4> QED
        BY <4>1, TotalIsSum, AnyFirst DEF TotalSum
    <3>2. IsFiniteSet(Through) /\ Sized(caller, Through)
      BY <2>1, Sets, TradesSized DEF SetsFacts
    <3> QED
      BY <2>1, <2>2, <3>1, <3>2, RoomHolds DEF TotalRoom
  <2>4. loss <= MaxDailyLoss + (Others + 1) * MaxLossPerTrade
    <3>1. /\ Cardinality(Losing) * MaxLossPerTrade \in Nat
          /\ N * MaxLossPerTrade \in Nat /\ loss \in Nat /\ MaxDailyLoss \in Nat
      BY <2>1, Sets, Numbers, Monotone DEF SetsFacts, Stored
    <3>2. loss + Cardinality(Losing) * MaxLossPerTrade <= MaxDailyLoss + N * MaxLossPerTrade
      BY <2>1 DEF LossRoom
    <3>3. loss <= MaxDailyLoss + N * MaxLossPerTrade
      BY <3>1, <3>2
    <3> QED
      BY <2>2, <3>3
  <2>5. ASSUME NEW m \in Known
        PROVE  \/ positions[m] <= MaxPositionPerMarket + Others * MaxContracts
               \/ positions[m] <= (Others + 1) * MaxContracts
    <3>1. /\ MarketFits(m) /\ Held(m) = positions[m]
          /\ Held(m) \in Nat /\ Held(m) \in Int
      BY <2>1 DEF MarketRoom, Held, Stored
    <3>2. /\ Into(m) \in SUBSET Traders /\ IsFiniteSet(Into(m))
          /\ Cardinality(Into(m)) \in Nat /\ Cardinality(Into(m)) <= N
      <4>1. Into(m) \in SUBSET Traders
        BY DEF Into, Through
      <4> QED
        BY <4>1, BreakerAssumption, FS_Subset, FS_CardinalityType DEF N
    <3>3. Sized(caller, Into(m))
      BY <2>1, <3>2, TradesSized
    <3>4. CASE Room(Held(m), Into(m), MaxPositionPerMarket + Others * MaxContracts, caller)
      BY <2>2, <3>1, <3>2, <3>3, <3>4, RoomHolds
    <3>5. CASE Held(m) + Cardinality(Into(m)) * MaxContracts <= N * MaxContracts
      <4>1. Cardinality(Into(m)) * MaxContracts \in Nat /\ N * MaxContracts \in Nat
        BY <3>2, Numbers, Monotone
      <4>2. Held(m) <= N * MaxContracts
        BY <3>1, <3>5, <4>1
      <4> QED
        BY <2>2, <3>1, <4>2
    <3> QED
      BY <3>1, <3>4, <3>5 DEF MarketFits
  <2> QED
    BY <2>3, <2>4, <2>5 DEF LimitsOverrunByTradesUnderWay
<1> QED
  BY <1>1, Bounds, PTL
=============================================================================
