------------------------------- MODULE Breaker -------------------------------
(***************************************************************************)
(* The circuit breaker of internal/risk/risk.go, enabled, as its callers   *)
(* share it: traders that ask CanExecute, trade, and record a success or   *)
(* an error, and an operator who calls Reset.  Every field has a lock or   *)
(* is atomic, and there is no lock over two of them, so that each read or  *)
(* write of one is a step.                                                 *)
(*                                                                         *)
(* At this commit the supervisor reads the breaker's halt and nobody       *)
(* records an execution; the module is about the breaker alone.            *)
(***************************************************************************)
EXTENDS Integers, FiniteSetsExt

CONSTANTS
  Traders, Operator,    \* those who call
  Markets,
  MaxContracts,         \* of one trade (bound)
  MaxLossPerTrade,      \* of one trade (bound)
  MaxPositionPerMarket, MaxTotalPosition, MaxDailyLoss, MaxConsecutiveErrors

Callers == Traders \cup {Operator}

ASSUME BreakerAssumption ==
  /\ IsFiniteSet(Traders) /\ Traders # {} /\ Operator \notin Traders
  /\ {MaxContracts, MaxLossPerTrade, MaxPositionPerMarket, MaxTotalPosition,
      MaxDailyLoss, MaxConsecutiveErrors} \subseteq Nat
  /\ MaxConsecutiveErrors > 0 /\ MaxContracts > 0 /\ Markets # {}

VARIABLES
  halted,     \* halted
  tripped,    \* trippedAt: "never" (zero), "now", or "ago", the cooldown past
  errors,     \* consecutiveErrors
  loss,       \* -dailyPnlCents
  newDay,     \* the day is another one than that of lastDailyReset
  positions,  \* the markets in the map, with their positions
  caller,     \* each caller: where it is, and its trade
  sure        \* a trip that no reset overlapped was not reset since

vars == <<halted, tripped, errors, loss, newDay, positions, caller, sure>>

-----------------------------------------------------------------------------
Known == DOMAIN positions
Total == FoldSet(LAMBDA m, t : positions[m] + t, 0, Known)

At(c, at) == caller[c].at = at
Goes(c, at) == caller' = [caller EXCEPT ![c].at = at]

Resetting == \E c \in Callers : caller[c].at \in {"reset", "forget", "zero"}

(* CanExecute: a halted breaker refuses.                                   *)
Ask(c) ==
  /\ At(c, "idle")
  /\ \E m \in Markets, n \in 1..MaxContracts :
       caller' = [caller EXCEPT ![c] =
                    [at |-> IF halted THEN "idle" ELSE "cooldown", market |-> m, contracts |-> n]]
  /\ UNCHANGED <<halted, tripped, errors, loss, newDay, positions, sure>>

(* Mutant of Cooldown: the comparison of the elapsed time turned round.    *)
CooldownReversed(c) ==
  /\ At(c, "cooldown")
  /\ Goes(c, CASE tripped = "never" -> "day" [] tripped = "now" -> "reset" [] OTHER -> "idle")
  /\ UNCHANGED <<halted, tripped, errors, loss, newDay, positions, sure>>

Cooldown(c) ==
  /\ At(c, "cooldown")
  /\ Goes(c, CASE tripped = "never" -> "day" [] tripped = "ago" -> "reset" [] OTHER -> "idle")
  /\ UNCHANGED <<halted, tripped, errors, loss, newDay, positions, sure>>

(* maybeResetDailyPnl                                                      *)
Day(c) ==
  /\ At(c, "day")
  /\ loss' = IF newDay THEN 0 ELSE loss
  /\ newDay' = FALSE
  /\ Goes(c, "limits")
  /\ UNCHANGED <<halted, tripped, errors, positions, sure>>

(* Mutant of WithinLimits: the trade asked for is not counted.             *)
WithinLimitsBefore(m, n) ==
  /\ m \in Known => positions[m] <= MaxPositionPerMarket
  /\ Total <= MaxTotalPosition
  /\ loss <= MaxDailyLoss

(* A market that is not in the map yet has no limit of its own.            *)
WithinLimits(m, n) ==
  /\ m \in Known => positions[m] + n <= MaxPositionPerMarket
  /\ Total + n <= MaxTotalPosition
  /\ loss <= MaxDailyLoss

Limits(c) ==
  /\ At(c, "limits")
  /\ Goes(c, IF WithinLimits(caller[c].market, caller[c].contracts) THEN "trade" ELSE "idle")
  /\ UNCHANGED <<halted, tripped, errors, loss, newDay, positions, sure>>

-----------------------------------------------------------------------------
(* RecordSuccess: errors, result, and position, one after the other.       *)
RecordSuccess(c) ==
  /\ At(c, "trade")
  /\ errors' = 0
  /\ Goes(c, "pnl")
  /\ UNCHANGED <<halted, tripped, loss, newDay, positions, sure>>

RecordPnl(c) ==
  /\ At(c, "pnl")
  /\ \E l \in 0..MaxLossPerTrade : loss' = loss + l
  /\ Goes(c, "position")
  /\ UNCHANGED <<halted, tripped, errors, newDay, positions, sure>>

RecordPosition(c) ==
  LET m == caller[c].market IN
  /\ At(c, "position")
  /\ positions' = [k \in Known \cup {m} |->
       (IF k \in Known THEN positions[k] ELSE 0) + (IF k = m THEN caller[c].contracts ELSE 0)]
  /\ Goes(c, "idle")
  /\ UNCHANGED <<halted, tripped, errors, loss, newDay, sure>>

(* Mutant of RecordError: one error too late.                              *)
RecordErrorLate(c) ==
  /\ At(c, "trade")
  /\ errors' = errors + 1
  /\ Goes(c, IF errors + 1 > MaxConsecutiveErrors THEN "halt" ELSE "idle")
  /\ UNCHANGED <<halted, tripped, loss, newDay, positions, sure>>

(* RecordError, and Trip, which halts before it notes the time.            *)
RecordError(c) ==
  /\ At(c, "trade")
  /\ errors' = errors + 1
  /\ Goes(c, IF errors + 1 >= MaxConsecutiveErrors THEN "halt" ELSE "idle")
  /\ UNCHANGED <<halted, tripped, loss, newDay, positions, sure>>

Halt(c) ==
  /\ At(c, "halt")
  /\ halted' = TRUE
  /\ Goes(c, "note")
  /\ UNCHANGED <<tripped, errors, loss, newDay, positions, sure>>

NoteTrip(c) ==
  /\ At(c, "note")
  /\ tripped' = "now"
  /\ sure' = (halted /\ ~Resetting)
  /\ Goes(c, "idle")
  /\ UNCHANGED <<halted, errors, loss, newDay, positions>>

-----------------------------------------------------------------------------
(* Reset: by the operator, or by CanExecute after the cooldown.            *)
CallReset ==
  /\ At(Operator, "idle")
  /\ Goes(Operator, "reset")
  /\ sure' = FALSE
  /\ UNCHANGED <<halted, tripped, errors, loss, newDay, positions>>

Unhalt(c) ==
  /\ At(c, "reset")
  /\ halted' = FALSE
  /\ Goes(c, "forget")
  /\ UNCHANGED <<tripped, errors, loss, newDay, positions, sure>>

ForgetTrip(c) ==
  /\ At(c, "forget")
  /\ tripped' = "never"
  /\ Goes(c, "zero")
  /\ UNCHANGED <<halted, errors, loss, newDay, positions, sure>>

(* Mutant of ZeroErrors: the count of errors is left as it is.             *)
ZeroErrorsForgotten(c) ==
  /\ At(c, "zero")
  /\ Goes(c, IF c = Operator THEN "idle" ELSE "day")
  /\ UNCHANGED <<halted, tripped, errors, loss, newDay, positions, sure>>

ZeroErrors(c) ==
  /\ At(c, "zero")
  /\ errors' = 0
  /\ Goes(c, IF c = Operator THEN "idle" ELSE "day")
  /\ UNCHANGED <<halted, tripped, loss, newDay, positions, sure>>

(* The cooldown passes; no CanExecute takes as long.                       *)
Cool ==
  /\ tripped = "now" /\ \A c \in Traders : ~At(c, "cooldown")
  /\ tripped' = "ago"
  /\ UNCHANGED <<halted, errors, loss, newDay, positions, caller, sure>>

Midnight ==
  /\ ~newDay /\ newDay' = TRUE
  /\ UNCHANGED <<halted, tripped, errors, loss, positions, caller, sure>>

-----------------------------------------------------------------------------
Init ==
  /\ halted = FALSE /\ tripped = "never" /\ errors = 0 /\ sure = FALSE
  /\ loss = 0 /\ newDay = FALSE
  /\ positions = [m \in {} |-> 0]
  /\ caller \in [Callers -> [at : {"idle"}, market : {CHOOSE m \in Markets : TRUE}, contracts : {1}]]

CanExecute(c) == Ask(c) \/ Cooldown(c) \/ Day(c) \/ Limits(c)
Record(c) == RecordSuccess(c) \/ RecordPnl(c) \/ RecordPosition(c)
             \/ RecordError(c) \/ Halt(c) \/ NoteTrip(c)
Reset(c) == Unhalt(c) \/ ForgetTrip(c) \/ ZeroErrors(c)

Next ==
  \/ \E c \in Traders : CanExecute(c) \/ Record(c)
  \/ \E c \in Callers : Reset(c)
  \/ CallReset
  \/ Cool \/ Midnight

Spec == Init /\ [][Next]_vars

-----------------------------------------------------------------------------
(* Every variable has its type; each trader adds at most an error of its   *)
(* own to those that halt, and one more for every reset that has cleared   *)
(* the halt and not zeroed the errors yet.                                 *)
Unhalted == {c \in Callers : caller[c].at \in {"forget", "zero"}}

TypeOK ==
  /\ {halted, newDay, sure} \subseteq BOOLEAN
  /\ tripped \in {"never", "now", "ago"}
  /\ errors \in 0..(MaxConsecutiveErrors - 1
                      + Cardinality(Traders) * (1 + Cardinality(Unhalted)))
  /\ loss \in Nat
  /\ Known \subseteq Markets /\ \A m \in Known : positions[m] \in Nat
  /\ caller \in [Callers ->
       [at : {"idle", "cooldown", "day", "limits", "trade", "pnl", "position", "halt",
              "note", "reset", "forget", "zero"},
        market : Markets, contracts : 1..MaxContracts]]

(* Traders that were let through together overrun a limit by their own     *)
(* trades and no more (93-170, 173-185).                                   *)
Others == Cardinality(Traders) - 1
LimitsOverrunByTradesUnderWay ==
  /\ Total <= MaxTotalPosition + Others * MaxContracts
  /\ loss <= MaxDailyLoss + (Others + 1) * MaxLossPerTrade
  /\ \A m \in Known : positions[m] <= MaxPositionPerMarket + Others * MaxContracts
                      \/ positions[m] <= (Others + 1) * MaxContracts

(* A defect: a trip that no reset overlapped lasts until the operator's    *)
(* next Reset.  The cooldown does not end it, as risk.go:115 has it, since *)
(* a halted breaker is refused before the cooldown is looked at (99-117).  *)
TripLasts == sure => halted

(* Errors in a row, as many as it takes, leave the breaker halted once     *)
(* those who recorded them have returned (188-222).                        *)
ErrorsHalt ==
  errors >= MaxConsecutiveErrors =>
    halted \/ \E c \in Callers : At(c, "halt") \/ At(c, "forget") \/ At(c, "zero")
=============================================================================
