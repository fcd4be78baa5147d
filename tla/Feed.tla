-------------------------------- MODULE Feed --------------------------------
(***************************************************************************)
(* What the engine may rely on about the events it is handed: each         *)
(* goroutine's events arrive in the order in which it published them, each *)
(* once, none is skipped, and the snapshot that Start publishes comes      *)
(* before all others.  Nothing is said of the order between goroutines.    *)
(* All of it ends with the context, or with a Start that fails: from then  *)
(* on events may be left undelivered.                                      *)
(***************************************************************************)
EXTENDS Naturals

CONSTANTS
  Publishers,  \* the goroutines that publish
  Starter      \* the one that runs Start, and publishes the first snapshot

VARIABLES
  accepted,    \* accepted[p]: how many events of p have been taken
  delivered,   \* delivered[p]: how many of them the engine has received
  over         \* the context is done, or Start has failed

feedVars == <<accepted, delivered, over>>

Init ==
  /\ accepted = [p \in Publishers |-> 0]
  /\ delivered = [p \in Publishers |-> 0]
  /\ over = FALSE

Accept(p) ==
  /\ accepted' = [accepted EXCEPT ![p] = @ + 1]
  /\ UNCHANGED <<delivered, over>>

Deliver(p) ==
  /\ delivered[p] < accepted[p]
  /\ p = Starter \/ delivered[Starter] > 0 \/ over
  /\ delivered' = [delivered EXCEPT ![p] = @ + 1]
  /\ UNCHANGED <<accepted, over>>

End ==
  /\ over' = TRUE
  /\ UNCHANGED <<accepted, delivered>>

Next == (\E p \in Publishers : Accept(p) \/ Deliver(p)) \/ End

Spec == Init /\ [][Next]_feedVars

(* Until it is over, what has been accepted is delivered.                 *)
FairSpec ==
  Spec /\ \A p \in Publishers : WF_feedVars(~over /\ Deliver(p))
=============================================================================
