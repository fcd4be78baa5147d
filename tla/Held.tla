-------------------------------- MODULE Held --------------------------------
(***************************************************************************)
(* What the OMS takes the deduplicator for: a set of execution ids.  An id *)
(* is taken, if it is free, in one piece with the start of the place call  *)
(* it is for; it is given back when the call fails, when its window        *)
(* closes, or later than either, to the loss of whoever holds it then; and *)
(* a new cycle frees them all, but ends no call.                           *)
(*                                                                         *)
(* PlaceOrders, PlaceReturns, WindowCloses and Reset of Oms do these       *)
(* things, as parts of what they do.                                       *)
(***************************************************************************)
CONSTANTS
  Ids,   \* execution ids
  Acqs,  \* place calls, as far as they are under way at a time
  None

VARIABLES
  held,     \* the ids that are taken
  placing   \* placing[a]: the id that call a was started for, or None

heldVars == <<held, placing>>

Init ==
  /\ held = {}
  /\ placing = [a \in Acqs |-> None]

Take(a, id) ==
  /\ id \notin held
  /\ placing[a] = None
  /\ held' = held \cup {id}
  /\ placing' = [placing EXCEPT ![a] = id]

Return(a) ==
  /\ placing[a] # None
  /\ held' \in {held, held \ {placing[a]}}
  /\ placing' = [placing EXCEPT ![a] = None]

Free(id) ==
  /\ held' = held \ {id}
  /\ UNCHANGED placing

Reset ==
  /\ held' = {}
  /\ UNCHANGED placing

Next ==
  \/ \E a \in Acqs : Return(a) \/ \E id \in Ids : Take(a, id)
  \/ \E id \in Ids : Free(id)
  \/ Reset

Spec == Init /\ [][Next]_heldVars
=============================================================================
