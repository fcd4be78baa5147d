-------------------------------- MODULE Rtds --------------------------------
(***************************************************************************)
(* The real-time data client of internal/clob/rtds: one user, and for each *)
(* connection a goroutine that reads and one that pings, either of which   *)
(* may notice a loss and call handleDisconnect, which is to reconnect.     *)
(* A sync.Mutex is not reentrant: Lock waits for whoever holds it, also    *)
(* when that is the caller.  Nothing imports the package at this commit.   *)
(***************************************************************************)
EXTENDS Naturals

CONSTANTS
  Topics,        \* what may be subscribed to
  MaxReconnect,  \* c.maxReconnect
  LastConn,      \* the connections are numbered up to this (bound)
  None

Goroutines == {"read", "ping"} \X (1..LastConn)

VARIABLES
  connected,      \* c.connected
  broken,         \* the network has lost the connection, or it was closed
  reconnect,      \* c.reconnect
  reconnectCount, \* c.reconnectCount
  reconnectMutex, \* who holds it, or None
  number,         \* of the connection
  cancelled,      \* c.ctx is cancelled
  pc,             \* where each goroutine is
  user,           \* where the user is in Disconnect
  activeSubscriptions,
  subscribed      \* what the venue sends on the connection

vars == <<connected, broken, reconnect, reconnectCount, reconnectMutex, number,
          cancelled, pc, user, activeSubscriptions, subscribed>>
connVars == <<broken, number, cancelled, subscribed>>

-----------------------------------------------------------------------------
Goes(g, at) == pc' = [pc EXCEPT ![g] = at]
Free == reconnectMutex = None

(* readMessages returns when the context is done.                          *)
Stops(g) ==
  /\ pc[g] = "runs"
  /\ cancelled \/ (g[1] = "ping" /\ ~connected)
  /\ Goes(g, "off")
  /\ UNCHANGED <<connVars, connected, reconnect, reconnectCount, reconnectMutex, user,
                 activeSubscriptions>>

(* A read or a ping fails, or the venue refuses the authentication.        *)
Notices(g) ==
  /\ pc[g] = "runs" /\ ~cancelled
  /\ broken \/ g[1] = "read"
  /\ connected' = FALSE
  /\ Goes(g, "look")
  /\ UNCHANGED <<connVars, reconnect, reconnectCount, reconnectMutex, user,
                 activeSubscriptions>>

(* handleDisconnect: is reconnection wanted?                               *)
Looks(g) ==
  /\ pc[g] = "look" /\ Free
  /\ Goes(g, IF reconnect THEN "lock" ELSE "off")
  /\ UNCHANGED <<connVars, connected, reconnect, reconnectCount, reconnectMutex, user,
                 activeSubscriptions>>

(* The lock that is held until handleDisconnect returns.                   *)
Locks(g) ==
  /\ pc[g] = "lock" /\ Free
  /\ IF reconnect /\ reconnectCount < MaxReconnect
     THEN /\ reconnectMutex' = g
          /\ reconnectCount' = reconnectCount + 1
          /\ Goes(g, "sleep")
     ELSE Goes(g, "off") /\ UNCHANGED <<reconnectMutex, reconnectCount>>
  /\ UNCHANGED <<connVars, connected, reconnect, user, activeSubscriptions>>

(* Every 100 ms of the delay, and once after it: Lock, look, Unlock.       *)
Polls(g) ==
  /\ pc[g] = "sleep" /\ Free
  /\ IF reconnect THEN pc' \in {pc, [pc EXCEPT ![g] = "dial"]} /\ UNCHANGED reconnectMutex
                  ELSE Goes(g, "off") /\ reconnectMutex' = None
  /\ UNCHANGED <<connVars, connected, reconnect, reconnectCount, user,
                 activeSubscriptions>>

(* Connect, with the subscriptions made again; the goroutine ends.         *)
Dials(g) ==
  /\ pc[g] = "dial" /\ number < LastConn
  /\ reconnectMutex' = None
  /\ connected' = TRUE /\ broken' = FALSE /\ cancelled' = FALSE
  /\ reconnectCount' = 0
  /\ number' = number + 1
  /\ subscribed' = activeSubscriptions
  /\ pc' = [h \in Goroutines |->
              IF h[2] = number + 1 THEN "runs" ELSE IF h = g THEN "off" ELSE pc[h]]
  /\ UNCHANGED <<reconnect, user, activeSubscriptions>>

DialFails(g) ==
  /\ pc[g] = "dial"
  /\ reconnectMutex' = None
  /\ cancelled' = FALSE
  /\ Goes(g, "off")
  /\ UNCHANGED <<connected, broken, number, subscribed, reconnect, reconnectCount, user,
                 activeSubscriptions>>

-----------------------------------------------------------------------------
(* Subscribe and Unsubscribe: sent, and then remembered.                   *)
Subscribe(t) ==
  /\ connected /\ ~broken /\ user = "uses"
  /\ subscribed' = subscribed \cup {t}
  /\ activeSubscriptions' = activeSubscriptions \cup {t}
  /\ UNCHANGED <<connected, broken, number, cancelled, reconnect, reconnectCount,
                 reconnectMutex, pc, user>>

Unsubscribe(t) ==
  /\ connected /\ ~broken /\ user = "uses"
  /\ subscribed' = subscribed \ {t}
  /\ activeSubscriptions' = activeSubscriptions \ {t}
  /\ UNCHANGED <<connected, broken, number, cancelled, reconnect, reconnectCount,
                 reconnectMutex, pc, user>>

(* Disconnect, up to its first lock, and the rest of it.                   *)
Disconnect ==
  /\ user = "uses" /\ Free
  /\ reconnect' = FALSE
  /\ user' = "closes"
  /\ UNCHANGED <<connVars, connected, reconnectCount, reconnectMutex, pc,
                 activeSubscriptions>>

Close ==
  /\ user = "closes"
  /\ connected' = FALSE /\ cancelled' = TRUE /\ broken' = TRUE
  /\ activeSubscriptions' = {}
  /\ user' = "done"
  /\ UNCHANGED <<number, subscribed, reconnect, reconnectCount, reconnectMutex, pc>>

Break ==
  /\ ~broken /\ broken' = TRUE
  /\ UNCHANGED <<connected, number, cancelled, subscribed, reconnect, reconnectCount,
                 reconnectMutex, pc, user, activeSubscriptions>>

-----------------------------------------------------------------------------
(* Connect has succeeded, with the default configuration.                  *)
Init ==
  /\ connected = TRUE /\ broken = FALSE
  /\ reconnect = TRUE /\ reconnectCount = 0 /\ reconnectMutex = None
  /\ number = 1 /\ cancelled = FALSE
  /\ pc = [g \in Goroutines |-> IF g[2] = 1 THEN "runs" ELSE "off"]
  /\ user = "uses"
  /\ activeSubscriptions = {} /\ subscribed = {}

Runs(g) == Stops(g) \/ Notices(g) \/ Looks(g) \/ Locks(g) \/ Polls(g) \/ Dials(g)

Next ==
  \/ \E g \in Goroutines : Runs(g) \/ DialFails(g)
  \/ \E t \in Topics : Subscribe(t) \/ Unsubscribe(t)
  \/ Disconnect \/ Close
  \/ Break

(* Goroutines run, a lock that is free again and again is had, and the     *)
(* delay passes.                                                           *)
Fairness == \A g \in Goroutines : SF_vars(Runs(g) /\ pc' # pc)

FairSpec == Init /\ [][Next]_vars /\ Fairness

-----------------------------------------------------------------------------
(* "handleDisconnect handles disconnection and optionally reconnects"      *)
(* (client.go:399): with reconnection enabled and the network back, the    *)
(* client is connected again, unless it was told to disconnect or has      *)
(* tried often enough.                                                     *)
ReconnectsAfterLoss ==
  ~connected /\ reconnect
    ~> connected \/ ~reconnect \/ reconnectCount >= MaxReconnect \/ number = LastConn
=============================================================================
