------------------------------ MODULE WebSocket ------------------------------
(***************************************************************************)
(* The streaming adapter of internal/market/websocket_adapter.go: who      *)
(* dials, who reads, and what a switch of cycle does meanwhile.            *)
(*                                                                         *)
(* DialAndConnect is called by Start, by the reconnector and by the check  *)
(* of the cycle, which do not know of each other.  Every connection has a  *)
(* Read and a ping of its own, told to stop by its context, and closing a  *)
(* connection is not what stops them.  Nobody calls Close at this commit.  *)
(*                                                                         *)
(* A market goes by the number of its 15-minute cycle.  A message is about *)
(* the tokens of a market its connection was subscribed to.                *)
(***************************************************************************)
EXTENDS Integers

CONSTANTS
  LastCycle,             \* the clock stops at this cycle (bound)
  Conns,                 \* connections that are not yet forgotten (bound)
  MaxReconnectAttempts,  \* maxReconnectAttempts
  None

Cycles == 0..LastCycle
Markets == 0..(LastCycle + 1)
Dialers == {"start", "reconnector", "switch"}

ASSUME WebSocketAssumption ==
  /\ LastCycle \in Nat /\ MaxReconnectAttempts \in Nat
  /\ None \notin Int \cup Conns

VARIABLES
  clock,      \* the cycle the world is in
  configured, \* the market is given by the configuration, for ever
  market,     \* w.marketID, stored first
  tokens,     \* w.yesTokenID, w.noTokenID and the rest
  cycle,      \* w.cycleTimestamp
  announced,  \* the market and the cycle of the last snapshot published
  conns,      \* the connections: network, subscriptions, context, reader
  current,    \* w.conn, or None (nil)
  last,       \* the connection whose context w.connCancel cancels, or None
  dial,       \* where each caller of DialAndConnect has got to
  signal,     \* w.reconnectC holds a signal
  attempts    \* w.reconnectAttempts, up to the most that is allowed

adapterVars == <<configured, market, tokens, cycle, announced>>
vars == <<clock, configured, market, tokens, cycle, announced, conns, current,
          last, dial, signal, attempts>>

-----------------------------------------------------------------------------
(* live: the context is not cancelled.  prices: the market whose prices    *)
(* the reader is about to publish.  late: ticks published after the cancel.*)
Unused == [net |-> "closed", subs |-> {}, live |-> FALSE, reader |-> "off",
           prices |-> None, late |-> 0]

Cancel(f, c) == IF c = None THEN f ELSE [f EXCEPT ![c].live = FALSE]
Drop(f, c) == IF c = None THEN f ELSE [f EXCEPT ![c].net = "closed"]

(* A connection of which nobody knows any more; its name is used again.    *)
Forgotten(c) ==
  /\ conns[c].reader = "off" /\ ~conns[c].live /\ c # current
  /\ \A d \in Dialers : dial[d].conn # c

Least(a, b) == IF a < b THEN a ELSE b
At(d, at) == dial[d].at = at
Goes(d, at) == dial' = [dial EXCEPT ![d].at = at]
Leaves(d, at) == dial' = [dial EXCEPT ![d] = [at |-> at, conn |-> None, msg |-> None]]

(* Mutant of Failed: the switch only logs its error.                       *)
FailedQuietly(d, counted) ==
  /\ Leaves(d, IF d = "start" THEN "failed" ELSE "idle")
  /\ signal' = (signal \/ d = "reconnector")
  /\ attempts' = Least(MaxReconnectAttempts,
                       attempts + counted + (IF d = "reconnector" THEN 1 ELSE 0))

(* What the caller makes of an error: Start gives it to Run, which ends    *)
(* the program; the others ask for a reconnection.                         *)
Failed(d, counted) ==
  /\ Leaves(d, IF d = "start" THEN "failed" ELSE "idle")
  /\ signal' = (signal \/ d # "start")
  /\ attempts' = Least(MaxReconnectAttempts,
                       attempts + counted + (IF d = "reconnector" THEN 1 ELSE 0))

-----------------------------------------------------------------------------
(* DialAndConnect, up to SetConn.                                          *)
Dial(d) ==
  /\ At(d, "dial")
  /\ \E c \in Conns :
       /\ Forgotten(c) /\ \A e \in Conns : Forgotten(e) => c <= e
       /\ conns' = [conns EXCEPT ![c] = [Unused EXCEPT !.net = "open"]]
       /\ dial' = [dial EXCEPT ![d].at = "set", ![d].conn = c]
  /\ UNCHANGED <<clock, adapterVars, current, last, signal, attempts>>

DialFails(d) ==
  /\ At(d, "dial")
  /\ Failed(d, 1)
  /\ UNCHANGED <<clock, adapterVars, conns, current, last>>

(* Mutant of SetConn: the connection before is left in force.              *)
SetConnOnly(d) ==
  LET c == dial[d].conn IN
  /\ At(d, "set")
  /\ conns' = [conns EXCEPT ![c].live = TRUE, ![c].reader = "reading"]
  /\ current' = c /\ last' = c
  /\ Goes(d, "subscribe")
  /\ UNCHANGED <<clock, adapterVars, signal, attempts>>

(* SetConn cancels the context of the connection before, and leaves that   *)
(* connection open; Read and ping start.                                   *)
SetConn(d) ==
  LET c == dial[d].conn IN
  /\ At(d, "set")
  /\ conns' = [Cancel(conns, last) EXCEPT ![c].live = TRUE, ![c].reader = "reading"]
  /\ current' = c /\ last' = c
  /\ Goes(d, "subscribe")
  /\ UNCHANGED <<clock, adapterVars, signal, attempts>>

(* subscribe: the message names the tokens of now, and goes to whichever   *)
(* connection is the current one then.                                     *)
Subscribe(d) ==
  /\ At(d, "subscribe")
  /\ dial' = [dial EXCEPT ![d].at = "write", ![d].msg = tokens]
  /\ UNCHANGED <<clock, adapterVars, conns, current, last, signal, attempts>>

Write(d) ==
  /\ At(d, "write")
  /\ current # None /\ conns[current].net # "closed"
  /\ conns' = [conns EXCEPT ![current].subs = @ \cup {dial[d].msg}]
  /\ dial' = [dial EXCEPT ![d].at = "wait", ![d].msg = None]
  /\ UNCHANGED <<clock, adapterVars, current, last, signal, attempts>>

WriteFails(d) ==
  /\ At(d, "write")
  /\ conns' = Drop(conns, dial[d].conn)
  /\ Failed(d, 0)
  /\ UNCHANGED <<clock, adapterVars, current, last>>

(* The first snapshot came, or ten seconds have passed.                    *)
Connected(d) ==
  /\ At(d, "wait")
  /\ Leaves(d, "idle")
  /\ attempts' = 0
  /\ UNCHANGED <<clock, adapterVars, conns, current, last, signal>>

(* reconnector: it takes a signal and dials, or gives up for good.         *)
TakeSignal ==
  /\ signal /\ At("reconnector", "idle")
  /\ signal' = FALSE
  /\ Goes("reconnector", IF attempts >= MaxReconnectAttempts THEN "gone" ELSE "dial")
  /\ UNCHANGED <<clock, adapterVars, conns, current, last, attempts>>

-----------------------------------------------------------------------------
(* Mutant of Again: the context is not looked at.                          *)
AgainUnchecked(r) ==
  IF r.net # "closed" THEN [r EXCEPT !.reader = "reading", !.prices = None] ELSE Unused

(* Read, before each message: it ends when its context is cancelled, or    *)
(* the deadline cannot be set, on a connection that was closed here.       *)
Again(r) ==
  IF r.live /\ r.net # "closed"
  THEN [r EXCEPT !.reader = "reading", !.prices = None]
  ELSE [Unused EXCEPT !.net = r.net, !.late = r.late]

(* Mutant of Receive: messages of other tokens are taken too.              *)
ReceiveUnfiltered(c) ==
  /\ conns[c].reader = "reading" /\ conns[c].net = "open"
  /\ \E m \in conns[c].subs :
       conns' = [conns EXCEPT ![c].reader = "tick", ![c].prices = m]
  /\ UNCHANGED <<clock, adapterVars, current, last, dial, signal, attempts>>

(* A message, filtered by the tokens the adapter has now.                  *)
Receive(c) ==
  /\ conns[c].reader = "reading" /\ conns[c].net = "open"
  /\ \E m \in conns[c].subs :
       conns' = [conns EXCEPT ![c] =
                   IF m = tokens THEN [@ EXCEPT !.reader = "tick", !.prices = m]
                                 ELSE Again(@)]
  /\ UNCHANGED <<clock, adapterVars, current, last, dial, signal, attempts>>

(* The tick is stamped with the market of now.  A Publish under a          *)
(* cancelled context may still send.                                       *)
Publish(c) ==
  /\ conns[c].reader = "tick"
  /\ \E sent \in {TRUE, conns[c].live} :
       LET r == conns[c]
           late == IF sent /\ ~r.live THEN r.late + 1 ELSE r.late
       IN conns' = [conns EXCEPT ![c] = Again([r EXCEPT !.late = late])]
  /\ UNCHANGED <<clock, adapterVars, current, last, dial, signal, attempts>>


(* An error ends the reader, and asks for a reconnection unless the venue  *)
(* closed in good order.  Of a connection closed here the text decides,    *)
(* which the transport may wrap.                                           *)
ReadFails(c) ==
  /\ conns[c].reader = "reading" /\ conns[c].net # "open"
  /\ conns' = [conns EXCEPT ![c] = Unused]
  /\ signal' \in {signal, TRUE}
  /\ conns[c].net = "broken" => signal'
  /\ conns[c].net = "shut" => signal' = signal
  /\ UNCHANGED <<clock, adapterVars, current, last, dial, attempts>>

(* Read: nothing was received for a minute.                                *)
Stale(c) ==
  /\ conns[c].reader = "reading" /\ conns[c].live
  /\ conns' = [conns EXCEPT ![c] = Unused]
  /\ signal' = TRUE
  /\ UNCHANGED <<clock, adapterVars, current, last, dial, attempts>>

(* ping: a failure asks for a reconnection and leaves the socket open.     *)
PingFails(c) ==
  /\ conns[c].live /\ conns[c].net # "open"
  /\ conns' = Cancel(conns, c)
  /\ signal' = TRUE
  /\ UNCHANGED <<clock, adapterVars, current, last, dial, attempts>>

-----------------------------------------------------------------------------
(* Mutant of Expired: a cycle too early.                                   *)
ExpiredEarly == clock >= cycle

Expired == clock > cycle

(* checkAndSwitchCycle, by one goroutine, once a second: the connection is *)
(* closed before the next market is known.                                 *)
SwitchBegins ==
  /\ Expired /\ At("switch", "idle")
  /\ conns' = Drop(Cancel(conns, last), current)
  /\ current' = None
  /\ Goes("switch", "discover")
  /\ UNCHANGED <<clock, adapterVars, last, signal, attempts>>

(* A fresh adapter discovers: the market configured, that of this cycle or *)
(* the next by the clock, or none; then the switch begins again later.     *)
Found == IF configured THEN {0} ELSE {clock, clock + 1}

Discover ==
  /\ At("switch", "discover")
  /\ \E m \in Found : dial' = [dial EXCEPT !["switch"].at = "store", !["switch"].msg = m]
  /\ UNCHANGED <<clock, adapterVars, conns, current, last, signal, attempts>>

DiscoverFails ==
  /\ At("switch", "discover")
  /\ Leaves("switch", "idle")
  /\ UNCHANGED <<clock, adapterVars, conns, current, last, signal, attempts>>

StoreMarket ==
  /\ At("switch", "store")
  /\ market' = dial["switch"].msg
  /\ Goes("switch", "tokens")
  /\ UNCHANGED <<clock, configured, tokens, cycle, announced, conns, current, last,
                 signal, attempts>>

(* Mutant of StoreTokens: the cycle goes by the market that was found.     *)
StoreTokensByMarket ==
  /\ At("switch", "tokens")
  /\ tokens' = market
  /\ cycle' = market + 1
  /\ Goes("switch", "announce")
  /\ UNCHANGED <<clock, configured, market, announced, conns, current, last,
                 signal, attempts>>

(* The cycle goes on by one, whatever market was found.                    *)
StoreTokens ==
  /\ At("switch", "tokens")
  /\ tokens' = market
  /\ cycle' = cycle + 1
  /\ Goes("switch", "announce")
  /\ UNCHANGED <<clock, configured, market, announced, conns, current, last,
                 signal, attempts>>

Announce ==
  /\ At("switch", "announce")
  /\ announced' = [market |-> market, cycle |-> cycle]
  /\ Leaves("switch", "dial")
  /\ UNCHANGED <<clock, configured, market, tokens, cycle, conns, current, last,
                 signal, attempts>>

-----------------------------------------------------------------------------
(* The venue and the network.  What breaks before it is subscribed to is   *)
(* an error of Write.                                                      *)
Break(c) ==
  /\ conns[c].net = "open"
  /\ conns[c].subs # {} \/ (conns[c].reader # "off" /\ ~conns[c].live)
  /\ conns' = [conns EXCEPT ![c].net = "broken"]
  /\ UNCHANGED <<clock, adapterVars, current, last, dial, signal, attempts>>

(* Not in the last cycle, the switch after which is beyond the bound.      *)
Shut(c) ==
  /\ conns[c].net = "open" /\ conns[c].subs # {} /\ cycle < LastCycle
  /\ conns' = [conns EXCEPT ![c].net = "shut"]
  /\ UNCHANGED <<clock, adapterVars, current, last, dial, signal, attempts>>

NextCycle ==
  /\ clock < LastCycle
  /\ clock' = clock + 1
  /\ UNCHANGED <<adapterVars, conns, current, last, dial, signal, attempts>>

(* Start has set the market and published it, and is about to dial.        *)
Init ==
  /\ clock = 0
  /\ configured \in BOOLEAN
  /\ market \in Found /\ tokens = market
  /\ cycle = market
  /\ announced = [market |-> market, cycle |-> cycle]
  /\ conns = [c \in Conns |-> Unused]
  /\ current = None /\ last = None
  /\ dial = [d \in Dialers |-> [at |-> IF d = "start" THEN "dial" ELSE "idle",
                                conn |-> None, msg |-> None]]
  /\ signal = FALSE /\ attempts = 0

Dialing(d) == Dial(d) \/ DialFails(d) \/ SetConn(d) \/ Subscribe(d) \/ Write(d)
              \/ WriteFails(d) \/ Connected(d)
Reading(c) == Receive(c) \/ Publish(c) \/ ReadFails(c)
Switching == SwitchBegins \/ Discover \/ DiscoverFails \/ StoreMarket
             \/ StoreTokens \/ Announce

Next ==
  /\ ~At("start", "failed")
  /\ \/ \E d \in Dialers : Dialing(d)
     \/ TakeSignal
     \/ \E c \in Conns : Reading(c) \/ Stale(c) \/ PingFails(c) \/ Break(c) \/ Shut(c)
     \/ Switching
     \/ NextCycle

Spec == Init /\ [][Next]_vars

(* Goroutines run; time passes; not every discovery fails; the venue drops *)
(* a connection that is no longer pinged.                                  *)
Fairness ==
  /\ \A d \in Dialers : WF_vars(Dialing(d))
  /\ WF_vars(TakeSignal)
  /\ \A c \in Conns : WF_vars(Reading(c)) /\ WF_vars(PingFails(c))
                      /\ WF_vars(~conns[c].live /\ Break(c))
  /\ WF_vars(Switching) /\ SF_vars(Discover)
  /\ WF_vars(NextCycle)

FairSpec == Spec /\ Fairness

-----------------------------------------------------------------------------
(* Every variable has its type, and the cycle does not run ahead.          *)
TypeOK ==
  /\ clock \in Cycles /\ configured \in BOOLEAN
  /\ market \in Markets /\ tokens \in Markets /\ cycle \in Markets
  /\ announced \in [market : Markets, cycle : Markets]
  /\ conns \in [Conns -> [net : {"open", "broken", "shut", "closed"},
                          subs : SUBSET Markets, live : BOOLEAN,
                          reader : {"off", "reading", "tick"},
                          prices : Markets \cup {None}, late : 0..2]]
  /\ current \in Conns \cup {None} /\ last \in Conns \cup {None}
  /\ signal \in BOOLEAN /\ attempts \in 0..MaxReconnectAttempts

(* A snapshot never names a market older than the cycle it states, however *)
(* late the switch, the discovery and their retries come (684-777).        *)
NeverBehind == announced.market >= announced.cycle \/ configured

(* At most one connection has a context in force, that of w.connCancel,    *)
(* whoever dials at the same time (260-276).                               *)
OneInForce == \A c \in Conns : conns[c].live => c = last

(* A reader whose connection was replaced publishes one more tick at most  *)
(* (356-415).                                                              *)
LateOnce == \A c \in Conns : conns[c].late <= 1

(* Once dials, switch and reconnector are through, a connection in force   *)
(* is subscribed to the tokens the adapter has, although a subscription is *)
(* written to whichever connection is current (439-463).                   *)
Settled == ~signal /\ \A d \in Dialers : At(d, "idle")
SubscribedToItsTokens ==
  Settled =>
    \A c \in Conns : conns[c].live /\ conns[c].net = "open" => tokens \in conns[c].subs

(* Outside of a switch a tick carries the prices of the market that its    *)
(* name says, unless its connection was replaced (506-630).                *)
TicksOfTheirMarket ==
  [][\A c \in Conns :
       conns[c].reader = "tick" /\ conns'[c].reader # "tick" /\ conns[c].live
         /\ Settled => conns[c].prices = market]_vars

(* A connection that is lost is replaced, at the latest by the next switch *)
(* of cycle, by one that hears of the adapter's tokens, unless the         *)
(* reconnector has given up (325-353, 684-784).                            *)
InForce ==
  \E c \in Conns : conns[c].live /\ conns[c].reader # "off"
                   /\ conns[c].net = "open" /\ tokens \in conns[c].subs
=============================================================================
