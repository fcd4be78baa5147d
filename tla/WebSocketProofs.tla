--------------------------- MODULE WebSocketProofs ---------------------------
(***************************************************************************)
(* At most one connection is in force, a connection that was replaced      *)
(* publishes one more tick at most, and snapshots do not fall behind the   *)
(* cycle they state, for any number of cycles, connections and attempts.   *)
(* Once nothing is pending the connection in force hears of the adapter's  *)
(* tokens, and its ticks carry the market their prices are of (Served).    *)
(*                                                                         *)
(* A connection between its dial and SetConn belongs to one dialer, and    *)
(* nobody reads from it (Owned, Waiting).  One tick too late is the end of *)
(* its reader (Late).  A switch begins in a cycle later than the one it    *)
(* counts, and finds a market no earlier than that (Ahead).                *)
(***************************************************************************)
EXTENDS WebSocket, TLAPS

Records == [net : {"open", "broken", "shut", "closed"},
            subs : SUBSET Markets, live : BOOLEAN,
            reader : {"off", "reading", "tick"},
            prices : Markets \cup {None}, late : 0..2]

Places == {"idle", "dial", "set", "subscribe", "write", "wait", "discover", "store",
           "tokens", "announce", "gone", "failed"}

DialTypeOK ==
  dial \in [Dialers -> [at : Places, conn : Conns \cup {None}, msg : Markets \cup {None}]]

(* A message that is about to be used is there, and so is a connection.    *)
Filled ==
  \A d \in Dialers :
    /\ At(d, "store") \/ At(d, "write") => dial[d].msg \in Markets
    /\ At(d, "set") => dial[d].conn \in Conns

Owned ==
  \A d, e \in Dialers : d # e /\ dial[d].conn # None => dial[e].conn # dial[d].conn

Waiting ==
  \A d \in Dialers :
    At(d, "set") => conns[dial[d].conn].reader = "off" /\ conns[dial[d].conn].late = 0

Late ==
  \A c \in Conns :
    conns[c].late > 0 => conns[c].late = 1 /\ conns[c].reader = "off" /\ ~conns[c].live

Ahead ==
  /\ At("switch", "discover") \/ At("switch", "store") \/ At("switch", "tokens")
       => cycle < clock
  /\ ~configured =>
       /\ market >= cycle
       /\ announced.market >= announced.cycle
       /\ At("switch", "store") => dial["switch"].msg > cycle
       /\ At("switch", "tokens") => market > cycle

IInv == TypeOK /\ DialTypeOK /\ Filled /\ Owned /\ Waiting /\ Late /\ OneInForce /\ Ahead

-----------------------------------------------------------------------------
(* An unused connection is a connection.                                   *)
LEMMA UnusedFacts ==
  /\ Unused \in Records
  /\ Unused.late = 0 /\ Unused.reader = "off" /\ Unused.live = FALSE
BY DEF Unused, Records

(* At the head of its loop a reader goes on only if its context is in      *)
(* force, and does not forget that it was late.                            *)
LEMMA AgainFacts ==
  ASSUME NEW r \in Records
  PROVE  /\ Again(r) \in Records
         /\ Again(r).late = r.late
         /\ Again(r).live => r.live
         /\ ~r.live => Again(r).reader = "off" /\ ~Again(r).live
BY DEF Again, Unused, Records

(* Cancelling takes one context out of force, and nothing else.            *)
LEMMA CancelFacts ==
  ASSUME NEW f \in [Conns -> Records], NEW c \in Conns \cup {None}
  PROVE  /\ Cancel(f, c) \in [Conns -> Records]
         /\ \A k \in Conns :
              /\ Cancel(f, c)[k].late = f[k].late
              /\ Cancel(f, c)[k].reader = f[k].reader
              /\ Cancel(f, c)[k].live => f[k].live /\ k # c
<1>1. CASE c = None
  BY <1>1, WebSocketAssumption DEF Cancel
<1>2. CASE c # None
  <2>1. c \in Conns /\ Cancel(f, c) = [f EXCEPT ![c].live = FALSE]
    BY <1>2 DEF Cancel
  <2>2. [f[c] EXCEPT !.live = FALSE] \in Records
    BY <2>1 DEF Records
  <2>3. Cancel(f, c)[c] = [f[c] EXCEPT !.live = FALSE]
        /\ \A k \in Conns : k # c => Cancel(f, c)[k] = f[k]
    BY <2>1
  <2>4. Cancel(f, c) \in [Conns -> Records]
    BY <2>1, <2>2
  <2>5. /\ [f[c] EXCEPT !.live = FALSE].late = f[c].late
        /\ [f[c] EXCEPT !.live = FALSE].reader = f[c].reader
        /\ [f[c] EXCEPT !.live = FALSE].live = FALSE
    BY <2>1 DEF Records
  <2> QED
    BY <2>3, <2>4, <2>5
<1> QED
  BY <1>1, <1>2

(* Closing a connection leaves its reader and its context alone.           *)
LEMMA DropFacts ==
  ASSUME NEW f \in [Conns -> Records], NEW c \in Conns \cup {None}
  PROVE  /\ Drop(f, c) \in [Conns -> Records]
         /\ \A k \in Conns :
              /\ Drop(f, c)[k].late = f[k].late
              /\ Drop(f, c)[k].reader = f[k].reader
              /\ Drop(f, c)[k].live = f[k].live
<1>1. CASE c = None
  BY <1>1 DEF Drop
<1>2. CASE c # None
  <2>1. c \in Conns /\ Drop(f, c) = [f EXCEPT ![c].net = "closed"]
    BY <1>2 DEF Drop
  <2>2. [f[c] EXCEPT !.net = "closed"] \in Records
    BY <2>1 DEF Records
  <2>3. Drop(f, c)[c] = [f[c] EXCEPT !.net = "closed"]
        /\ \A k \in Conns : k # c => Drop(f, c)[k] = f[k]
    BY <2>1
  <2>4. /\ [f[c] EXCEPT !.net = "closed"].late = f[c].late
        /\ [f[c] EXCEPT !.net = "closed"].reader = f[c].reader
        /\ [f[c] EXCEPT !.net = "closed"].live = f[c].live
    BY <2>1 DEF Records
  <2> QED
    BY <2>1, <2>2, <2>3, <2>4
<1> QED
  BY <1>1, <1>2

-----------------------------------------------------------------------------
(* A step is gentle to the connections when it starts no reader, puts no   *)
(* context in force, and makes nobody late.                                *)
Gentle ==
  \A k \in Conns :
    /\ conns'[k].late = conns[k].late \/ conns'[k].late = 0
    /\ conns'[k].reader = conns[k].reader \/ conns'[k].reader = "off"
         \/ (conns[k].late = 0 /\ conns[k].reader # "off")
    /\ conns'[k].live => conns[k].live

(* What such a step leaves of the invariant, if no dialer comes to SetConn.*)
LEMMA GentleFacts ==
  ASSUME IInv, Gentle, last' = last, Filled',
         \A d \in Dialers : dial'[d].conn \in {dial[d].conn, None},
         \A d \in Dialers : At(d, "set")' => At(d, "set") /\ dial'[d].conn = dial[d].conn
  PROVE  Owned' /\ Waiting' /\ Late' /\ OneInForce'
<1> USE DEF IInv
<1>1. Owned'
  BY DEF Owned
<1>2. Waiting'
  BY DEF Waiting, Gentle, Filled, At
<1>3. Late'
  BY DEF Late, Gentle
<1>4. OneInForce'
  BY DEF OneInForce, Gentle
<1> QED
  BY <1>1, <1>2, <1>3, <1>4

(* What a step that is no part of a switch leaves of Ahead.                *)
LEMMA AheadFacts ==
  ASSUME Ahead, clock' = clock, UNCHANGED adapterVars,
         \A place \in {"discover", "store", "tokens"} :
           At("switch", place)' =>
             At("switch", place) /\ dial'["switch"].msg = dial["switch"].msg
  PROVE  Ahead'
<1>1. configured' = configured /\ market' = market /\ cycle' = cycle
      /\ announced' = announced
  BY DEF adapterVars
<1> QED
  BY <1>1 DEF Ahead

(* Moving one dialer on moves no other, and keeps what it has.             *)
LEMMA GoesFacts ==
  ASSUME DialTypeOK, NEW d \in Dialers, NEW place \in Places, Goes(d, place)
  PROVE  /\ DialTypeOK'
         /\ dial'[d].at = place /\ dial'[d].conn = dial[d].conn /\ dial'[d].msg = dial[d].msg
         /\ \A e \in Dialers : e # d => dial'[e] = dial[e]
BY DEF DialTypeOK, Goes

(* A dialer that is through lets go of its connection and message.         *)
LEMMA LeavesFacts ==
  ASSUME DialTypeOK, NEW d \in Dialers, NEW place \in Places, Leaves(d, place)
  PROVE  /\ DialTypeOK'
         /\ dial'[d].at = place /\ dial'[d].conn = None /\ dial'[d].msg = None
         /\ \A e \in Dialers : e # d => dial'[e] = dial[e]
BY DEF DialTypeOK, Leaves

(* Failing is letting go, and counting up to the most there is.            *)
LEMMA FailedFacts ==
  ASSUME TypeOK, DialTypeOK, NEW d \in Dialers, NEW counted \in {0, 1}, Failed(d, counted)
  PROVE  /\ DialTypeOK'
         /\ dial'[d].at \in {"failed", "idle"} /\ dial'[d].conn = None
         /\ \A e \in Dialers : e # d => dial'[e] = dial[e]
         /\ signal' \in BOOLEAN /\ attempts' \in 0..MaxReconnectAttempts
<1>1. PICK place \in {"failed", "idle"} : Leaves(d, place)
  BY DEF Failed
<1>2. place \in Places
  BY DEF Places
<1>3. signal' \in BOOLEAN
  BY DEF Failed, TypeOK
<1>4. attempts \in 0..MaxReconnectAttempts
  BY DEF TypeOK
<1>5. PICK n \in {0, 1, 2} : attempts' = Least(MaxReconnectAttempts, attempts + n)
  <2>1. CASE d = "reconnector"
    <3>1. counted + 1 \in {1, 2}
      OBVIOUS
    <3>2. attempts' = Least(MaxReconnectAttempts, attempts + counted + 1)
      BY <2>1 DEF Failed
    <3>3. attempts + counted + 1 = attempts + (counted + 1)
      BY <1>4
    <3> QED
      BY <3>1, <3>2, <3>3
  <2>2. CASE d # "reconnector"
    <3>1. attempts' = Least(MaxReconnectAttempts, attempts + counted + 0)
      BY <2>2 DEF Failed
    <3>2. attempts + counted + 0 = attempts + counted
      BY <1>4
    <3> QED
      BY <3>1, <3>2
  <2> QED
    BY <2>1, <2>2
<1>6. attempts' \in 0..MaxReconnectAttempts
  BY <1>4, <1>5, WebSocketAssumption DEF Least
<1> QED
  BY <1>1, <1>2, <1>3, <1>6, LeavesFacts

-----------------------------------------------------------------------------
(* A connection that has just been dialled belongs to its dialer alone,    *)
(* because its name was forgotten by all others.                           *)
LEMMA DialInv ==
  ASSUME IInv, NEW d \in Dialers, Dial(d)
  PROVE  IInv'
<1> USE DEF IInv
<1>1. PICK c \in Conns :
        /\ Forgotten(c)
        /\ conns' = [conns EXCEPT ![c] = [Unused EXCEPT !.net = "open"]]
        /\ dial' = [dial EXCEPT ![d].at = "set", ![d].conn = c]
  BY DEF Dial
<1>2. /\ conns \in [Conns -> Records]
      /\ [Unused EXCEPT !.net = "open"] \in Records
      /\ [Unused EXCEPT !.net = "open"].late = 0
      /\ [Unused EXCEPT !.net = "open"].reader = "off"
      /\ [Unused EXCEPT !.net = "open"].live = FALSE
  <2>1. Unused \in Records
    BY UnusedFacts
  <2>2. [Unused EXCEPT !.net = "open"] \in Records
        /\ [Unused EXCEPT !.net = "open"].late = Unused.late
        /\ [Unused EXCEPT !.net = "open"].reader = Unused.reader
        /\ [Unused EXCEPT !.net = "open"].live = Unused.live
    BY <2>1 DEF Records
  <2>3. conns \in [Conns -> Records]
    BY DEF TypeOK, Records
  <2> QED
    BY <2>2, <2>3, UnusedFacts
<1>3. /\ conns' \in [Conns -> Records]
      /\ conns'[c].late = 0 /\ conns'[c].reader = "off" /\ ~conns'[c].live
      /\ \A k \in Conns : k # c => conns'[k] = conns[k]
  BY <1>1, <1>2
<1>4. /\ DialTypeOK'
      /\ dial'[d].at = "set" /\ dial'[d].conn = c /\ dial'[d].msg = dial[d].msg
      /\ \A e \in Dialers : e # d => dial'[e] = dial[e]
  BY <1>1 DEF DialTypeOK, Places
<1>5. TypeOK'
  BY <1>3 DEF TypeOK, Records, Dial, adapterVars
<1>6. Filled'
  BY <1>4 DEF Filled, At
<1>7. Owned'
  <2>1. \A e \in Dialers : dial[e].conn # c
    BY <1>1 DEF Forgotten
  <2>2. ASSUME NEW e \in Dialers, NEW g \in Dialers, e # g, dial'[e].conn # None
        PROVE  dial'[g].conn # dial'[e].conn
    <3>1. CASE e = d
      BY <1>4, <2>1, <2>2, <3>1
    <3>2. CASE g = d
      BY <1>4, <2>1, <2>2, <3>2
    <3>3. CASE e # d /\ g # d
      BY <1>4, <2>2, <3>3 DEF Owned
    <3> QED
      BY <3>1, <3>2, <3>3
  <2> QED
    BY <2>2 DEF Owned
<1>8. Waiting'
  <2>1. ASSUME NEW e \in Dialers, e # d, At(e, "set")'
        PROVE  conns'[dial'[e].conn].reader = "off" /\ conns'[dial'[e].conn].late = 0
    <3>1. At(e, "set") /\ dial'[e].conn = dial[e].conn /\ dial[e].conn \in Conns
      BY <1>4, <2>1 DEF At, Filled
    <3>2. dial[e].conn # c
      BY <1>1 DEF Forgotten
    <3> QED
      BY <1>3, <3>1, <3>2 DEF Waiting
  <2> QED
    BY <1>3, <1>4, <2>1 DEF Waiting
<1>9. Late' /\ OneInForce'
  <2>1. last' = last
    BY DEF Dial
  <2>2. Late'
    <3> SUFFICES ASSUME NEW k \in Conns, conns'[k].late > 0
                 PROVE  conns'[k].late = 1 /\ conns'[k].reader = "off" /\ ~conns'[k].live
      BY DEF Late
    <3>1. k # c
      BY <1>3
    <3> QED
      BY <1>3, <3>1 DEF Late
  <2>3. OneInForce'
    BY <1>3, <2>1 DEF OneInForce
  <2> QED
    BY <2>2, <2>3
<1>10. Ahead'
  BY <1>4, AheadFacts DEF Dial, At, Dialers, adapterVars
<1> QED
  BY <1>4, <1>5, <1>6, <1>7, <1>8, <1>9, <1>10

(* SetConn puts its connection in force and the one before out of it.      *)
LEMMA SetConnInv ==
  ASSUME IInv, NEW d \in Dialers, SetConn(d)
  PROVE  IInv'
<1> USE DEF IInv
<1> DEFINE c == dial[d].conn
           f == Cancel(conns, last)
<1>1. c \in Conns /\ conns[c].reader = "off" /\ conns[c].late = 0
  BY DEF SetConn, Filled, Waiting
<1>2. /\ f \in [Conns -> Records]
      /\ \A k \in Conns :
           /\ f[k].late = conns[k].late
           /\ f[k].reader = conns[k].reader
           /\ f[k].live => conns[k].live /\ k # last
  <2>1. conns \in [Conns -> Records] /\ last \in Conns \cup {None}
    BY DEF TypeOK, Records
  <2> QED
    BY <2>1, CancelFacts
<1> HIDE DEF f
<1>3. conns' = [f EXCEPT ![c].live = TRUE, ![c].reader = "reading"] /\ last' = c /\ current' = c
  BY DEF SetConn, f
<1>4. /\ conns' \in [Conns -> Records]
      /\ conns'[c].late = 0
      /\ \A k \in Conns : k # c => conns'[k] = f[k]
  <2>1. [f[c] EXCEPT !.live = TRUE, !.reader = "reading"] \in Records
        /\ [f[c] EXCEPT !.live = TRUE, !.reader = "reading"].late = f[c].late
    <3>1. f[c] \in Records
      BY <1>1, <1>2
    <3> QED
      BY <3>1 DEF Records
  <2>2. conns' = [f EXCEPT ![c] = [f[c] EXCEPT !.live = TRUE, !.reader = "reading"]]
    BY <1>3
  <2> QED
    BY <1>1, <1>2, <2>1, <2>2
<1>5. Goes(d, "subscribe") /\ "subscribe" \in Places /\ At(d, "set")
  BY DEF SetConn, Places
<1>6. /\ DialTypeOK'
      /\ dial'[d].at = "subscribe" /\ dial'[d].conn = c
      /\ \A e \in Dialers : e # d => dial'[e] = dial[e]
  BY <1>5, GoesFacts
<1>7. TypeOK'
  BY <1>1, <1>3, <1>4 DEF TypeOK, Records, SetConn, adapterVars
<1>8. Filled' /\ Owned'
  BY <1>6 DEF Filled, Owned, At
<1>9. Waiting'
  <2>1. ASSUME NEW e \in Dialers, At(e, "set")'
        PROVE  conns'[dial'[e].conn].reader = "off" /\ conns'[dial'[e].conn].late = 0
    <3>1. e # d /\ At(e, "set") /\ dial'[e].conn = dial[e].conn /\ dial[e].conn \in Conns
      BY <1>6, <2>1 DEF At, Filled
    <3>2. dial[e].conn # c
      BY <1>1, <3>1, WebSocketAssumption DEF Owned
    <3> QED
      BY <1>2, <1>4, <3>1, <3>2 DEF Waiting
  <2> QED
    BY <2>1 DEF Waiting
<1>10. Late'
  BY <1>2, <1>4 DEF Late
<1>11. OneInForce'
  BY <1>2, <1>3, <1>4 DEF OneInForce
<1>12. Ahead'
  BY <1>6, AheadFacts DEF SetConn, At, Dialers, adapterVars
<1> QED
  BY <1>6, <1>7, <1>8, <1>9, <1>10, <1>11, <1>12

(* The rest of a dial starts no reader: composing the subscription,        *)
LEMMA SubscribeInv ==
  ASSUME IInv, NEW d \in Dialers, Subscribe(d)
  PROVE  IInv'
<1> USE DEF IInv
<1>1. /\ DialTypeOK'
      /\ dial'[d].at = "write" /\ dial'[d].conn = dial[d].conn /\ dial'[d].msg = tokens
      /\ \A e \in Dialers : e # d => dial'[e] = dial[e]
  BY DEF Subscribe, DialTypeOK, TypeOK, Places
<1>2. TypeOK'
  BY DEF TypeOK, Subscribe, adapterVars
<1>3. Filled'
  BY <1>1 DEF Filled, At, TypeOK
<1>4. Gentle /\ last' = last
  BY DEF Gentle, Subscribe
<1>5. Owned' /\ Waiting' /\ Late' /\ OneInForce'
  BY <1>1, <1>3, <1>4, GentleFacts DEF At
<1>6. Ahead'
  BY <1>1, AheadFacts DEF Subscribe, At, Dialers, adapterVars
<1> QED
  BY <1>1, <1>2, <1>3, <1>5, <1>6

(* writing it to the connection that is current,                           *)
LEMMA WriteInv ==
  ASSUME IInv, NEW d \in Dialers, Write(d)
  PROVE  IInv'
<1> USE DEF IInv
<1>1. /\ DialTypeOK'
      /\ dial'[d].at = "wait" /\ dial'[d].conn = dial[d].conn
      /\ \A e \in Dialers : e # d => dial'[e] = dial[e]
  BY DEF Write, DialTypeOK, Places
<1>2. current \in Conns /\ conns \in [Conns -> Records] /\ dial[d].msg \in Markets
  BY DEF Write, TypeOK, Records, Filled
<1> DEFINE r == [conns[current] EXCEPT !.subs = @ \cup {dial[d].msg}]
<1>3. r \in Records /\ r.late = conns[current].late /\ r.reader = conns[current].reader
      /\ r.live = conns[current].live
  BY <1>2 DEF Records
<1>4. conns' = [conns EXCEPT ![current] = r]
  BY DEF Write
<1> HIDE DEF r
<1>5. conns' \in [Conns -> Records] /\ conns'[current] = r
      /\ \A k \in Conns : k # current => conns'[k] = conns[k]
  BY <1>2, <1>3, <1>4
<1>6. TypeOK'
  BY <1>5 DEF TypeOK, Records, Write, adapterVars
<1>7. Filled'
  BY <1>1 DEF Filled, At
<1>8. Gentle /\ last' = last
  BY <1>3, <1>5 DEF Gentle, Write
<1>9. Owned' /\ Waiting' /\ Late' /\ OneInForce'
  BY <1>1, <1>7, <1>8, GentleFacts DEF At
<1>10. Ahead'
  BY <1>1, AheadFacts DEF Write, At, Dialers, adapterVars
<1> QED
  BY <1>1, <1>6, <1>7, <1>9, <1>10

(* giving up at a step, or being through.                                  *)
LEMMA DialEndsInv ==
  ASSUME IInv, NEW d \in Dialers, DialFails(d) \/ WriteFails(d) \/ Connected(d)
  PROVE  IInv'
<1> USE DEF IInv
<1>1. /\ DialTypeOK'
      /\ dial'[d].at \in {"failed", "idle"} /\ dial'[d].conn = None
      /\ \A e \in Dialers : e # d => dial'[e] = dial[e]
      /\ signal' \in BOOLEAN /\ attempts' \in 0..MaxReconnectAttempts
  <2>1. CASE DialFails(d)
    BY <2>1, FailedFacts DEF DialFails
  <2>2. CASE WriteFails(d)
    BY <2>2, FailedFacts DEF WriteFails
  <2>3. CASE Connected(d)
    <3>1. Leaves(d, "idle") /\ "idle" \in Places
      BY <2>3 DEF Connected, Places
    <3> QED
      BY <2>3, <3>1, LeavesFacts, WebSocketAssumption DEF Connected, TypeOK
  <2> QED
    BY <2>1, <2>2, <2>3
<1>2. conns' \in [Conns -> Records] /\ Gentle
  <2>1. conns \in [Conns -> Records] /\ dial[d].conn \in Conns \cup {None}
    BY DEF TypeOK, Records, DialTypeOK
  <2>2. conns' = conns \/ conns' = Drop(conns, dial[d].conn)
    BY DEF DialFails, WriteFails, Connected
  <2> QED
    BY <2>1, <2>2, DropFacts DEF Gentle
<1>3. /\ UNCHANGED <<clock, configured, market, tokens, cycle, announced>>
      /\ current' = current /\ last' = last
  BY DEF DialFails, WriteFails, Connected, adapterVars
<1>4. TypeOK'
  BY <1>1, <1>2, <1>3 DEF TypeOK, Records
<1>5. Filled'
  BY <1>1 DEF Filled, At
<1>6. Owned' /\ Waiting' /\ Late' /\ OneInForce'
  BY <1>1, <1>2, <1>3, <1>5, GentleFacts DEF At
<1>7. Ahead'
  BY <1>1, <1>3, AheadFacts DEF At, Dialers, adapterVars
<1> QED
  BY <1>1, <1>4, <1>5, <1>6, <1>7

(* The reconnector takes a signal and has no connection yet.               *)
LEMMA TakeSignalInv ==
  ASSUME IInv, TakeSignal
  PROVE  IInv'
<1> USE DEF IInv
<1>1. PICK place \in {"gone", "dial"} : Goes("reconnector", place)
  BY DEF TakeSignal
<1>2. place \in Places /\ "reconnector" \in Dialers
  BY DEF Places, Dialers
<1>3. /\ DialTypeOK'
      /\ dial'["reconnector"].at = place /\ dial'["reconnector"].conn = dial["reconnector"].conn
      /\ \A e \in Dialers : e # "reconnector" => dial'[e] = dial[e]
  BY <1>1, <1>2, GoesFacts
<1>4. TypeOK'
  BY DEF TypeOK, TakeSignal, adapterVars
<1>5. Filled'
  BY <1>3 DEF Filled, At
<1>6. Gentle /\ last' = last
  BY DEF Gentle, TakeSignal
<1>7. Owned' /\ Waiting' /\ Late' /\ OneInForce'
  BY <1>3, <1>5, <1>6, GentleFacts DEF At
<1>8. Ahead'
  BY <1>3, AheadFacts DEF TakeSignal, At, Dialers, adapterVars
<1> QED
  BY <1>3, <1>4, <1>5, <1>7, <1>8

-----------------------------------------------------------------------------
(* What happens to one connection: no reader starts, no context comes back *)
(* into force, and who is late has ended.                                  *)
LEMMA OneConnInv ==
  ASSUME IInv, NEW c \in Conns, NEW r \in Records,
         conns' = [conns EXCEPT ![c] = r],
         conns[c].reader = "off" => r.reader = "off" /\ r.late \in {0, conns[c].late},
         r.live => conns[c].live,
         r.late > 0 => r.late = 1 /\ r.reader = "off" /\ ~r.live,
         signal' \in BOOLEAN,
         UNCHANGED <<clock, adapterVars, current, last, dial, attempts>>
  PROVE  IInv'
<1> USE DEF IInv
<1>1. conns \in [Conns -> Records]
  BY DEF TypeOK, Records
<1>2. conns' \in [Conns -> Records] /\ conns'[c] = r
      /\ \A k \in Conns : k # c => conns'[k] = conns[k]
  BY <1>1
<1>3. TypeOK'
  BY <1>2 DEF TypeOK, Records, adapterVars
<1>4. DialTypeOK' /\ Filled' /\ Owned'
  BY DEF DialTypeOK, Filled, Owned, At
<1>5. Waiting'
  <2>1. ASSUME NEW d \in Dialers, At(d, "set")'
        PROVE  conns'[dial'[d].conn].reader = "off" /\ conns'[dial'[d].conn].late = 0
    <3>1. At(d, "set") /\ dial'[d].conn = dial[d].conn /\ dial[d].conn \in Conns
      BY <2>1 DEF At, Filled
    <3>2. conns[dial[d].conn].reader = "off" /\ conns[dial[d].conn].late = 0
      BY <3>1 DEF Waiting
    <3> QED
      BY <1>2, <3>1, <3>2
  <2> QED
    BY <2>1 DEF Waiting
<1>6. Late'
  BY <1>2 DEF Late
<1>7. OneInForce'
  BY <1>2 DEF OneInForce
<1>8. Ahead'
  BY AheadFacts DEF At, adapterVars
<1> QED
  BY <1>3, <1>4, <1>5, <1>6, <1>7, <1>8

(* A message is dropped, or becomes a tick.                                *)
LEMMA ReceiveInv ==
  ASSUME IInv, NEW c \in Conns, Receive(c)
  PROVE  IInv'
<1> DEFINE r0 == conns[c]
<1>1. r0 \in Records /\ signal' \in BOOLEAN /\ tokens \in Markets
  BY DEF IInv, TypeOK, Records, Receive
<1>2. r0.reader = "reading" /\ r0.late = 0
  <2>1. r0.late \in 0..2
    BY <1>1 DEF Records
  <2> QED
    BY <2>1 DEF Receive, IInv, Late
<1>3. PICK r : conns' = [conns EXCEPT ![c] = r]
               /\ (r = [r0 EXCEPT !.reader = "tick", !.prices = tokens] \/ r = Again(r0))
  BY DEF Receive
<1>4. r \in Records /\ r.late = r0.late /\ (r.live => r0.live)
  <2>1. CASE r = Again(r0)
    BY <1>1, <2>1, AgainFacts
  <2>2. CASE r = [r0 EXCEPT !.reader = "tick", !.prices = tokens]
    <3> HIDE DEF r0
    <3> QED
      BY <1>1, <2>2 DEF Records
  <2> QED
    BY <1>3, <2>1, <2>2
<1>5. UNCHANGED <<clock, adapterVars, current, last, dial, attempts>>
  BY DEF Receive
<1>6. /\ r0.reader # "off"
      /\ ~(r.late > 0)
  BY <1>2, <1>4
<1> QED
  BY <1>1, <1>3, <1>4, <1>5, <1>6, OneConnInv

(* A tick that is published too late is the last one of its reader, which  *)
(* then finds its context cancelled.                                       *)
LEMMA PublishInv ==
  ASSUME IInv, NEW c \in Conns, Publish(c)
  PROVE  IInv'
<1> DEFINE r0 == conns[c]
<1>1. r0 \in Records /\ signal' \in BOOLEAN
  BY DEF IInv, TypeOK, Records, Publish
<1>2. r0.reader = "tick" /\ r0.late = 0
  <2>1. r0.late \in 0..2
    BY <1>1 DEF Records
  <2> QED
    BY <2>1 DEF Publish, IInv, Late
<1>3. PICK n \in {0, 1} : /\ conns' = [conns EXCEPT ![c] = Again([r0 EXCEPT !.late = n])]
                          /\ n = 1 => ~r0.live
  <2>1. PICK sent \in {TRUE, r0.live} :
          conns' = [conns EXCEPT ![c] =
             Again([r0 EXCEPT !.late = IF sent /\ ~r0.live THEN r0.late + 1 ELSE r0.late])]
    BY DEF Publish
  <2>2. (IF sent /\ ~r0.live THEN r0.late + 1 ELSE r0.late) \in {0, 1}
    BY <1>2
  <2>3. (IF sent /\ ~r0.live THEN r0.late + 1 ELSE r0.late) = 1 => ~r0.live
    BY <1>2
  <2> QED
    BY <2>1, <2>2, <2>3
<1> DEFINE q == [r0 EXCEPT !.late = n]
           r == Again(q)
<1>4. q \in Records /\ q.late = n /\ q.live = r0.live
  <2> HIDE DEF r0
  <2> QED
    BY <1>1 DEF Records
<1> HIDE DEF q
<1>5. r \in Records /\ r.late = n /\ (r.live => r0.live)
      /\ (n = 1 => r.reader = "off" /\ ~r.live)
  BY <1>3, <1>4, AgainFacts
<1>6. conns' = [conns EXCEPT ![c] = r]
  BY <1>3 DEF q
<1>7. UNCHANGED <<clock, adapterVars, current, last, dial, attempts>>
  BY DEF Publish
<1> HIDE DEF r
<1>8. /\ r0.reader # "off"
      /\ r.late > 0 => r.late = 1 /\ r.reader = "off" /\ ~r.live
  BY <1>2, <1>5
<1> QED
  BY <1>1, <1>5, <1>6, <1>7, <1>8, OneConnInv

(* A reader that ends leaves nothing behind.                               *)
LEMMA ReaderEndsInv ==
  ASSUME IInv, NEW c \in Conns, ReadFails(c) \/ Stale(c)
  PROVE  IInv'
<1>1. /\ conns' = [conns EXCEPT ![c] = Unused]
      /\ signal' \in BOOLEAN
      /\ UNCHANGED <<clock, adapterVars, current, last, dial, attempts>>
  BY DEF ReadFails, Stale, IInv, TypeOK
<1>2. /\ Unused \in Records
      /\ Unused.reader = "off" /\ Unused.late \in {0, conns[c].late}
      /\ Unused.live => conns[c].live
      /\ ~(Unused.late > 0)
  BY UnusedFacts
<1> QED
  BY <1>1, <1>2, OneConnInv

(* The network and the ping touch neither readers nor ticks.               *)
LEMMA NetworkInv ==
  ASSUME IInv, NEW c \in Conns, PingFails(c) \/ Break(c) \/ Shut(c)
  PROVE  IInv'
<1> DEFINE r0 == conns[c]
<1>1. /\ r0 \in Records
      /\ r0.late > 0 => r0.late = 1 /\ r0.reader = "off" /\ ~r0.live
      /\ signal' \in BOOLEAN
  BY DEF IInv, TypeOK, Late, Records, PingFails, Break, Shut
<1>2. PICK r : /\ conns' = [conns EXCEPT ![c] = r]
               /\ \/ r = [r0 EXCEPT !.live = FALSE]
                  \/ r = [r0 EXCEPT !.net = "broken"]
                  \/ r = [r0 EXCEPT !.net = "shut"]
  <2>1. c # None
    BY WebSocketAssumption
  <2> QED
    BY <2>1 DEF PingFails, Cancel, Break, Shut
<1>3. UNCHANGED <<clock, adapterVars, current, last, dial, attempts>>
  BY DEF PingFails, Break, Shut
<1>4. r \in Records /\ r.late = r0.late /\ r.reader = r0.reader /\ (r.live => r0.live)
  <2> HIDE DEF r0
  <2> QED
    BY <1>1, <1>2 DEF Records
<1> QED
  BY <1>1, <1>2, <1>3, <1>4, OneConnInv

-----------------------------------------------------------------------------
(* A step of the switch that changes no connection but by closing it or    *)
(* cancelling it needs only its own part of Ahead.                         *)
LEMMA SwitchInv ==
  ASSUME IInv, TypeOK', DialTypeOK', Gentle, last' = last, Ahead',
         \A e \in Dialers : e # "switch" => dial'[e] = dial[e],
         dial'["switch"].conn \in {dial["switch"].conn, None},
         ~At("switch", "set")' /\ ~At("switch", "write")',
         At("switch", "store")' => dial'["switch"].msg \in Markets
  PROVE  IInv'
<1> USE DEF IInv
<1>1. Filled'
  BY DEF Filled, At
<1>2. \A d \in Dialers : dial'[d].conn \in {dial[d].conn, None}
  OBVIOUS
<1>3. \A d \in Dialers : At(d, "set")' => At(d, "set") /\ dial'[d].conn = dial[d].conn
  BY DEF At
<1>4. Owned' /\ Waiting' /\ Late' /\ OneInForce'
  BY <1>1, <1>2, <1>3, GentleFacts
<1> QED
  BY <1>1, <1>4

(* The switch begins after the cycle it counts, and closes what there is.  *)
LEMMA SwitchBeginsInv ==
  ASSUME IInv, SwitchBegins
  PROVE  IInv'
<1> USE DEF IInv
<1>1. Goes("switch", "discover") /\ "discover" \in Places /\ "switch" \in Dialers
  BY DEF SwitchBegins, Places, Dialers
<1>2. /\ DialTypeOK'
      /\ dial'["switch"].at = "discover" /\ dial'["switch"].conn = dial["switch"].conn
      /\ \A e \in Dialers : e # "switch" => dial'[e] = dial[e]
  BY <1>1, GoesFacts
<1> DEFINE f == Cancel(conns, last)
<1>3. conns \in [Conns -> Records] /\ last \in Conns \cup {None} /\ current \in Conns \cup {None}
  BY DEF TypeOK, Records
<1>4. /\ f \in [Conns -> Records]
      /\ \A k \in Conns :
           /\ f[k].late = conns[k].late
           /\ f[k].reader = conns[k].reader
           /\ f[k].live => conns[k].live
  BY <1>3, CancelFacts
<1>5. conns' = Drop(f, current)
  BY DEF SwitchBegins
<1> HIDE DEF f
<1>6. conns' \in [Conns -> Records] /\ Gentle
  BY <1>3, <1>4, <1>5, DropFacts DEF Gentle
<1>7. /\ UNCHANGED <<clock, configured, market, tokens, cycle, announced>>
      /\ UNCHANGED <<last, signal, attempts>> /\ current' = None
  BY DEF SwitchBegins, adapterVars
<1>8. TypeOK'
  BY <1>6, <1>7 DEF TypeOK, Records
<1>9. Ahead'
  <2>1. cycle < clock
    BY DEF SwitchBegins, Expired, TypeOK, Cycles, Markets
  <2> QED
    BY <1>2, <1>7, <2>1 DEF Ahead, At
<1> QED
  BY <1>2, <1>6, <1>7, <1>8, <1>9, SwitchInv DEF At

(* What is found is the market of the clock or later, and the cycle has    *)
(* not caught up with the clock.                                           *)
LEMMA DiscoverInv ==
  ASSUME IInv, Discover
  PROVE  IInv'
<1> USE DEF IInv
<1>1. PICK m \in Found :
        dial' = [dial EXCEPT !["switch"].at = "store", !["switch"].msg = m]
  BY DEF Discover
<1>2. /\ clock \in 0..LastCycle /\ cycle \in Int /\ cycle < clock
      /\ m \in Markets /\ (~configured => m > cycle)
  BY WebSocketAssumption DEF Discover, Found, Markets, Cycles, TypeOK, Ahead
<1>3. /\ DialTypeOK'
      /\ dial'["switch"].at = "store" /\ dial'["switch"].conn = dial["switch"].conn
      /\ dial'["switch"].msg = m
      /\ \A e \in Dialers : e # "switch" => dial'[e] = dial[e]
  BY <1>1, <1>2 DEF DialTypeOK, Places, Dialers
<1>4. TypeOK' /\ Gentle /\ last' = last
  BY DEF TypeOK, Gentle, Discover, adapterVars
<1>5. Ahead'
  <2>1. UNCHANGED <<clock, configured, market, cycle, announced>>
    BY DEF Discover, adapterVars
  <2> QED
    BY <1>2, <1>3, <2>1 DEF Ahead, At
<1> QED
  BY <1>2, <1>3, <1>4, <1>5, SwitchInv DEF At

(* Without a market the switch begins anew, later.                         *)
LEMMA DiscoverFailsInv ==
  ASSUME IInv, DiscoverFails
  PROVE  IInv'
<1> USE DEF IInv
<1>1. Leaves("switch", "idle") /\ "idle" \in Places /\ "switch" \in Dialers
  BY DEF DiscoverFails, Places, Dialers
<1>2. /\ DialTypeOK'
      /\ dial'["switch"].at = "idle" /\ dial'["switch"].conn = None
      /\ \A e \in Dialers : e # "switch" => dial'[e] = dial[e]
  BY <1>1, LeavesFacts
<1>3. TypeOK' /\ Gentle /\ last' = last
  BY DEF TypeOK, Gentle, DiscoverFails, adapterVars
<1>4. Ahead'
  BY <1>2, AheadFacts DEF DiscoverFails, At, adapterVars
<1> QED
  BY <1>2, <1>3, <1>4, SwitchInv DEF At

(* The market found is stored,                                             *)
LEMMA StoreMarketInv ==
  ASSUME IInv, StoreMarket
  PROVE  IInv'
<1> USE DEF IInv
<1>1. Goes("switch", "tokens") /\ "tokens" \in Places /\ "switch" \in Dialers
  BY DEF StoreMarket, Places, Dialers
<1>2. /\ DialTypeOK'
      /\ dial'["switch"].at = "tokens" /\ dial'["switch"].conn = dial["switch"].conn
      /\ \A e \in Dialers : e # "switch" => dial'[e] = dial[e]
  BY <1>1, GoesFacts
<1>3. /\ market' = dial["switch"].msg /\ market' \in Markets
      /\ cycle < clock /\ (~configured => market' > cycle)
      /\ UNCHANGED <<clock, configured, tokens, cycle, announced, conns, current, last,
                     signal, attempts>>
  BY DEF StoreMarket, Filled, Ahead, Dialers
<1>4. TypeOK' /\ Gentle /\ last' = last
  BY <1>3 DEF TypeOK, Gentle
<1>5. Ahead'
  <2>1. cycle \in Int /\ market' \in Int
    BY <1>3, WebSocketAssumption DEF TypeOK, Markets
  <2> QED
    BY <1>2, <1>3, <2>1 DEF Ahead, At
<1> QED
  BY <1>2, <1>4, <1>5, SwitchInv DEF At

(* then its tokens with the next cycle, which is within the clock,         *)
LEMMA StoreTokensInv ==
  ASSUME IInv, StoreTokens
  PROVE  IInv'
<1> USE DEF IInv
<1>1. Goes("switch", "announce") /\ "announce" \in Places /\ "switch" \in Dialers
  BY DEF StoreTokens, Places, Dialers
<1>2. /\ DialTypeOK'
      /\ dial'["switch"].at = "announce" /\ dial'["switch"].conn = dial["switch"].conn
      /\ \A e \in Dialers : e # "switch" => dial'[e] = dial[e]
  BY <1>1, GoesFacts
<1>3. /\ tokens' = market /\ cycle' = cycle + 1
      /\ cycle < clock /\ (~configured => market > cycle)
      /\ UNCHANGED <<clock, configured, market, announced, conns, current, last,
                     signal, attempts>>
  BY DEF StoreTokens, Ahead
<1>4. /\ market \in Int /\ cycle \in Int /\ cycle + 1 \in Markets
      /\ cycle \in Markets /\ market \in Markets
  BY <1>3, WebSocketAssumption DEF TypeOK, Markets, Cycles
<1>5. TypeOK' /\ Gentle /\ last' = last
  BY <1>3, <1>4 DEF TypeOK, Gentle
<1>6. Ahead'
  BY <1>2, <1>3, <1>4 DEF Ahead, At
<1> QED
  BY <1>2, <1>5, <1>6, SwitchInv DEF At

(* and both are announced together.                                        *)
LEMMA AnnounceInv ==
  ASSUME IInv, Announce
  PROVE  IInv'
<1> USE DEF IInv
<1>1. Leaves("switch", "dial") /\ "dial" \in Places /\ "switch" \in Dialers
  BY DEF Announce, Places, Dialers
<1>2. /\ DialTypeOK'
      /\ dial'["switch"].at = "dial" /\ dial'["switch"].conn = None
      /\ \A e \in Dialers : e # "switch" => dial'[e] = dial[e]
  BY <1>1, LeavesFacts
<1>3. /\ announced' = [market |-> market, cycle |-> cycle]
      /\ UNCHANGED <<clock, configured, market, tokens, cycle, conns, current, last,
                     signal, attempts>>
  BY DEF Announce
<1>4. TypeOK' /\ Gentle /\ last' = last
  BY <1>3 DEF TypeOK, Gentle
<1>5. Ahead'
  <2>1. announced'.market = market /\ announced'.cycle = cycle
    BY <1>3
  <2> QED
    BY <1>2, <1>3, <2>1 DEF Ahead, At
<1> QED
  BY <1>2, <1>4, <1>5, SwitchInv DEF At

(* Time goes by.                                                           *)
LEMMA NextCycleInv ==
  ASSUME IInv, NextCycle
  PROVE  IInv'
<1> USE DEF IInv
<1>1. /\ clock' = clock + 1 /\ clock \in Int /\ cycle \in Int /\ clock' \in Cycles
      /\ UNCHANGED <<configured, market, tokens, cycle, announced, conns, current, last,
                     dial, signal, attempts>>
  BY WebSocketAssumption DEF NextCycle, TypeOK, Cycles, Markets, adapterVars
<1>2. TypeOK'
  BY <1>1 DEF TypeOK
<1>3. DialTypeOK' /\ Filled' /\ Owned' /\ Waiting' /\ Late' /\ OneInForce'
  BY <1>1 DEF DialTypeOK, Filled, Owned, Waiting, Late, OneInForce, At
<1>4. Ahead'
  BY <1>1 DEF Ahead, At
<1> QED
  BY <1>2, <1>3, <1>4

-----------------------------------------------------------------------------
(* It holds at first,                                                      *)
LEMMA InitInv == Init => IInv
<1> SUFFICES ASSUME Init PROVE IInv
  OBVIOUS
<1>1. /\ clock = 0 /\ configured \in BOOLEAN /\ market \in Markets
      /\ tokens = market /\ cycle = market /\ signal = FALSE /\ attempts = 0
      /\ announced = [market |-> market, cycle |-> cycle]
      /\ current = None /\ last = None
  BY WebSocketAssumption DEF Init, Found, Markets
<1>2. /\ conns \in [Conns -> Records]
      /\ \A c \in Conns : conns[c] = Unused
  BY UnusedFacts DEF Init
<1>3. /\ DialTypeOK
      /\ \A d \in Dialers : dial[d].at \in {"dial", "idle"} /\ dial[d].conn = None
  BY DEF Init, DialTypeOK, Places
<1>4. TypeOK
  <2>1. 0 \in Cycles /\ 0 \in 0..MaxReconnectAttempts
    BY WebSocketAssumption DEF Cycles
  <2>2. clock \in Cycles /\ attempts \in 0..MaxReconnectAttempts /\ signal \in BOOLEAN
    BY <1>1, <2>1, Zenon
  <2>3. announced \in [market : Markets, cycle : Markets]
    BY <1>1
  <2> QED
    BY <1>1, <1>2, <2>2, <2>3 DEF TypeOK, Records
<1>5. Filled /\ Owned /\ Waiting
  BY <1>3 DEF Filled, Owned, Waiting, At
<1>6. Late /\ OneInForce
  BY <1>2, UnusedFacts DEF Late, OneInForce
<1>7. Ahead
  <2>1. market \in Int /\ announced.market = market /\ announced.cycle = market
    BY <1>1, WebSocketAssumption DEF Markets
  <2>2. ~At("switch", "discover") /\ ~At("switch", "store") /\ ~At("switch", "tokens")
    BY <1>3 DEF At, Dialers
  <2> QED
    BY <1>1, <2>1, <2>2 DEF Ahead
<1> QED
  BY <1>3, <1>4, <1>5, <1>6, <1>7 DEF IInv

(* and every step keeps it.                                                *)
LEMMA StepInv == IInv /\ [Next]_vars => IInv'
<1> SUFFICES ASSUME IInv, [Next]_vars PROVE IInv'
  OBVIOUS
<1>1. ASSUME NEW d \in Dialers, Dialing(d) PROVE IInv'
  BY <1>1, DialInv, SetConnInv, SubscribeInv, WriteInv, DialEndsInv DEF Dialing
<1>2. CASE TakeSignal
  BY <1>2, TakeSignalInv
<1>3. ASSUME NEW c \in Conns,
             Reading(c) \/ Stale(c) \/ PingFails(c) \/ Break(c) \/ Shut(c)
      PROVE  IInv'
  BY <1>3, ReceiveInv, PublishInv, ReaderEndsInv, NetworkInv DEF Reading
<1>4. CASE Switching
  BY <1>4, SwitchBeginsInv, DiscoverInv, DiscoverFailsInv, StoreMarketInv, StoreTokensInv,
     AnnounceInv DEF Switching
<1>5. CASE NextCycle
  BY <1>5, NextCycleInv
<1>6. CASE UNCHANGED vars
  <2>1. TypeOK'
    BY <1>6 DEF vars, IInv, TypeOK
  <2>2. DialTypeOK' /\ Filled' /\ Owned' /\ Waiting' /\ Late' /\ OneInForce' /\ Ahead'
    BY <1>6 DEF vars, IInv, DialTypeOK, Filled, Owned, Waiting, Late, OneInForce, Ahead, At
  <2> QED
    BY <2>1, <2>2 DEF IInv
<1> QED
  BY <1>1, <1>2, <1>3, <1>4, <1>5, <1>6 DEF Next

(* The invariant holds in every state the adapter reaches.                 *)
THEOREM Invariance == Spec => []IInv
<1>1. Init => IInv
  BY InitInv
<1>2. IInv /\ [Next]_vars => IInv'
  BY StepInv
<1> QED
  BY <1>1, <1>2, PTL DEF Spec

(* Every variable of the adapter keeps its type; the cycle it counts stays *)
(* within the clock, so that the switches end (684-777).                   *)
THEOREM TypeCorrect == Spec => []TypeOK
<1>1. IInv => TypeOK
  BY DEF IInv
<1> QED
  BY <1>1, Invariance, PTL

(* Three callers of DialAndConnect that do not know of each other leave at *)
(* most one connection in force, the one w.connCancel cancels (260-276).   *)
THEOREM OneConnectionInForce == Spec => []OneInForce
<1>1. IInv => OneInForce
  BY DEF IInv
<1> QED
  BY <1>1, Invariance, PTL

(* A reader whose connection was replaced publishes one more tick at most, *)
(* the one it had in hand (356-415).                                       *)
THEOREM LateAtMostOnce == Spec => []LateOnce
<1>1. IInv => LateOnce
  <2> SUFFICES ASSUME IInv, NEW c \in Conns PROVE conns[c].late <= 1
    BY DEF LateOnce
  <2>1. conns[c].late \in 0..2
    BY DEF IInv, TypeOK
  <2> QED
    BY <2>1 DEF IInv, Late
<1> QED
  BY <1>1, Invariance, PTL

(* A snapshot never names a market older than the cycle it states, however *)
(* late the switch, the discovery and their retries come (684-777).        *)
THEOREM SnapshotsNotBehind == Spec => []NeverBehind
<1>1. IInv => NeverBehind
  BY DEF IInv, Ahead, NeverBehind
<1> QED
  BY <1>1, Invariance, PTL

-----------------------------------------------------------------------------
(* What a connection in force hears.  It may be deaf, or its reader hold   *)
(* prices of before, only while another connection or the end is coming:   *)
(* somebody is to dial, a signal will make somebody dial, the switch will, *)
(* or nobody will any more.                                                *)
Coming ==
  \/ signal \/ At("reconnector", "gone") \/ At("start", "failed")
  \/ At("switch", "announce")
  \/ \E d \in Dialers : At(d, "dial") \/ At(d, "set")

(* A subscription to the tokens of now is about to be written.             *)
UnderWay ==
  \E d \in Dialers : At(d, "subscribe") \/ (At(d, "write") /\ dial[d].msg = tokens)

InCurrent == \A c \in Conns : conns[c].live => c = current

Heard ==
  \A c \in Conns :
    conns[c].live /\ conns[c].net = "open" =>
      Coming \/ UnderWay \/ tokens \in conns[c].subs

Stamped ==
  /\ tokens = market \/ At("switch", "tokens")
  /\ \A c \in Conns :
       conns[c].live /\ conns[c].reader = "tick" => Coming \/ conns[c].prices = tokens

Served == InCurrent /\ Heard /\ Stamped

(* What a connection keeps through a step that puts no other in force.     *)
Keeps(c) ==
  conns'[c].live =>
    /\ conns[c].live
    /\ conns[c].subs \subseteq conns'[c].subs
    /\ conns'[c].net = "open" => conns[c].net = "open"
    /\ conns'[c].reader = "tick" =>
         conns'[c].prices = tokens
           \/ (conns[c].reader = "tick" /\ conns'[c].prices = conns[c].prices)

(* Such a step serves as well as before, if what is coming still comes and *)
(* what is under way is still, or has arrived.                             *)
LEMMA KeepsServed ==
  ASSUME Served, tokens' = tokens, market' = market,
         \A c \in Conns : Keeps(c),
         current' = current \/ \A c \in Conns : ~conns'[c].live,
         At("switch", "tokens") => At("switch", "tokens")',
         Coming => Coming',
         UnderWay => \/ UnderWay' \/ Coming'
                     \/ \A c \in Conns : conns'[c].live => tokens \in conns'[c].subs
  PROVE  Served'
<1>1. InCurrent'
  BY DEF Served, InCurrent, Keeps
<1>2. Heard'
  <2> SUFFICES ASSUME NEW c \in Conns, conns'[c].live, conns'[c].net = "open",
                      ~Coming', ~UnderWay'
               PROVE  tokens' \in conns'[c].subs
    BY DEF Heard
  <2>1. conns[c].live /\ conns[c].net = "open" /\ conns[c].subs \subseteq conns'[c].subs
    BY DEF Keeps
  <2> QED
    BY <2>1 DEF Served, Heard
<1>3. Stamped'
  <2> SUFFICES ASSUME NEW c \in Conns, conns'[c].live, conns'[c].reader = "tick", ~Coming'
               PROVE  conns'[c].prices = tokens'
    BY DEF Served, Stamped
  <2>1. CASE conns'[c].prices = tokens
    BY <2>1
  <2>2. CASE conns'[c].prices # tokens
    <3>1. conns[c].live /\ conns[c].reader = "tick" /\ conns'[c].prices = conns[c].prices
      BY <2>2 DEF Keeps
    <3> QED
      BY <3>1 DEF Served, Stamped
  <2> QED
    BY <2>1, <2>2
<1> QED
  BY <1>1, <1>2, <1>3 DEF Served

(* Closing a connection that stays in force loses nothing else.            *)
LEMMA DropKeeps ==
  ASSUME conns \in [Conns -> Records], NEW c \in Conns \cup {None}, conns' = Drop(conns, c)
  PROVE  \A k \in Conns : Keeps(k)
<1>1. CASE c = None
  BY <1>1 DEF Drop, Keeps
<1>2. CASE c # None
  <2> DEFINE r == [conns[c] EXCEPT !.net = "closed"]
  <2>1. c \in Conns /\ conns' = [conns EXCEPT ![c] = r]
    BY <1>2 DEF Drop
  <2>2. /\ r.live = conns[c].live /\ r.reader = conns[c].reader /\ r.net = "closed"
        /\ r.prices = conns[c].prices /\ r.subs = conns[c].subs
    BY <2>1 DEF Records
  <2> HIDE DEF r
  <2>3. conns'[c] = r /\ \A k \in Conns : k # c => conns'[k] = conns[k]
    BY <2>1
  <2> QED
    BY <2>2, <2>3 DEF Keeps
<1> QED
  BY <1>1, <1>2

(* A dialer that moves takes nothing away from what is coming, unless it   *)
(* was that itself,                                                        *)
LEMMA ComingKept ==
  ASSUME NEW d \in Dialers, \A e \in Dialers : e # d => dial'[e] = dial[e],
         signal => signal',
         dial[d].at \notin {"dial", "set", "gone", "failed", "announce"}
  PROVE  Coming => Coming'
<1> SUFFICES ASSUME Coming PROVE Coming'
  OBVIOUS
<1>1. CASE signal
  BY <1>1 DEF Coming
<1>2. CASE At("reconnector", "gone") \/ At("start", "failed") \/ At("switch", "announce")
  BY <1>2 DEF Coming, At, Dialers
<1>3. CASE \E e \in Dialers : At(e, "dial") \/ At(e, "set")
  <2>1. PICK e \in Dialers : At(e, "dial") \/ At(e, "set")
    BY <1>3
  <2>2. e # d
    BY <2>1 DEF At
  <2>3. At(e, "dial")' \/ At(e, "set")'
    BY <2>1, <2>2 DEF At
  <2> QED
    BY <2>3 DEF Coming
<1> QED
  BY <1>1, <1>2, <1>3 DEF Coming

(* and likewise for what is under way.                                     *)
LEMMA UnderWayKept ==
  ASSUME NEW d \in Dialers, \A e \in Dialers : e # d => dial'[e] = dial[e],
         tokens' = tokens, ~At(d, "subscribe"), ~At(d, "write")
  PROVE  UnderWay => UnderWay'
<1> SUFFICES ASSUME UnderWay PROVE UnderWay'
  OBVIOUS
<1>1. PICK e \in Dialers : At(e, "subscribe") \/ (At(e, "write") /\ dial[e].msg = tokens)
  BY DEF UnderWay
<1>2. e # d
  BY <1>1
<1>3. At(e, "subscribe")' \/ (At(e, "write") /\ dial[e].msg = tokens)'
  BY <1>1, <1>2 DEF At
<1> QED
  BY <1>3 DEF UnderWay

(* When no dialer moves and no signal is lost, both stay.                  *)
LEMMA BothKept ==
  ASSUME dial' = dial, tokens' = tokens, signal => signal'
  PROVE  (Coming => Coming') /\ (UnderWay => UnderWay')
         /\ (At("switch", "tokens") => At("switch", "tokens")')
BY DEF Coming, UnderWay, At

(* A failure asks for a connection, or ends the program.                   *)
LEMMA FailedComing ==
  ASSUME DialTypeOK, NEW d \in Dialers, NEW counted, Failed(d, counted)
  PROVE  Coming' /\ (At("switch", "tokens") => d = "switch" \/ At("switch", "tokens")')
<1>1. PICK place \in {"failed", "idle"} : Leaves(d, place) /\ (d = "start" => place = "failed")
  BY DEF Failed
<1>2. place \in Places
  BY DEF Places
<1>3. dial'[d].at = place /\ \A e \in Dialers : e # d => dial'[e] = dial[e]
  BY <1>1, <1>2, LeavesFacts
<1>4. Coming'
  BY <1>1, <1>3 DEF Coming, At, Failed
<1> QED
  BY <1>3, <1>4 DEF At, Dialers

(* The steps of a dial before and after SetConn serve as well as before.   *)
LEMMA DialServes ==
  ASSUME IInv, Served, NEW d \in Dialers, Dial(d)
  PROVE  Served'
<1>1. PICK c \in Conns :
        /\ Forgotten(c)
        /\ conns' = [conns EXCEPT ![c] = [Unused EXCEPT !.net = "open"]]
        /\ dial' = [dial EXCEPT ![d].at = "set", ![d].conn = c]
  BY DEF Dial
<1>2. [Unused EXCEPT !.net = "open"].live = FALSE
  BY DEF Unused
<1>3. \A k \in Conns : Keeps(k)
  BY <1>1, <1>2 DEF Keeps, IInv, TypeOK
<1>4. At(d, "set")' /\ \A e \in Dialers : e # d => dial'[e] = dial[e]
  BY <1>1 DEF At, IInv, DialTypeOK
<1>5. Coming'
  BY <1>4 DEF Coming
<1>6. At("switch", "tokens") => At("switch", "tokens")'
  BY <1>4 DEF Dial, At, Dialers
<1> QED
  BY <1>3, <1>5, <1>6, KeepsServed DEF Dial, adapterVars

LEMMA DialFailsServes ==
  ASSUME IInv, Served, NEW d \in Dialers, DialFails(d)
  PROVE  Served'
<1>1. Coming' /\ (At("switch", "tokens") => At("switch", "tokens")')
  BY FailedComing DEF DialFails, IInv, At
<1>2. \A c \in Conns : Keeps(c)
  BY DEF Keeps, DialFails
<1> QED
  BY <1>1, <1>2, KeepsServed DEF DialFails, adapterVars

(* SetConn is what was coming: the new connection is in force alone, and   *)
(* its subscription is under way.                                          *)
LEMMA SetConnServes ==
  ASSUME IInv, IInv', Served, NEW d \in Dialers, SetConn(d)
  PROVE  Served'
<1>1. Goes(d, "subscribe") /\ "subscribe" \in Places /\ DialTypeOK
  BY DEF SetConn, Places, IInv
<1>2. dial'[d].at = "subscribe" /\ \A e \in Dialers : e # d => dial'[e] = dial[e]
  BY <1>1, GoesFacts
<1>3. InCurrent'
  BY DEF IInv, OneInForce, InCurrent, SetConn
<1>4. UnderWay'
  BY <1>2 DEF UnderWay, At
<1>5. Heard'
  BY <1>4 DEF Heard
<1> DEFINE c == dial[d].conn
           f == Cancel(conns, last)
<1>6. c \in Conns /\ f \in [Conns -> Records]
  BY CancelFacts DEF SetConn, IInv, Filled, TypeOK, Records
<1>7. conns'[c].reader = "reading"
  <2> HIDE DEF f, c
  <2>1. f[c] \in Records
    BY <1>6
  <2>2. [f[c] EXCEPT !.live = TRUE, !.reader = "reading"].reader = "reading"
    BY <2>1 DEF Records
  <2>3. conns' = [f EXCEPT ![c] = [f[c] EXCEPT !.live = TRUE, !.reader = "reading"]]
    BY DEF SetConn, f, c
  <2> QED
    BY <1>6, <2>2, <2>3
<1>8. Stamped'
  <2>1. tokens' = market' \/ At("switch", "tokens")'
    BY <1>2 DEF Served, Stamped, SetConn, At, Dialers, adapterVars
  <2>2. ASSUME NEW k \in Conns, conns'[k].live, conns'[k].reader = "tick" PROVE FALSE
    BY <1>3, <1>7, <2>2 DEF InCurrent, SetConn
  <2> QED
    BY <2>1, <2>2 DEF Stamped
<1> QED
  BY <1>3, <1>5, <1>8 DEF Served

LEMMA SubscribeServes ==
  ASSUME IInv, Served, NEW d \in Dialers, Subscribe(d)
  PROVE  Served'
<1>1. /\ dial'[d].at = "write" /\ dial'[d].msg = tokens
      /\ \A e \in Dialers : e # d => dial'[e] = dial[e]
  BY DEF Subscribe, IInv, DialTypeOK
<1>2. /\ tokens' = tokens /\ market' = market /\ conns' = conns /\ current' = current
      /\ signal' = signal /\ dial[d].at = "subscribe"
  BY DEF Subscribe, adapterVars, At
<1>3. UnderWay'
  BY <1>1, <1>2 DEF UnderWay, At
<1>4. Coming => Coming'
  BY <1>1, <1>2, ComingKept
<1>5. At("switch", "tokens") => At("switch", "tokens")'
  BY <1>1, <1>2 DEF At, Dialers
<1>6. \A c \in Conns : Keeps(c)
  BY <1>2 DEF Keeps
<1> QED
  BY <1>2, <1>3, <1>4, <1>5, <1>6, KeepsServed

LEMMA WriteServes ==
  ASSUME IInv, Served, NEW d \in Dialers, Write(d)
  PROVE  Served'
<1>1. dial'[d].at = "wait" /\ \A e \in Dialers : e # d => dial'[e] = dial[e]
  BY DEF Write, IInv, DialTypeOK
<1>2. /\ tokens' = tokens /\ market' = market /\ current' = current
      /\ signal' = signal /\ dial[d].at = "write" /\ current \in Conns
  BY DEF Write, adapterVars, At, IInv, TypeOK
<1> DEFINE r == [conns[current] EXCEPT !.subs = @ \cup {dial[d].msg}]
<1>3. /\ r.live = conns[current].live /\ r.reader = conns[current].reader
      /\ r.net = conns[current].net /\ r.prices = conns[current].prices
      /\ r.subs = conns[current].subs \cup {dial[d].msg}
  <2>1. conns[current] \in Records
    BY <1>2 DEF IInv, TypeOK, Records
  <2> QED
    BY <2>1 DEF Records
<1>4. conns' = [conns EXCEPT ![current] = r]
  BY DEF Write
<1> HIDE DEF r
<1>5. conns'[current] = r /\ \A c \in Conns : c # current => conns'[c] = conns[c]
  BY <1>2, <1>4 DEF IInv, TypeOK
<1>6. \A c \in Conns : Keeps(c)
  BY <1>3, <1>5 DEF Keeps
<1>7. Coming => Coming'
  BY <1>1, <1>2, ComingKept
<1>8. At("switch", "tokens") => At("switch", "tokens")'
  BY <1>1, <1>2 DEF At, Dialers
<1>9. UnderWay => UnderWay' \/ \A c \in Conns : conns'[c].live => tokens \in conns'[c].subs
  <2>1. CASE dial[d].msg = tokens
    BY <1>3, <1>5, <2>1 DEF Served, InCurrent
  <2>2. CASE dial[d].msg # tokens
    <3>1. \A e \in Dialers : (At(e, "subscribe") \/ (At(e, "write") /\ dial[e].msg = tokens))
            => dial'[e] = dial[e]
      BY <1>1, <1>2, <2>2 DEF At
    <3> QED
      BY <1>2, <3>1 DEF UnderWay, At
  <2> QED
    BY <2>1, <2>2
<1> QED
  BY <1>2, <1>6, <1>7, <1>8, <1>9, KeepsServed

LEMMA WriteFailsServes ==
  ASSUME IInv, Served, NEW d \in Dialers, WriteFails(d)
  PROVE  Served'
<1>1. Coming' /\ (At("switch", "tokens") => At("switch", "tokens")')
  BY FailedComing DEF WriteFails, IInv, At
<1>2. /\ conns \in [Conns -> Records] /\ dial[d].conn \in Conns \cup {None}
      /\ conns' = Drop(conns, dial[d].conn)
  BY DEF WriteFails, IInv, TypeOK, Records, DialTypeOK
<1>3. \A c \in Conns : Keeps(c)
  BY <1>2, DropKeeps
<1> QED
  BY <1>1, <1>3, KeepsServed DEF WriteFails, adapterVars

LEMMA ConnectedServes ==
  ASSUME IInv, Served, NEW d \in Dialers, Connected(d)
  PROVE  Served'
<1>1. Leaves(d, "idle") /\ "idle" \in Places /\ DialTypeOK
  BY DEF Connected, Places, IInv
<1>2. \A e \in Dialers : e # d => dial'[e] = dial[e]
  BY <1>1, LeavesFacts
<1>3. /\ tokens' = tokens /\ market' = market /\ conns' = conns /\ current' = current
      /\ signal' = signal /\ dial[d].at = "wait"
  BY DEF Connected, adapterVars, At
<1>4. (Coming => Coming') /\ (UnderWay => UnderWay')
  BY <1>2, <1>3, ComingKept, UnderWayKept DEF At
<1>5. At("switch", "tokens") => At("switch", "tokens")'
  BY <1>2, <1>3 DEF At, Dialers
<1>6. \A c \in Conns : Keeps(c)
  BY <1>3 DEF Keeps
<1> QED
  BY <1>3, <1>4, <1>5, <1>6, KeepsServed

(* A signal that is taken becomes a dial, or the end of the reconnector.   *)
LEMMA TakeSignalServes ==
  ASSUME IInv, Served, TakeSignal
  PROVE  Served'
<1>1. PICK place \in {"gone", "dial"} : Goes("reconnector", place)
  BY DEF TakeSignal
<1>2. place \in Places /\ "reconnector" \in Dialers /\ DialTypeOK
  BY DEF Places, Dialers, IInv
<1>3. /\ dial'["reconnector"].at = place
      /\ \A e \in Dialers : e # "reconnector" => dial'[e] = dial[e]
  BY <1>1, <1>2, GoesFacts
<1>4. Coming'
  BY <1>2, <1>3 DEF Coming, At
<1>5. At("switch", "tokens") => At("switch", "tokens")'
  BY <1>3 DEF At, Dialers
<1>6. \A c \in Conns : Keeps(c)
  BY DEF Keeps, TakeSignal
<1> QED
  BY <1>4, <1>5, <1>6, KeepsServed DEF TakeSignal, adapterVars

(* What happens to one connection serves, if it only goes on as it did.    *)
LEMMA OneConnServes ==
  ASSUME IInv, Served, NEW c \in Conns, NEW r \in Records,
         conns' = [conns EXCEPT ![c] = r],
         r.live => /\ conns[c].live
                   /\ r.subs = conns[c].subs
                   /\ r.net = "open" => conns[c].net = "open"
                   /\ r.reader = "tick" =>
                        r.prices = tokens
                          \/ (conns[c].reader = "tick" /\ r.prices = conns[c].prices),
         signal => signal',
         UNCHANGED <<adapterVars, current, dial>>
  PROVE  Served'
<1>1. conns'[c] = r /\ \A k \in Conns : k # c => conns'[k] = conns[k]
  BY DEF IInv, TypeOK
<1>2. \A k \in Conns : Keeps(k)
  BY <1>1 DEF Keeps
<1>3. tokens' = tokens /\ market' = market /\ current' = current /\ dial' = dial
  BY DEF adapterVars
<1> QED
  BY <1>2, <1>3, BothKept, KeepsServed

(* A reader publishes prices of the tokens by which it let them through.   *)
LEMMA ReceiveServes ==
  ASSUME IInv, Served, NEW c \in Conns, Receive(c)
  PROVE  Served'
<1> DEFINE r0 == conns[c]
<1>1. r0 \in Records /\ tokens \in Markets
  BY DEF IInv, TypeOK, Records
<1>2. PICK r : conns' = [conns EXCEPT ![c] = r]
               /\ (r = [r0 EXCEPT !.reader = "tick", !.prices = tokens] \/ r = Again(r0))
  BY DEF Receive
<1>3. /\ r \in Records
      /\ r.live => /\ r0.live /\ r.subs = r0.subs
                   /\ r.net = "open" => r0.net = "open"
                   /\ r.reader = "tick" => r.prices = tokens
  <2>1. CASE r = Again(r0)
    <3>1. r \in Records
      BY <1>1, <2>1, AgainFacts
    <3>2. r.live => r0.live /\ r.subs = r0.subs /\ r.net = r0.net /\ r.reader # "tick"
      <4> HIDE DEF r0
      <4> QED
        BY <1>1, <2>1 DEF Again, Unused, Records
    <3> QED
      BY <3>1, <3>2
  <2>2. CASE r = [r0 EXCEPT !.reader = "tick", !.prices = tokens]
    <3> HIDE DEF r0
    <3> QED
      BY <1>1, <2>2 DEF Records
  <2> QED
    BY <1>2, <2>1, <2>2
<1>4. (signal => signal') /\ UNCHANGED <<adapterVars, current, dial>>
  BY DEF Receive
<1> QED
  BY <1>2, <1>3, <1>4, OneConnServes

LEMMA PublishServes ==
  ASSUME IInv, Served, NEW c \in Conns, Publish(c)
  PROVE  Served'
<1> DEFINE r0 == conns[c]
<1>1. r0 \in Records /\ r0.late = 0
  <2>1. r0 \in Records
    BY DEF IInv, TypeOK, Records
  <2>2. r0.late \in 0..2
    BY <2>1 DEF Records
  <2> QED
    BY <2>1, <2>2 DEF Publish, IInv, Late
<1>2. PICK n \in {0, 1} : conns' = [conns EXCEPT ![c] = Again([r0 EXCEPT !.late = n])]
  <2>1. PICK sent \in {TRUE, r0.live} :
          conns' = [conns EXCEPT ![c] =
             Again([r0 EXCEPT !.late = IF sent /\ ~r0.live THEN r0.late + 1 ELSE r0.late])]
    BY DEF Publish
  <2>2. (IF sent /\ ~r0.live THEN r0.late + 1 ELSE r0.late) \in {0, 1}
    BY <1>1
  <2> QED
    BY <2>1, <2>2
<1> DEFINE q == [r0 EXCEPT !.late = n]
           r == Again(q)
<1>3. q \in Records /\ q.live = r0.live /\ q.subs = r0.subs /\ q.net = r0.net
  <2> HIDE DEF r0
  <2> QED
    BY <1>1 DEF Records
<1>4. conns' = [conns EXCEPT ![c] = r]
  BY <1>2
<1> HIDE DEF q
<1>5. /\ r \in Records
      /\ r.live => r0.live /\ r.subs = r0.subs /\ r.net = r0.net /\ r.reader # "tick"
  <2>1. r \in Records
    BY <1>3, AgainFacts
  <2>2. r.live => q.live /\ r.subs = q.subs /\ r.net = q.net /\ r.reader # "tick"
    BY <1>3 DEF Again, Unused, Records
  <2> QED
    BY <1>3, <2>1, <2>2
<1>6. (signal => signal') /\ UNCHANGED <<adapterVars, current, dial>>
  BY DEF Publish
<1> HIDE DEF r
<1> QED
  BY <1>4, <1>5, <1>6, OneConnServes

LEMMA ReaderEndsServes ==
  ASSUME IInv, Served, NEW c \in Conns, ReadFails(c) \/ Stale(c)
  PROVE  Served'
<1>1. conns' = [conns EXCEPT ![c] = Unused]
  BY DEF ReadFails, Stale
<1>2. UNCHANGED <<adapterVars, current, dial>>
  BY DEF ReadFails, Stale
<1>3. signal => signal'
  <2>1. signal' \in {signal, TRUE}
    BY DEF ReadFails, Stale
  <2> QED
    BY <2>1, Zenon
<1>4. Unused \in Records /\ ~Unused.live
  BY UnusedFacts
<1> QED
  BY <1>1, <1>2, <1>3, <1>4, OneConnServes

LEMMA NetworkServes ==
  ASSUME IInv, Served, NEW c \in Conns, PingFails(c) \/ Break(c) \/ Shut(c)
  PROVE  Served'
<1> DEFINE r0 == conns[c]
<1>1. r0 \in Records
  BY DEF IInv, TypeOK, Records
<1>2. PICK r : /\ conns' = [conns EXCEPT ![c] = r]
               /\ \/ r = [r0 EXCEPT !.live = FALSE]
                  \/ r = [r0 EXCEPT !.net = "broken"]
                  \/ r = [r0 EXCEPT !.net = "shut"]
  <2>1. c # None
    BY WebSocketAssumption
  <2> QED
    BY <2>1 DEF PingFails, Cancel, Break, Shut
<1>3. (signal => signal') /\ UNCHANGED <<adapterVars, current, dial>>
  BY DEF PingFails, Break, Shut
<1>4. /\ r \in Records
      /\ r.live => /\ r0.live /\ r.subs = r0.subs /\ r.net \in {r0.net, "broken", "shut"}
                   /\ r.reader = r0.reader /\ r.prices = r0.prices
  <2> HIDE DEF r0
  <2> QED
    BY <1>1, <1>2 DEF Records
<1> QED
  BY <1>2, <1>3, <1>4, OneConnServes

(* While the switch looks for the next market nothing is in force that was *)
(* before; what another dialer puts in force meanwhile will be replaced.   *)
LEMMA SwitchBeginsServes ==
  ASSUME IInv, IInv', Served, SwitchBegins
  PROVE  Served'
<1>1. Goes("switch", "discover") /\ "discover" \in Places /\ "switch" \in Dialers /\ DialTypeOK
  BY DEF SwitchBegins, Places, Dialers, IInv
<1>2. \A e \in Dialers : e # "switch" => dial'[e] = dial[e]
  BY <1>1, GoesFacts
<1> DEFINE f == Cancel(conns, last)
<1>3. conns \in [Conns -> Records] /\ last \in Conns \cup {None} /\ current \in Conns \cup {None}
  BY DEF IInv, TypeOK, Records
<1>4. /\ f \in [Conns -> Records]
      /\ \A k \in Conns : f[k].live => conns[k].live /\ k # last
  BY <1>3, CancelFacts
<1>5. conns' = Drop(f, current)
  BY DEF SwitchBegins
<1> HIDE DEF f
<1>6. \A k \in Conns : ~conns'[k].live
  BY <1>3, <1>4, <1>5, DropFacts DEF IInv, OneInForce
<1>7. /\ tokens' = tokens /\ market' = market /\ signal' = signal
      /\ dial["switch"].at = "idle"
  BY DEF SwitchBegins, adapterVars, At
<1>8. (Coming => Coming') /\ (UnderWay => UnderWay')
  BY <1>1, <1>2, <1>7, ComingKept, UnderWayKept DEF At
<1>9. \A k \in Conns : Keeps(k)
  BY <1>6 DEF Keeps
<1> QED
  BY <1>6, <1>7, <1>8, <1>9, KeepsServed DEF At

LEMMA DiscoverServes ==
  ASSUME IInv, Served, Discover \/ DiscoverFails
  PROVE  Served'
<1>1. "switch" \in Dialers /\ \A e \in Dialers : e # "switch" => dial'[e] = dial[e]
  BY DEF Discover, DiscoverFails, Leaves, Dialers, IInv, DialTypeOK
<1>2. /\ tokens' = tokens /\ market' = market /\ conns' = conns /\ current' = current
      /\ signal' = signal /\ dial["switch"].at = "discover"
  BY DEF Discover, DiscoverFails, adapterVars, At
<1>3. (Coming => Coming') /\ (UnderWay => UnderWay')
  BY <1>1, <1>2, ComingKept, UnderWayKept DEF At
<1>4. \A c \in Conns : Keeps(c)
  BY <1>2 DEF Keeps
<1> QED
  BY <1>2, <1>3, <1>4, KeepsServed DEF At

(* Market and tokens part for one step; once they are together again a     *)
(* dial is coming.                                                         *)
LEMMA StoreMarketServes ==
  ASSUME IInv, Served, StoreMarket
  PROVE  Served'
<1>1. Goes("switch", "tokens") /\ "tokens" \in Places /\ "switch" \in Dialers /\ DialTypeOK
  BY DEF StoreMarket, Places, Dialers, IInv
<1>2. /\ dial'["switch"].at = "tokens"
      /\ \A e \in Dialers : e # "switch" => dial'[e] = dial[e]
  BY <1>1, GoesFacts
<1>3. /\ tokens' = tokens /\ conns' = conns /\ current' = current
      /\ signal' = signal /\ dial["switch"].at = "store"
  BY DEF StoreMarket, At
<1>4. (Coming => Coming') /\ (UnderWay => UnderWay')
  BY <1>1, <1>2, <1>3, ComingKept, UnderWayKept DEF At
<1>5. InCurrent' /\ Heard'
  BY <1>3, <1>4 DEF Served, InCurrent, Heard
<1>6. Stamped'
  BY <1>2, <1>3, <1>4 DEF Served, Stamped, At
<1> QED
  BY <1>5, <1>6 DEF Served

LEMMA StoreTokensServes ==
  ASSUME IInv, Served, StoreTokens
  PROVE  Served'
<1>1. Goes("switch", "announce") /\ "announce" \in Places /\ "switch" \in Dialers /\ DialTypeOK
  BY DEF StoreTokens, Places, Dialers, IInv
<1>2. dial'["switch"].at = "announce"
  BY <1>1, GoesFacts
<1>3. Coming'
  BY <1>2 DEF Coming, At
<1>4. tokens' = market /\ market' = market /\ conns' = conns /\ current' = current
  BY DEF StoreTokens
<1> QED
  BY <1>3, <1>4 DEF Served, InCurrent, Heard, Stamped

LEMMA AnnounceServes ==
  ASSUME IInv, Served, Announce
  PROVE  Served'
<1>1. Leaves("switch", "dial") /\ "dial" \in Places /\ "switch" \in Dialers /\ DialTypeOK
  BY DEF Announce, Places, Dialers, IInv
<1>2. dial'["switch"].at = "dial"
  BY <1>1, LeavesFacts
<1>3. Coming'
  BY <1>1, <1>2 DEF Coming, At
<1>4. tokens' = tokens /\ market' = market /\ conns' = conns /\ current' = current
      /\ dial["switch"].at = "announce"
  BY DEF Announce, At
<1> QED
  BY <1>3, <1>4, KeepsServed DEF Keeps, At

(* At first nothing is in force.                                           *)
LEMMA InitServes == Init => Served
<1> SUFFICES ASSUME Init PROVE Served
  OBVIOUS
<1>1. tokens = market
  BY DEF Init
<1>2. \A c \in Conns : conns[c] = Unused
  BY DEF Init
<1>3. \A c \in Conns : ~conns[c].live
  BY <1>2, UnusedFacts
<1> QED
  BY <1>1, <1>3 DEF Served, InCurrent, Heard, Stamped

(* Every step serves as well as before.                                    *)
LEMMA StepServes == IInv /\ IInv' /\ Served /\ [Next]_vars => Served'
<1> SUFFICES ASSUME IInv, IInv', Served, [Next]_vars PROVE Served'
  OBVIOUS
<1>1. ASSUME NEW d \in Dialers, Dialing(d) PROVE Served'
  BY <1>1, DialServes, DialFailsServes, SetConnServes, SubscribeServes, WriteServes,
     WriteFailsServes, ConnectedServes DEF Dialing
<1>2. CASE TakeSignal
  BY <1>2, TakeSignalServes
<1>3. ASSUME NEW c \in Conns,
             Reading(c) \/ Stale(c) \/ PingFails(c) \/ Break(c) \/ Shut(c)
      PROVE  Served'
  BY <1>3, ReceiveServes, PublishServes, ReaderEndsServes, NetworkServes DEF Reading
<1>4. CASE Switching
  BY <1>4, SwitchBeginsServes, DiscoverServes, StoreMarketServes, StoreTokensServes,
     AnnounceServes DEF Switching
<1>5. CASE NextCycle \/ UNCHANGED vars
  <2>1. /\ tokens' = tokens /\ market' = market /\ conns' = conns /\ current' = current
        /\ signal' = signal /\ dial' = dial
    BY <1>5 DEF NextCycle, vars, adapterVars
  <2>2. \A c \in Conns : Keeps(c)
    BY <2>1 DEF Keeps
  <2> QED
    BY <2>1, <2>2, BothKept, KeepsServed
<1> QED
  BY <1>1, <1>2, <1>3, <1>4, <1>5 DEF Next

(* Both invariants hold in every state the adapter reaches.                *)
THEOREM Service == Spec => [](IInv /\ Served)
<1>1. Init => IInv /\ Served
  BY InitInv, InitServes
<1>2. IInv /\ Served /\ [Next]_vars => IInv' /\ Served'
  BY StepInv, StepServes
<1> QED
  BY <1>1, <1>2, PTL DEF Spec

(* Once dials, switch and reconnector are through, a connection in force   *)
(* hears of the tokens the adapter has, although a subscription is written *)
(* to whichever connection is current (439-463).                           *)
THEOREM NobodyIsDeaf == Spec => []SubscribedToItsTokens
<1>1. Served => SubscribedToItsTokens
  BY DEF Served, Heard, SubscribedToItsTokens, Settled, Coming, UnderWay, At, Dialers
<1> QED
  BY <1>1, Service, PTL

(* Outside of a switch a tick carries the prices of the market its name    *)
(* says, unless its connection was replaced (506-630).                     *)
THEOREM TicksCarryTheirMarket == Spec => TicksOfTheirMarket
<1> DEFINE A == \A c \in Conns :
                  conns[c].reader = "tick" /\ conns'[c].reader # "tick" /\ conns[c].live
                    /\ Settled => conns[c].prices = market
<1>1. Served => A
  BY DEF Served, Stamped, Settled, Coming, At, Dialers
<1> QED
  BY <1>1, Service, PTL DEF TicksOfTheirMarket
=============================================================================
