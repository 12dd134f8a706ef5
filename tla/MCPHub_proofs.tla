---------------------------- MODULE MCPHub_proofs ----------------------------
(***************************************************************************)
(* HubInv is an invariant of the hub, for any number of calls of           *)
(* connectServer() and reload() under way at once.                         *)
(***************************************************************************)
EXTENDS MCPHub, TLAPS

Tasks == Flows \cup {"stop"}
ConnRec == [status : {"none", "connecting", "connected", "disconnected", "error"},
            config : Config \cup {None}, limiter : {"none", "live", "destroyed"}, hooked : BOOLEAN,
            link : {"none", "opening", "mute", "open", "closed"}]
FlowRec == [pc : {"idle", "decide", "connect", "closing", "handshake", "listing", "dropping"},
            conn : Connection \cup {0}, config : Config \cup {None}, had : BOOLEAN]

\* A flow that has a connection, or is about to make one, knows which.
FlowInv ==
    /\ \A t \in Tasks : flow[t].pc \in {"closing", "handshake", "listing", "dropping"} => flow[t].conn \in Connection
    /\ \A t \in Tasks : flow[t].pc \in {"connect", "closing"} => flow[t].config \in Config
    /\ phase = "up" => flow["stop"].pc = "idle"
    /\ current # 0 => conn[current].config \in Config

\* A current connection without its handlers is being closed.
HooksInv ==
    current # 0 /\ ~conn[current].hooked =>
        \E t \in Tasks : flow[t].pc \in {"closing", "dropping"} /\ flow[t].conn = current

\* What a connection that is not connected is owed: a timer, the warning that
\* it was given up, a flow that will replace or remove it, or the end of its
\* own handshake.
CareInv ==
    phase = "up" /\ current # 0 /\ conn[current].status # "connected" =>
        \/ timer # None
        \/ gaveUp
        \/ \E t \in Tasks : flow[t].pc \in {"connect", "closing", "dropping"}
        \/ \E t \in Tasks : flow[t].pc = "handshake" /\ flow[t].conn = current

HubIInv == TypeOK /\ FlowInv /\ HooksInv /\ CareInv /\ NoTimerAfterShutdown

LEMMA ConfigFacts ==
    \A g \in Config : g # None /\ [g EXCEPT !.rateLimit = FALSE] \in Config /\ g.rateLimit \in BOOLEAN
<1> SUFFICES ASSUME NEW g \in Config
             PROVE  g # None /\ [g EXCEPT !.rateLimit = FALSE] \in Config /\ g.rateLimit \in BOOLEAN
    OBVIOUS
<1>1. g.command \in Commands /\ g.rateLimit \in BOOLEAN /\ g = [command |-> g.command, rateLimit |-> g.rateLimit]
    BY DEF Config
<1>2. None.command = "none"
    BY DEF None
<1>3. g # None
    BY <1>1, <1>2, HubAssumption
<1>4. [g EXCEPT !.rateLimit = FALSE] \in Config
    BY DEF Config
<1>. QED BY <1>1, <1>3, <1>4

LEMMA TypeFacts ==
    TypeOK <=>
        /\ config \in Config \cup {None}
        /\ current \in Connection \cup {0}
        /\ made \in Connection \cup {0}
        /\ conn \in [Connection -> ConnRec]
        /\ toolCache \in BOOLEAN /\ attempts \in Nat /\ gaveUp \in BOOLEAN
        /\ timer \in Config \cup {None}
        /\ phase \in {"up", "stopping", "down"}
        /\ flow \in [Tasks -> FlowRec]
        /\ reloads \in 0 .. MaxReloads
        /\ faults \in 0 .. MaxFaults
BY DEF TypeOK, ConnRec, FlowRec, Tasks

LEMMA ImpliesHubInv == HubIInv => HubInv
<1> SUFFICES ASSUME HubIInv PROVE HubInv
    OBVIOUS
<1>1. NotForgotten
    BY DEF HubIInv, CareInv, NotForgotten, Working, Tasks
<1>2. LossIsNoticed
    BY DEF HubIInv, HooksInv, LossIsNoticed, Tasks
<1>. QED BY <1>1, <1>2 DEF HubIInv, HubInv

LEMMA FlowFacts ==
    /\ Done \in FlowRec /\ Done.pc = "idle"
    /\ \A pc \in {"idle", "decide", "connect", "closing", "handshake", "listing", "dropping"},
          c \in Connection \cup {0}, g \in Config \cup {None} :
             Flow(pc, c, g) \in FlowRec /\ Flow(pc, c, g).pc = pc /\ Flow(pc, c, g).conn = c /\ Flow(pc, c, g).config = g
BY DEF Done, Flow, FlowRec

LEMMA HubInit == Init => HubIInv
<1> SUFFICES ASSUME Init PROVE HubIInv
    OBVIOUS
<1>1. /\ NoConnection \in ConnRec
      /\ Flow("connect", 0, config) \in FlowRec /\ Flow("connect", 0, config).pc = "connect"
      /\ Flow("connect", 0, config).config = config
    BY FlowFacts DEF NoConnection, ConnRec, Init
<1>2. \A t \in Tasks : flow[t] = Done \/ (t \in Flows /\ flow[t] = Flow("connect", 0, config))
    BY HubAssumption DEF Init, Tasks
<1>3. flow \in [Tasks -> FlowRec]
    BY <1>1, <1>2, FlowFacts DEF Init, Tasks
<1>4. TypeOK
    <2>1. 0 \in Nat /\ MaxReloads \in 0 .. MaxReloads /\ MaxFaults \in 0 .. MaxFaults
        BY HubAssumption
    <2>. QED BY <1>1, <1>3, <2>1, TypeFacts DEF Init
<1>5. FlowInv
    BY <1>1, <1>2, FlowFacts, HubAssumption DEF Init, FlowInv, Tasks
<1>. QED BY <1>4, <1>5 DEF Init, HubIInv, HooksInv, CareInv, NoTimerAfterShutdown

\* handleDisconnection leaves a timer or the warning.
LEMMA Disconnection ==
    ASSUME HubIInv, NEW n \in {1, 2}, handleDisconnection(n)
    PROVE  /\ attempts' \in Nat /\ gaveUp' \in BOOLEAN /\ timer' \in Config \cup {None}
           /\ phase = "up" /\ current # 0 => timer' # None \/ gaveUp'
           /\ phase # "up" => timer' = timer
<1>1. CASE phase = "up" /\ current # 0
    <2>1. /\ attempts' = attempts + n /\ gaveUp' = (attempts' > MaxReconnectAttempts)
          /\ timer' = IF attempts + 1 > MaxReconnectAttempts THEN timer
                      ELSE [conn[current].config EXCEPT !.rateLimit = FALSE]
        BY <1>1 DEF handleDisconnection
    <2>2. attempts \in Nat /\ timer \in Config \cup {None} /\ conn[current].config \in Config /\ MaxReconnectAttempts \in Nat
        BY <1>1, HubAssumption DEF HubIInv, TypeOK, FlowInv
    <2>3. attempts' \in Nat /\ (attempts + 1 > MaxReconnectAttempts => attempts' > MaxReconnectAttempts)
        BY <2>1, <2>2
    <2>4. CASE attempts + 1 > MaxReconnectAttempts
        BY <1>1, <2>1, <2>2, <2>3, <2>4
    <2>5. CASE ~(attempts + 1 > MaxReconnectAttempts)
        <3>1. timer' \in Config /\ timer' # None
            BY <2>1, <2>2, <2>5, ConfigFacts
        <3>. QED BY <1>1, <2>1, <2>3, <3>1
    <2>. QED BY <2>4, <2>5
<1>2. CASE ~(phase = "up" /\ current # 0)
    BY <1>2 DEF handleDisconnection, HubIInv, TypeOK
<1>. QED BY <1>1, <1>2

-----------------------------------------------------------------------------
\* One flow goes on: what FlowInv asks of the flows.
LEMMA FlowGoesOn ==
    ASSUME HubIInv, NEW t \in Tasks, NEW f \in FlowRec, flow' = [flow EXCEPT ![t] = f],
           f.pc \in {"closing", "handshake", "listing", "dropping"} => f.conn \in Connection,
           f.pc \in {"connect", "closing"} => f.config \in Config,
           phase' = "up" => phase = "up" /\ (t = "stop" => f.pc = "idle")
    PROVE  /\ flow' \in [Tasks -> FlowRec]
           /\ flow'[t] = f /\ \A u \in Tasks \ {t} : flow'[u] = flow[u]
           /\ \A u \in Tasks : flow'[u].pc \in {"closing", "handshake", "listing", "dropping"} => flow'[u].conn \in Connection
           /\ \A u \in Tasks : flow'[u].pc \in {"connect", "closing"} => flow'[u].config \in Config
           /\ phase' = "up" => flow'["stop"].pc = "idle"
<1>1. flow \in [Tasks -> FlowRec] /\ FlowInv
    BY TypeFacts DEF HubIInv
<1>2. flow' \in [Tasks -> FlowRec] /\ flow'[t] = f /\ \A u \in Tasks \ {t} : flow'[u] = flow[u]
    BY <1>1
<1>3. "stop" \in Tasks
    BY DEF Tasks
<1>. QED BY <1>1, <1>2, <1>3 DEF FlowInv

\* The new connection is current, has its handlers and its own handshake.
LEMMA OpenStep ==
    ASSUME HubIInv, NEW t \in Flows, NEW g \in Config, NEW live \in [Connection -> ConnRec],
           Open(t, g, live), UNCHANGED <<config, toolCache, attempts, timer, phase, reloads>>
    PROVE  HubIInv'
<1> USE DEF HubIInv
<1>1. t \in Tasks /\ t # "stop"
    BY HubAssumption DEF Tasks
<1>2. PICK mute \in {FALSE} \cup {faults > 0} :
         /\ made < MaxConnections /\ made' = made + 1 /\ current' = made' /\ gaveUp' = FALSE
         /\ conn' = [live EXCEPT ![made'] =
                     [status |-> "connecting", config |-> g, hooked |-> TRUE,
                      limiter |-> IF g.rateLimit THEN "live" ELSE "none",
                      link |-> IF mute THEN "mute" ELSE "opening"]]
         /\ faults' = IF mute THEN faults - 1 ELSE faults
         /\ flow' = [flow EXCEPT ![t] = Flow("handshake", made', None)]
    BY DEF Open
<1>3. made' \in Connection /\ made' # 0
    BY <1>2, HubAssumption DEF TypeOK, Connection
<1> DEFINE r == [status |-> "connecting", config |-> g, hooked |-> TRUE,
                 limiter |-> IF g.rateLimit THEN "live" ELSE "none",
                 link |-> IF mute THEN "mute" ELSE "opening"]
<1>4. r \in ConnRec /\ r.config = g /\ r.hooked = TRUE
    BY DEF ConnRec
<1>5. conn' = [live EXCEPT ![made'] = r]
    BY <1>2
<1> HIDE DEF r
<1>6. conn' \in [Connection -> ConnRec] /\ conn'[made'] = r
    BY <1>3, <1>4, <1>5
<1> DEFINE f == Flow("handshake", made', None)
<1>7. f \in FlowRec /\ f.pc = "handshake" /\ f.conn = made'
    BY <1>3, FlowFacts
<1>8. flow' = [flow EXCEPT ![t] = f]
    BY <1>2
<1> HIDE DEF f
<1>9. /\ flow' \in [Tasks -> FlowRec] /\ flow'[t] = f
      /\ \A u \in Tasks : flow'[u].pc \in {"closing", "handshake", "listing", "dropping"} => flow'[u].conn \in Connection
      /\ \A u \in Tasks : flow'[u].pc \in {"connect", "closing"} => flow'[u].config \in Config
      /\ phase' = "up" => flow'["stop"].pc = "idle"
    <2>1. phase' = "up" => phase = "up" /\ (t = "stop" => f.pc = "idle")
        BY <1>1
    <2>2. f.pc \in {"closing", "handshake", "listing", "dropping"} => f.conn \in Connection
        BY <1>3, <1>7
    <2>3. f.pc \in {"connect", "closing"} => f.config \in Config
        BY <1>7
    <2>. QED BY <1>1, <1>7, <1>8, <2>1, <2>2, <2>3, FlowGoesOn
<1>10. TypeOK'
    <2>1. faults' \in 0 .. MaxFaults
        <3>1. mute => faults > 0
            BY <1>2
        <3>. QED BY <1>2, <3>1, HubAssumption DEF TypeOK
    <2>. QED BY <1>2, <1>3, <1>6, <1>9, <2>1 DEF TypeOK, ConnRec, FlowRec, Tasks
<1>11. FlowInv'
    BY <1>2, <1>4, <1>6, <1>9 DEF FlowInv
<1>12. HooksInv'
    BY <1>2, <1>4, <1>6 DEF HooksInv
<1>13. CareInv'
    BY <1>1, <1>2, <1>7, <1>9 DEF CareInv
<1>14. NoTimerAfterShutdown'
    BY DEF NoTimerAfterShutdown
<1>. QED BY <1>10, <1>11, <1>12, <1>13, <1>14

\* What a change of one field does to a connection.
LEMMA ConnFacts ==
    ASSUME NEW r \in ConnRec, NEW l \in {"open", "closed"},
           NEW st \in {"connected", "disconnected", "error"}
    PROVE  /\ r.config \in Config \cup {None} /\ r.hooked \in BOOLEAN
           /\ [r EXCEPT !.link = l] \in ConnRec
           /\ [r EXCEPT !.link = l].config = r.config /\ [r EXCEPT !.link = l].hooked = r.hooked
           /\ [r EXCEPT !.link = l].status = r.status
           /\ [r EXCEPT !.status = st] \in ConnRec
           /\ [r EXCEPT !.status = st].config = r.config /\ [r EXCEPT !.status = st].hooked = r.hooked
           /\ [r EXCEPT !.status = st].status = st
           /\ [r EXCEPT !.link = l, !.status = st] \in ConnRec
           /\ [r EXCEPT !.link = l, !.status = st].config = r.config
           /\ [r EXCEPT !.link = l, !.status = st].hooked = r.hooked
BY DEF ConnRec

\* Unhooked keeps all but the handlers and the limiter.
LEMMA UnhookedFacts ==
    ASSUME HubIInv, NEW c \in Connection
    PROVE  Unhooked(c) \in ConnRec /\ Unhooked(c).config = conn[c].config
<1>1. conn[c] \in ConnRec
    BY TypeFacts DEF HubIInv
<1>. QED BY <1>1 DEF Unhooked, ConnRec

LEMMA ConnectStep == ASSUME HubIInv, NEW t \in Flows, connectServer(t) PROVE HubIInv'
<1> USE DEF HubIInv
<1>1. t \in Tasks /\ t # "stop" /\ flow[t] \in FlowRec
    BY HubAssumption, TypeFacts DEF Tasks
<1>2. flow[t].pc = "connect" /\ flow[t].config \in Config /\ UNCHANGED <<config, toolCache, attempts, timer, phase, reloads>>
    BY <1>1 DEF connectServer, FlowInv
<1>3. CASE phase # "up" /\ flow' = [flow EXCEPT ![t] = Done] /\ UNCHANGED <<current, made, conn, gaveUp, faults>>
    <2>1. /\ flow' \in [Tasks -> FlowRec] /\ flow'[t] = Done /\ \A u \in Tasks \ {t} : flow'[u] = flow[u]
          /\ \A u \in Tasks : flow'[u].pc \in {"closing", "handshake", "listing", "dropping"} => flow'[u].conn \in Connection
          /\ \A u \in Tasks : flow'[u].pc \in {"connect", "closing"} => flow'[u].config \in Config
          /\ phase' = "up" => flow'["stop"].pc = "idle"
        <3> DEFINE f == Done
        <3>1. f \in FlowRec /\ f.pc = "idle" /\ flow' = [flow EXCEPT ![t] = f]
            BY <1>3, FlowFacts
        <3>2. (phase' = "up" => phase = "up") /\ f = Done
            BY <1>2
        <3> HIDE DEF f, HubIInv
        <3>. QED BY <1>1, <3>1, <3>2, FlowGoesOn
    <2>2. TypeOK'
        BY <1>2, <1>3, <2>1 DEF TypeOK, ConnRec, FlowRec, Tasks
    <2>3. FlowInv'
        BY <1>2, <1>3, <2>1 DEF FlowInv
    <2>4. HooksInv'
        BY <1>1, <1>2, <1>3, <2>1 DEF HooksInv
    <2>. QED BY <1>2, <1>3, <2>2, <2>3, <2>4 DEF CareInv, NoTimerAfterShutdown
<1>4. CASE /\ phase = "up" /\ current # 0
           /\ conn' = [conn EXCEPT ![current] = Unhooked(current)]
           /\ flow' = [flow EXCEPT ![t] = Flow("closing", current, flow[t].config)]
           /\ UNCHANGED <<current, made, gaveUp, faults>>
    <2> DEFINE f == Flow("closing", current, flow[t].config)
               r == Unhooked(current)
    <2>1. current \in Connection
        BY <1>4 DEF TypeOK
    <2>2. f \in FlowRec /\ f.pc = "closing" /\ f.conn = current /\ f.config \in Config
        BY <1>2, <2>1, FlowFacts
    <2>3. r \in ConnRec /\ r.config = conn[current].config
        BY <2>1, UnhookedFacts
    <2>4. flow' = [flow EXCEPT ![t] = f] /\ conn' = [conn EXCEPT ![current] = r]
        BY <1>4
    <2> HIDE DEF f, r
    <2>5. /\ flow' \in [Tasks -> FlowRec] /\ flow'[t] = f /\ \A u \in Tasks \ {t} : flow'[u] = flow[u]
          /\ \A u \in Tasks : flow'[u].pc \in {"closing", "handshake", "listing", "dropping"} => flow'[u].conn \in Connection
          /\ \A u \in Tasks : flow'[u].pc \in {"connect", "closing"} => flow'[u].config \in Config
          /\ phase' = "up" => flow'["stop"].pc = "idle"
        BY <1>1, <1>2, <2>1, <2>2, <2>4, FlowGoesOn
    <2>6. conn' \in [Connection -> ConnRec] /\ conn'[current] = r
        BY <2>1, <2>3, <2>4, TypeFacts
    <2>7. TypeOK'
        BY <1>2, <1>4, <2>5, <2>6 DEF TypeOK, ConnRec, FlowRec, Tasks
    <2>8. FlowInv'
        BY <1>2, <1>4, <2>3, <2>5, <2>6 DEF FlowInv
    <2>9. HooksInv'
        BY <1>1, <1>4, <2>2, <2>5 DEF HooksInv
    <2>10. CareInv'
        BY <1>1, <2>2, <2>5 DEF CareInv
    <2>. QED BY <1>2, <2>7, <2>8, <2>9, <2>10 DEF NoTimerAfterShutdown
<1>5. CASE Open(t, flow[t].config, conn)
    <2>1. conn \in [Connection -> ConnRec]
        BY TypeFacts
    <2>. QED BY <1>2, <1>5, <2>1, OpenStep
<1>. QED BY <1>3, <1>4, <1>5 DEF connectServer

LEMMA ClosedStep == ASSUME HubIInv, NEW t \in Flows, closed(t) PROVE HubIInv'
<1> USE DEF HubIInv
<1>1. t \in Tasks
    BY DEF Tasks
<1>2. /\ flow[t].config \in Config /\ flow[t].conn \in Connection
      /\ Open(t, flow[t].config, [conn EXCEPT ![flow[t].conn].link = "closed"])
      /\ UNCHANGED <<config, toolCache, attempts, timer, phase, reloads>>
    BY <1>1 DEF closed, FlowInv
<1>3. conn \in [Connection -> ConnRec]
    BY TypeFacts
<1>4. [conn EXCEPT ![flow[t].conn].link = "closed"] \in [Connection -> ConnRec]
    BY <1>2, <1>3, ConnFacts
<1>. QED BY <1>2, <1>4, OpenStep

LEMMA AnsweredStep == ASSUME HubIInv, NEW t \in Flows, answered(t) PROVE HubIInv'
<1> USE DEF HubIInv
<1> DEFINE c == flow[t].conn
           f == Flow("listing", c, None)
           r == [conn[c] EXCEPT !.link = "open", !.status = "connected"]
<1>1. t \in Tasks /\ t # "stop"
    BY HubAssumption DEF Tasks
<1>2. flow[t].pc = "handshake" /\ c \in Connection
    BY <1>1 DEF answered, FlowInv
<1>3. /\ conn' = [conn EXCEPT ![c] = r] /\ attempts' = 0 /\ flow' = [flow EXCEPT ![t] = f]
      /\ UNCHANGED <<config, current, made, toolCache, gaveUp, timer, phase, reloads, faults>>
    BY DEF answered
<1>4. conn[c] \in ConnRec
    BY <1>2, TypeFacts
<1>5. r \in ConnRec /\ r.config = conn[c].config /\ r.hooked = conn[c].hooked /\ r.status = "connected"
    BY <1>4 DEF ConnRec
<1>6. f \in FlowRec /\ f.pc = "listing" /\ f.conn = c
    BY <1>2, FlowFacts
<1> HIDE DEF f, r, c
<1>7. /\ flow' \in [Tasks -> FlowRec] /\ flow'[t] = f /\ \A u \in Tasks \ {t} : flow'[u] = flow[u]
      /\ \A u \in Tasks : flow'[u].pc \in {"closing", "handshake", "listing", "dropping"} => flow'[u].conn \in Connection
      /\ \A u \in Tasks : flow'[u].pc \in {"connect", "closing"} => flow'[u].config \in Config
      /\ phase' = "up" => flow'["stop"].pc = "idle"
    BY <1>1, <1>2, <1>3, <1>6, FlowGoesOn
<1>8. conn' \in [Connection -> ConnRec] /\ conn'[c] = r /\ \A d \in Connection \ {c} : conn'[d] = conn[d]
    BY <1>2, <1>3, <1>5, TypeFacts
<1>9. TypeOK'
    BY <1>3, <1>7, <1>8 DEF TypeOK, ConnRec, FlowRec, Tasks
<1>10. current # 0 => current \in Connection /\ conn'[current].config = conn[current].config
                      /\ conn'[current].hooked = conn[current].hooked
    BY <1>5, <1>8 DEF TypeOK
<1>11. FlowInv'
    BY <1>3, <1>7, <1>10 DEF FlowInv
<1>12. HooksInv'
    BY <1>2, <1>3, <1>7, <1>10 DEF HooksInv
<1>13. CareInv'
    <2>1. CASE current = c
        BY <1>3, <1>5, <1>8, <2>1 DEF CareInv
    <2>2. CASE current # c
        <3>1. current # 0 => conn'[current] = conn[current]
            BY <1>8, <1>10, <2>2
        <3>2. flow[t].conn # current
            BY <2>2 DEF c
        <3>. QED BY <1>2, <1>3, <1>7, <3>1, <3>2 DEF CareInv
    <2>. QED BY <2>1, <2>2
<1>. QED BY <1>3, <1>9, <1>11, <1>12, <1>13 DEF NoTimerAfterShutdown

\* The connections keep their configurations and handlers, and someone cares
\* for the current one.
LEMMA LossStep ==
    ASSUME HubIInv, conn' \in [Connection -> ConnRec],
           \A c \in Connection : conn'[c].config = conn[c].config /\ conn'[c].hooked = conn[c].hooked,
           NEW n \in {1, 2}, handleDisconnection(n), faults' \in 0 .. MaxFaults,
           UNCHANGED <<config, current, made, toolCache, phase, reloads>>,
           flow' = flow \/ \E t \in Flows : flow[t].pc = "handshake" /\ flow' = [flow EXCEPT ![t] = Done]
    PROVE  HubIInv'
<1> USE DEF HubIInv
<1>1. /\ attempts' \in Nat /\ gaveUp' \in BOOLEAN /\ timer' \in Config \cup {None}
      /\ phase = "up" /\ current # 0 => timer' # None \/ gaveUp'
      /\ phase # "up" => timer' = timer
    BY Disconnection
<1>2. /\ flow' \in [Tasks -> FlowRec]
      /\ \A u \in Tasks : flow[u].pc \in {"closing", "dropping"} => flow'[u] = flow[u]
      /\ \A u \in Tasks : flow'[u].pc \in {"closing", "handshake", "listing", "dropping"} => flow'[u].conn \in Connection
      /\ \A u \in Tasks : flow'[u].pc \in {"connect", "closing"} => flow'[u].config \in Config
      /\ phase' = "up" => flow'["stop"].pc = "idle"
    <2>1. CASE flow' = flow
        BY <2>1, TypeFacts DEF FlowInv
    <2>2. CASE \E t \in Flows : flow[t].pc = "handshake" /\ flow' = [flow EXCEPT ![t] = Done]
        <3>1. PICK t \in Flows : flow[t].pc = "handshake" /\ flow' = [flow EXCEPT ![t] = Done]
            BY <2>2
        <3>2. t \in Tasks /\ t # "stop"
            BY HubAssumption DEF Tasks
        <3>3. /\ flow' \in [Tasks -> FlowRec] /\ flow'[t] = Done /\ \A u \in Tasks \ {t} : flow'[u] = flow[u]
              /\ \A u \in Tasks : flow'[u].pc \in {"closing", "handshake", "listing", "dropping"} => flow'[u].conn \in Connection
              /\ \A u \in Tasks : flow'[u].pc \in {"connect", "closing"} => flow'[u].config \in Config
              /\ phase' = "up" => flow'["stop"].pc = "idle"
            <4>1. phase' = "up" => phase = "up" /\ (t = "stop" => Done.pc = "idle")
                BY <3>2
            <4>2. Done.pc = "idle" /\ Done \in FlowRec
                BY FlowFacts
            <4>. QED BY <3>1, <3>2, <4>1, <4>2, FlowGoesOn
        <3>. QED BY <3>1, <3>3
    <2>. QED BY <2>1, <2>2
<1>3. TypeOK'
    BY <1>1, <1>2 DEF TypeOK, ConnRec, FlowRec, Tasks
<1>4. current # 0 => current \in Connection
    BY DEF TypeOK
<1>5. FlowInv'
    BY <1>2, <1>4 DEF FlowInv
<1>6. HooksInv'
    BY <1>2, <1>4 DEF HooksInv
<1>7. CareInv'
    BY <1>1 DEF CareInv
<1>. QED BY <1>1, <1>3, <1>5, <1>6, <1>7 DEF NoTimerAfterShutdown

LEMMA FailedStep ==
    ASSUME HubIInv, NEW t \in Flows, flow[t].pc = "handshake", NEW live \in [Connection -> ConnRec],
           \A c \in Connection : live[c].config = conn[c].config /\ live[c].hooked = conn[c].hooked,
           NEW n \in {1, 2}, Failed(t, live, n), faults' \in 0 .. MaxFaults,
           UNCHANGED <<config, current, made, toolCache, phase, reloads>>
    PROVE  HubIInv'
<1>1. /\ conn' = IF current = 0 THEN live ELSE [live EXCEPT ![current].status = "error"]
      /\ handleDisconnection(n) /\ flow' = [flow EXCEPT ![t] = Done]
    BY DEF Failed
<1>2. current # 0 => current \in Connection
    BY DEF HubIInv, TypeOK
<1>3. /\ conn' \in [Connection -> ConnRec]
      /\ \A c \in Connection : conn'[c].config = conn[c].config /\ conn'[c].hooked = conn[c].hooked
    <2>1. CASE current = 0
        BY <1>1, <2>1
    <2>2. CASE current # 0
        <3> DEFINE r == [live[current] EXCEPT !.status = "error"]
        <3>1. r \in ConnRec /\ r.config = live[current].config /\ r.hooked = live[current].hooked
            BY <1>2, <2>2, ConnFacts
        <3>2. conn' = [live EXCEPT ![current] = r]
            BY <1>1, <2>2
        <3> HIDE DEF r
        <3>3. conn' \in [Connection -> ConnRec] /\ \A c \in Connection : conn'[c] = IF c = current THEN r ELSE live[c]
            BY <1>2, <2>2, <3>1, <3>2
        <3>. QED BY <3>1, <3>3
    <2>. QED BY <2>1, <2>2
<1>. QED BY <1>1, <1>3, LossStep

LEMMA TimedOutStep == ASSUME HubIInv, NEW t \in Flows, timedOut(t) PROVE HubIInv'
<1>1. /\ flow[t].pc = "handshake" /\ Failed(t, conn, 1)
      /\ UNCHANGED <<config, current, made, toolCache, phase, reloads>>
      /\ (faults > 0 /\ faults' = faults - 1) \/ faults' = faults
    BY DEF timedOut
<1>2. faults' \in 0 .. MaxFaults /\ conn \in [Connection -> ConnRec]
    BY <1>1, TypeFacts, HubAssumption DEF HubIInv, TypeOK
<1>. QED BY <1>1, <1>2, FailedStep

LEMMA RefusedStep == ASSUME HubIInv, NEW t \in Flows, refused(t) PROVE HubIInv'
<1> DEFINE c == flow[t].conn
           r == [conn[c] EXCEPT !.link = "closed"]
           q == [conn[c] EXCEPT !.link = "closed", !.status = "error"]
           live == [conn EXCEPT ![c] = r]
           faulty == [conn EXCEPT ![c] = q]
<1>1. t \in Tasks
    BY DEF Tasks
<1>2. /\ flow[t].pc = "handshake" /\ c \in Connection
      /\ UNCHANGED <<config, current, made, toolCache, phase, reloads>>
      /\ faults > 0 /\ faults' = faults - 1
    BY <1>1 DEF refused, HubIInv, FlowInv
<1>3. \/ Failed(t, live, 1)
      \/ Failed(t, faulty, 2)
      \/ conn' = live /\ UNCHANGED <<attempts, gaveUp, timer, flow>>
    BY DEF refused
<1>4. conn[c] \in ConnRec
    BY <1>2, TypeFacts DEF HubIInv
<1>5. /\ r \in ConnRec /\ r.config = conn[c].config /\ r.hooked = conn[c].hooked /\ r.status = conn[c].status
      /\ q \in ConnRec /\ q.config = conn[c].config /\ q.hooked = conn[c].hooked
    BY <1>4, ConnFacts
<1>6. faults' \in 0 .. MaxFaults /\ conn \in [Connection -> ConnRec]
    BY <1>2, TypeFacts, HubAssumption DEF HubIInv, TypeOK
<1> HIDE DEF r, q, c
<1>7. /\ live \in [Connection -> ConnRec] /\ faulty \in [Connection -> ConnRec]
      /\ \A d \in Connection : live[d].config = conn[d].config /\ live[d].hooked = conn[d].hooked /\ live[d].status = conn[d].status
      /\ \A d \in Connection : faulty[d].config = conn[d].config /\ faulty[d].hooked = conn[d].hooked
    BY <1>2, <1>5, <1>6
<1> HIDE DEF live, faulty
<1>8. CASE Failed(t, live, 1)
    BY <1>2, <1>6, <1>7, <1>8, FailedStep
<1>9. CASE Failed(t, faulty, 2)
    BY <1>2, <1>6, <1>7, <1>9, FailedStep
<1>10. CASE conn' = live /\ UNCHANGED <<attempts, gaveUp, timer, flow>>
    <2> USE DEF HubIInv
    <2>1. TypeOK'
        BY <1>2, <1>6, <1>7, <1>10 DEF TypeOK, ConnRec, FlowRec, Tasks
    <2>2. current # 0 => current \in Connection
        BY DEF TypeOK
    <2>3. FlowInv' /\ HooksInv' /\ CareInv'
        BY <1>2, <1>7, <1>10, <2>2 DEF FlowInv, HooksInv, CareInv
    <2>. QED BY <1>2, <1>10, <2>1, <2>3 DEF NoTimerAfterShutdown
<1>. QED BY <1>3, <1>8, <1>9, <1>10

LEMMA OnErrorStep == ASSUME HubIInv, NEW c \in Connection, onerror(c) PROVE HubIInv'
<1> DEFINE r == [conn[c] EXCEPT !.status = "error"]
<1>1. /\ faults > 0 /\ faults' = faults - 1 /\ conn' = [conn EXCEPT ![c] = r] /\ handleDisconnection(1)
      /\ UNCHANGED <<config, current, made, toolCache, phase, flow, reloads>>
    BY DEF onerror
<1>2. conn \in [Connection -> ConnRec] /\ faults' \in 0 .. MaxFaults
    BY <1>1, TypeFacts, HubAssumption DEF HubIInv, TypeOK
<1>3. r \in ConnRec /\ r.config = conn[c].config /\ r.hooked = conn[c].hooked
    BY <1>2, ConnFacts
<1> HIDE DEF r
<1>4. /\ conn' \in [Connection -> ConnRec]
      /\ \A d \in Connection : conn'[d].config = conn[d].config /\ conn'[d].hooked = conn[d].hooked
    BY <1>1, <1>2, <1>3
<1>. QED BY <1>1, <1>2, <1>4, LossStep

LEMMA OnCloseStep == ASSUME HubIInv, NEW c \in Connection, onclose(c) PROVE HubIInv'
<1> DEFINE r == [conn[c] EXCEPT !.link = "closed", !.status = "disconnected"]
           q == [conn[c] EXCEPT !.link = "closed"]
<1>1. /\ faults > 0 /\ faults' = faults - 1
      /\ UNCHANGED <<config, current, made, toolCache, phase, flow, reloads>>
      /\ \/ conn' = [conn EXCEPT ![c] = r] /\ handleDisconnection(1)
         \/ conn' = [conn EXCEPT ![c] = q] /\ UNCHANGED <<attempts, gaveUp, timer>>
    BY DEF onclose
<1>2. conn \in [Connection -> ConnRec] /\ faults' \in 0 .. MaxFaults
    BY <1>1, TypeFacts, HubAssumption DEF HubIInv, TypeOK
<1>3. /\ r \in ConnRec /\ r.config = conn[c].config /\ r.hooked = conn[c].hooked
      /\ q \in ConnRec /\ q.config = conn[c].config /\ q.hooked = conn[c].hooked /\ q.status = conn[c].status
    BY <1>2, ConnFacts
<1> HIDE DEF r, q
<1>4. CASE conn' = [conn EXCEPT ![c] = r] /\ handleDisconnection(1)
    <2>1. /\ conn' \in [Connection -> ConnRec]
          /\ \A d \in Connection : conn'[d].config = conn[d].config /\ conn'[d].hooked = conn[d].hooked
        BY <1>2, <1>3, <1>4
    <2>. QED BY <1>1, <1>2, <1>4, <2>1, LossStep
<1>5. CASE conn' = [conn EXCEPT ![c] = q] /\ UNCHANGED <<attempts, gaveUp, timer>>
    <2> USE DEF HubIInv
    <2>1. /\ conn' \in [Connection -> ConnRec]
          /\ \A d \in Connection : conn'[d].config = conn[d].config /\ conn'[d].hooked = conn[d].hooked /\ conn'[d].status = conn[d].status
        BY <1>2, <1>3, <1>5
    <2>2. TypeOK'
        BY <1>1, <1>2, <1>5, <2>1 DEF TypeOK, ConnRec, FlowRec, Tasks
    <2>3. current # 0 => current \in Connection
        BY DEF TypeOK
    <2>4. FlowInv' /\ HooksInv' /\ CareInv'
        BY <1>1, <1>5, <2>1, <2>3 DEF FlowInv, HooksInv, CareInv
    <2>. QED BY <1>1, <1>5, <2>2, <2>4 DEF NoTimerAfterShutdown
<1>. QED BY <1>1, <1>4, <1>5

-----------------------------------------------------------------------------
\* A flow goes on that no one counts on, and nothing else changes that the
\* invariant is about: only the timer may be turned into a connect.
LEMMA SpareFlow ==
    ASSUME HubIInv, NEW t \in Flows, flow[t].pc \in {"idle", "decide", "listing"},
           NEW f \in FlowRec, flow' = [flow EXCEPT ![t] = f],
           f.pc \in {"idle", "decide"} \/ (f.pc = "connect" /\ f.config \in Config),
           timer' = timer \/ (timer' = None /\ f.pc = "connect"),
           config' \in Config \cup {None}, toolCache' \in BOOLEAN, reloads' \in 0 .. MaxReloads,
           UNCHANGED <<current, made, conn, attempts, gaveUp, phase, faults>>
    PROVE  HubIInv'
<1> USE DEF HubIInv
<1>1. t \in Tasks /\ t # "stop"
    BY HubAssumption DEF Tasks
<1>2. /\ flow' \in [Tasks -> FlowRec] /\ flow'[t] = f /\ \A u \in Tasks \ {t} : flow'[u] = flow[u]
      /\ \A u \in Tasks : flow'[u].pc \in {"closing", "handshake", "listing", "dropping"} => flow'[u].conn \in Connection
      /\ \A u \in Tasks : flow'[u].pc \in {"connect", "closing"} => flow'[u].config \in Config
      /\ phase' = "up" => flow'["stop"].pc = "idle"
    BY <1>1, FlowGoesOn
<1>3. TypeOK'
    BY <1>2 DEF TypeOK, ConnRec, FlowRec, Tasks
<1>4. FlowInv'
    BY <1>2 DEF FlowInv
<1>5. HooksInv'
    BY <1>2 DEF HooksInv
<1>6. CareInv'
    <2>1. CASE f.pc = "connect"
        BY <1>1, <1>2, <2>1 DEF CareInv
    <2>2. CASE timer' = timer
        BY <1>2, <2>2 DEF CareInv
    <2>. QED BY <2>1, <2>2
<1>. QED BY <1>3, <1>4, <1>5, <1>6 DEF NoTimerAfterShutdown

LEMMA ListedStep == ASSUME HubIInv, NEW t \in Flows, listed(t) PROVE HubIInv'
<1>1. /\ flow[t].pc = "listing" /\ toolCache' \in {toolCache, conn[flow[t].conn].link = "open" \/ toolCache}
      /\ flow' = [flow EXCEPT ![t] = Done]
      /\ UNCHANGED <<config, current, made, conn, attempts, gaveUp, timer, phase, reloads, faults>>
    BY DEF listed
<1>2. toolCache' \in BOOLEAN
    BY <1>1 DEF HubIInv, TypeOK
<1>3. config' \in Config \cup {None} /\ reloads' \in 0 .. MaxReloads
    BY <1>1 DEF HubIInv, TypeOK
<1>. QED BY <1>1, <1>2, <1>3, FlowFacts, SpareFlow

LEMMA ReconnectStep == ASSUME HubIInv, NEW t \in Flows, reconnect(t) PROVE HubIInv'
<1> DEFINE f == Flow("connect", 0, timer)
<1>1. /\ timer # None /\ flow[t] = Done /\ timer' = None /\ flow' = [flow EXCEPT ![t] = f]
      /\ UNCHANGED <<config, current, made, conn, toolCache, attempts, gaveUp, phase, reloads, faults>>
    BY DEF reconnect
<1>2. timer \in Config
    BY <1>1 DEF HubIInv, TypeOK
<1>3. f \in FlowRec /\ f.pc = "connect" /\ f.config = timer
    BY <1>2, FlowFacts
<1>4. config' \in Config \cup {None} /\ reloads' \in 0 .. MaxReloads /\ toolCache' \in BOOLEAN
    BY <1>1 DEF HubIInv, TypeOK
<1> HIDE DEF f
<1>5. flow[t].pc = "idle" /\ f.config \in Config
    BY <1>1, <1>2, <1>3, FlowFacts
<1>. QED BY <1>1, <1>3, <1>4, <1>5, SpareFlow

LEMMA ReloadStep == ASSUME HubIInv, NEW t \in Flows, reload(t) PROVE HubIInv'
<1> DEFINE f == [Flow("decide", 0, config') EXCEPT !.had = current # 0]
<1>1. /\ flow[t] = Done /\ reloads > 0 /\ reloads' = reloads - 1
      /\ config' \in Config \cup {None} /\ flow' = [flow EXCEPT ![t] = f]
      /\ UNCHANGED <<current, made, conn, toolCache, attempts, gaveUp, timer, phase, faults>>
    BY DEF reload
<1>2. Flow("decide", 0, config') \in FlowRec /\ Flow("decide", 0, config').pc = "decide"
    BY <1>1, FlowFacts
<1>3. f \in FlowRec /\ f.pc = "decide"
    BY <1>2 DEF FlowRec
<1>4. reloads' \in 0 .. MaxReloads /\ toolCache' \in BOOLEAN
    BY <1>1, HubAssumption DEF HubIInv, TypeOK
<1> HIDE DEF f
<1>5. flow[t].pc = "idle"
    BY <1>1, FlowFacts
<1>. QED BY <1>1, <1>3, <1>4, <1>5, SpareFlow

\* disconnectServer takes the timer away and stands in for it.
LEMMA DisconnectStep ==
    ASSUME HubIInv, NEW t \in Tasks, NEW g \in Config \cup {None},
           flow[t].pc \in {"idle", "decide"}, disconnectServer(t, g),
           t = "stop" => phase' = "stopping", phase' \in {phase, "stopping"},
           UNCHANGED <<config, current, made, toolCache, attempts, gaveUp, reloads, faults>>
    PROVE  HubIInv'
<1> USE DEF HubIInv
<1>1. phase' = "up" => phase = "up" /\ t # "stop"
    OBVIOUS
<1>2. timer' = None
    BY DEF disconnectServer
<1>3. CASE current = 0
    <2> DEFINE f == IF g = None THEN Done ELSE Flow("connect", 0, g)
    <2>1. flow' = [flow EXCEPT ![t] = f] /\ conn' = conn
        BY <1>3 DEF disconnectServer
    <2>2. f \in FlowRec /\ (f.pc = "idle" \/ (f.pc = "connect" /\ f.config \in Config))
        BY FlowFacts
    <2> HIDE DEF f
    <2>3. /\ flow' \in [Tasks -> FlowRec]
          /\ \A u \in Tasks : flow'[u].pc \in {"closing", "handshake", "listing", "dropping"} => flow'[u].conn \in Connection
          /\ \A u \in Tasks : flow'[u].pc \in {"connect", "closing"} => flow'[u].config \in Config
          /\ phase' = "up" => flow'["stop"].pc = "idle"
        BY <1>1, <2>1, <2>2, FlowGoesOn
    <2>4. TypeOK'
        BY <1>2, <2>1, <2>3 DEF TypeOK, ConnRec, FlowRec, Tasks
    <2>. QED BY <1>2, <1>3, <2>3, <2>4 DEF FlowInv, HooksInv, CareInv, NoTimerAfterShutdown
<1>4. CASE current # 0
    <2> DEFINE f == Flow("dropping", current, g)
               r == Unhooked(current)
    <2>1. flow' = [flow EXCEPT ![t] = f] /\ conn' = [conn EXCEPT ![current] = r]
        BY <1>4 DEF disconnectServer
    <2>2. current \in Connection
        BY <1>4 DEF TypeOK
    <2>3. f \in FlowRec /\ f.pc = "dropping" /\ f.conn = current
        BY <2>2, FlowFacts
    <2>4. r \in ConnRec /\ r.config = conn[current].config
        BY <2>2, UnhookedFacts
    <2> HIDE DEF f, r
    <2>5. /\ flow' \in [Tasks -> FlowRec] /\ flow'[t] = f
          /\ \A u \in Tasks : flow'[u].pc \in {"closing", "handshake", "listing", "dropping"} => flow'[u].conn \in Connection
          /\ \A u \in Tasks : flow'[u].pc \in {"connect", "closing"} => flow'[u].config \in Config
          /\ phase' = "up" => flow'["stop"].pc = "idle"
        BY <1>1, <2>1, <2>2, <2>3, FlowGoesOn
    <2>6. conn' \in [Connection -> ConnRec] /\ conn'[current] = r
        BY <2>1, <2>2, <2>4, TypeFacts
    <2>7. TypeOK'
        BY <1>2, <2>5, <2>6 DEF TypeOK, ConnRec, FlowRec, Tasks
    <2>8. FlowInv'
        BY <1>4, <2>4, <2>5, <2>6 DEF FlowInv
    <2>9. HooksInv' /\ CareInv'
        BY <2>3, <2>5 DEF HooksInv, CareInv
    <2>. QED BY <1>2, <2>7, <2>8, <2>9 DEF NoTimerAfterShutdown
<1>. QED BY <1>3, <1>4

LEMMA DecideStep == ASSUME HubIInv, NEW t \in Flows, decide(t) PROVE HubIInv'
<1> DEFINE g == flow[t].config
<1>1. t \in Tasks /\ t # "stop"
    BY HubAssumption DEF Tasks
<1>2. flow[t].pc = "decide" /\ g \in Config \cup {None}
    <2>1. flow[t] \in FlowRec
        BY <1>1, TypeFacts DEF HubIInv
    <2>. QED BY <2>1 DEF decide, FlowRec
<1>3. UNCHANGED <<config, current, made, toolCache, attempts, gaveUp, phase, reloads, faults>>
    BY DEF decide
<1>4. \/ disconnectServer(t, None)
      \/ g # None /\ flow' = [flow EXCEPT ![t] = Flow("connect", 0, g)] /\ UNCHANGED <<conn, timer>>
      \/ disconnectServer(t, g)
      \/ flow' = [flow EXCEPT ![t] = Done] /\ UNCHANGED <<conn, timer>>
    BY DEF decide
<1> HIDE DEF g
<1>5. config' \in Config \cup {None} /\ reloads' \in 0 .. MaxReloads /\ toolCache' \in BOOLEAN
    BY <1>3 DEF HubIInv, TypeOK
<1>6. CASE disconnectServer(t, None) \/ disconnectServer(t, g)
    BY <1>1, <1>2, <1>3, <1>6, DisconnectStep
<1>7. CASE g # None /\ flow' = [flow EXCEPT ![t] = Flow("connect", 0, g)] /\ UNCHANGED <<conn, timer>>
    <2> DEFINE f == Flow("connect", 0, g)
    <2>1. f \in FlowRec /\ f.pc = "connect" /\ f.config \in Config
        BY <1>2, <1>7, FlowFacts
    <2>2. flow' = [flow EXCEPT ![t] = f]
        BY <1>7
    <2> HIDE DEF f
    <2>. QED BY <1>2, <1>3, <1>5, <1>7, <2>1, <2>2, SpareFlow
<1>8. CASE flow' = [flow EXCEPT ![t] = Done] /\ UNCHANGED <<conn, timer>>
    BY <1>2, <1>3, <1>5, <1>8, FlowFacts, SpareFlow
<1>. QED BY <1>4, <1>6, <1>7, <1>8

LEMMA ShutdownStep == ASSUME HubIInv, shutdown PROVE HubIInv'
<1>1. /\ phase = "up" /\ phase' = "stopping" /\ disconnectServer("stop", None)
      /\ UNCHANGED <<config, current, made, toolCache, attempts, gaveUp, reloads, faults>>
    BY DEF shutdown
<1>2. "stop" \in Tasks /\ flow["stop"].pc = "idle"
    BY <1>1 DEF Tasks, HubIInv, FlowInv
<1>. QED BY <1>1, <1>2, DisconnectStep

LEMMA DroppedStep == ASSUME HubIInv, NEW t \in Tasks, dropped(t) PROVE HubIInv'
<1> USE DEF HubIInv
<1> DEFINE c == flow[t].conn
           g == flow[t].config
           r == [conn[c] EXCEPT !.link = "closed", !.status = "disconnected"]
           f == IF g = None THEN Done ELSE Flow("connect", 0, g)
<1>1. /\ flow[t].pc = "dropping" /\ conn' = [conn EXCEPT ![c] = r] /\ toolCache' = FALSE
      /\ current' = 0 /\ flow' = [flow EXCEPT ![t] = f]
      /\ UNCHANGED <<config, made, attempts, gaveUp, timer, phase, reloads, faults>>
    BY DEF dropped
<1>2. c \in Connection /\ g \in Config \cup {None} /\ conn[c] \in ConnRec
    <2>1. flow[t] \in FlowRec
        BY TypeFacts
    <2>2. c \in Connection
        BY <1>1 DEF FlowInv
    <2>. QED BY <2>1, <2>2, TypeFacts DEF FlowRec
<1>3. r \in ConnRec
    BY <1>2, ConnFacts
<1>4. f \in FlowRec /\ (f.pc = "idle" \/ (f.pc = "connect" /\ f.config \in Config))
    <2>1. CASE g = None
        BY <2>1, FlowFacts
    <2>2. CASE g # None
        <3> HIDE DEF g
        <3>1. Flow("connect", 0, g) \in FlowRec /\ Flow("connect", 0, g).pc = "connect" /\ Flow("connect", 0, g).config = g
            BY <1>2, FlowFacts
        <3>. QED BY <1>2, <2>2, <3>1
    <2>. QED BY <2>1, <2>2
<1>5. phase' = "up" => phase = "up" /\ (t = "stop" => f.pc = "idle")
    BY <1>1 DEF FlowInv
<1> HIDE DEF c, g, r, f
<1>6. conn' \in [Connection -> ConnRec]
    BY <1>1, <1>2, <1>3, TypeFacts
<1>7. /\ flow' \in [Tasks -> FlowRec]
      /\ \A u \in Tasks : flow'[u].pc \in {"closing", "handshake", "listing", "dropping"} => flow'[u].conn \in Connection
      /\ \A u \in Tasks : flow'[u].pc \in {"connect", "closing"} => flow'[u].config \in Config
      /\ phase' = "up" => flow'["stop"].pc = "idle"
    BY <1>1, <1>4, <1>5, FlowGoesOn
<1>8. TypeOK'
    BY <1>1, <1>6, <1>7 DEF TypeOK, ConnRec, FlowRec, Tasks
<1>. QED BY <1>1, <1>7, <1>8 DEF FlowInv, HooksInv, CareInv, NoTimerAfterShutdown

LEMMA CompleteStep == ASSUME HubIInv, shutdownComplete PROVE HubIInv'
<1> USE DEF HubIInv
<1>1. /\ phase = "stopping" /\ phase' = "down" /\ current' = 0 /\ toolCache' = FALSE
      /\ UNCHANGED <<config, made, conn, attempts, gaveUp, timer, flow, reloads, faults>>
    BY DEF shutdownComplete
<1>2. TypeOK'
    BY <1>1 DEF TypeOK
<1>. QED BY <1>1, <1>2 DEF FlowInv, HooksInv, CareInv, NoTimerAfterShutdown

-----------------------------------------------------------------------------
(***************************************************************************)
(* src/hub/mcp-hub.ts, whatever number of connectServer(), reload() and    *)
(* reconnect timers interleave: a server that is in the map and not        *)
(* connected has a timer, a call at work on it or was given up with a      *)
(* warning; a connected one is watched; and no reconnection is scheduled   *)
(* once shutdown() has begun.                                              *)
(***************************************************************************)
THEOREM HubCorrect == Spec => []HubInv
<1>1. HubIInv /\ [Next]_vars => HubIInv'
    <2> SUFFICES ASSUME HubIInv, [Next]_vars PROVE HubIInv'
        OBVIOUS
    <2>1. CASE UNCHANGED vars
        BY <2>1 DEF vars, HubIInv, TypeOK, FlowInv, HooksInv, CareInv, NoTimerAfterShutdown
    <2>2. CASE \E t \in Flows : \/ connectServer(t) \/ closed(t) \/ answered(t) \/ timedOut(t)
                                \/ refused(t) \/ listed(t) \/ reconnect(t) \/ reload(t) \/ decide(t)
        BY <2>2, ConnectStep, ClosedStep, AnsweredStep, TimedOutStep, RefusedStep, ListedStep,
           ReconnectStep, ReloadStep, DecideStep
    <2>3. CASE \E t \in Flows \cup {"stop"} : dropped(t)
        BY <2>3, DroppedStep DEF Tasks
    <2>4. CASE \E c \in Connection : onerror(c) \/ onclose(c)
        BY <2>4, OnErrorStep, OnCloseStep
    <2>5. CASE shutdown
        BY <2>5, ShutdownStep
    <2>6. CASE shutdownComplete
        BY <2>6, CompleteStep
    <2>. QED BY <2>1, <2>2, <2>3, <2>4, <2>5, <2>6 DEF Next
<1>. QED BY <1>1, HubInit, ImpliesHubInv, PTL DEF Spec
=============================================================================
