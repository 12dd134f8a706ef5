------------------------------- MODULE MCPHub -------------------------------
(***************************************************************************)
(* The connections of the hub (src/hub/mcp-hub.ts) to one backend server:  *)
(* connecting with a time limit, automatic reconnection, reload of the     *)
(* configuration, disconnection and shutdown.  Servers share no state, so  *)
(* one name is enough.                                                     *)
(*                                                                         *)
(* connectServer(), reload() and shutdown() are asynchronous and nothing   *)
(* keeps two of them apart.  Each runs as a flow whose pc is the await it  *)
(* is suspended in.  A connection is a number: the objects of the code     *)
(* are made one after the other, and only the last one made can be the     *)
(* value of connections.get(name), in the variable `current'.              *)
(***************************************************************************)
EXTENDS Integers, FiniteSets

CONSTANTS
    Commands,               \* what the command, args and env of a server can be
    Flows,                  \* calls of connectServer() or reload() under way at once
    MaxReconnectAttempts,   \* config.maxReconnectAttempts
    MaxReloads,             \* bound: reloads of the configuration
    MaxFaults,              \* bound: errors, exits, slow and mute servers
    MaxConnections          \* bound: connections, as many as the other bounds allow

ASSUME HubAssumption ==
    /\ {MaxReconnectAttempts, MaxReloads, MaxFaults, MaxConnections} \subseteq Nat
    /\ Flows # {} /\ "stop" \notin Flows
    /\ "none" \notin Commands

VARIABLES
    config,       \* the entry of the server in the configuration file, or None
    current,      \* connections.get(name), 0 if there is none
    made,         \* the connections made
    conn,         \* the connection objects
    toolCache,    \* toolCache.has(name)
    attempts,     \* reconnectAttempts.get(name)
    gaveUp,       \* the warning "Max reconnect attempts reached" was the last word
    timer,        \* reconnectTimers.get(name): what it will connect to, or None
    phase,        \* "up", "stopping" (isShuttingDown) or "down"
    flow,         \* the calls under way; "stop" is shutdown()
    reloads,      \* how many reloads are left
    faults        \* how many faults are left

vars == <<config, current, made, conn, toolCache, attempts, gaveUp, timer, phase, flow,
          reloads, faults>>

Config == [command : Commands, rateLimit : BOOLEAN]
None == [command |-> "none", rateLimit |-> FALSE]
Connection == 1 .. MaxConnections

NoConnection == [status |-> "none", config |-> None, limiter |-> "none", hooked |-> FALSE,
                 link |-> "none"]

\* pc: "idle"; "decide" (reload() has read the configuration); "connect" (about
\* to enter connectServer(config)); "closing" (connectServer closes the old
\* connection); "handshake"; "listing"; "dropping" (disconnectServer, after
\* which the flow connects to config, if that is not None).
Flow(pc, c, g) == [pc |-> pc, conn |-> c, config |-> g, had |-> FALSE]
Done == Flow("idle", 0, None)

\* Between two events no flow is left at "connect": nothing is awaited there.
Quiet == \A t \in Flows : flow[t].pc # "connect"

Init ==
    /\ config \in Config
    /\ current = 0
    /\ made = 0
    /\ conn = [c \in Connection |-> NoConnection]
    /\ toolCache = FALSE
    /\ attempts = 0
    /\ gaveUp = FALSE
    /\ timer = None
    /\ phase = "up"
    /\ flow = [t \in Flows \cup {"stop"} |->
                  IF t = CHOOSE f \in Flows : TRUE THEN Flow("connect", 0, config) ELSE Done]
    /\ reloads = MaxReloads
    /\ faults = MaxFaults

-----------------------------------------------------------------------------
\* handleDisconnection, n times in one turn: schedule a reconnect to what is
\* current, without its rate limit.  A timer that is pending is replaced, but
\* not when the attempts are used up.
handleDisconnection(n) ==
    IF phase = "up" /\ current # 0
    THEN /\ attempts' = attempts + n
         /\ gaveUp' = (attempts' > MaxReconnectAttempts)
         /\ timer' = IF attempts + 1 > MaxReconnectAttempts THEN timer
                     ELSE [conn[current].config EXCEPT !.rateLimit = FALSE]
    ELSE UNCHANGED <<attempts, gaveUp, timer>>

\* The handlers of a connection are taken off and its rate limiter destroyed.
Unhooked(c) == [conn[c] EXCEPT !.hooked = FALSE,
                               !.limiter = IF @ = "live" THEN "destroyed" ELSE @]

\* connectServer from the new Client on: the connection becomes current.
\* `live' is what conn holds by now, mute a server that will never answer.
Open(t, g, live) ==
    \E mute \in {FALSE} \cup {faults > 0} :
       /\ made < MaxConnections /\ made' = made + 1
       /\ current' = made'
       /\ gaveUp' = FALSE
       /\ conn' = [live EXCEPT ![made'] =
                     [status |-> "connecting", config |-> g, hooked |-> TRUE,
                      limiter |-> IF g.rateLimit THEN "live" ELSE "none",
                      link |-> IF mute THEN "mute" ELSE "opening"]]
       /\ faults' = IF mute THEN faults - 1 ELSE faults
       /\ flow' = [flow EXCEPT ![t] = Flow("handshake", made', None)]

\* connectServer up to its first await.
connectServer(t) ==
    /\ flow[t].pc = "connect"
    /\ \/ /\ phase # "up"
          /\ flow' = [flow EXCEPT ![t] = Done]
          /\ UNCHANGED <<current, made, conn, gaveUp, faults>>
       \/ /\ phase = "up"
          /\ current # 0
          /\ conn[current].status # "disconnected"
          /\ conn' = [conn EXCEPT ![current] = Unhooked(current)]
          /\ flow' = [flow EXCEPT ![t] = Flow("closing", current, flow[t].config)]
          /\ UNCHANGED <<current, made, gaveUp, faults>>
       \/ /\ phase = "up"
          /\ current # 0 => conn[current].status = "disconnected"
          /\ Open(t, flow[t].config, conn)
    /\ UNCHANGED <<config, toolCache, attempts, timer, phase, reloads>>

\* The old client is closed, and the new connection is made, whatever has
\* happened to the hub meanwhile.
closed(t) ==
    /\ Quiet
    /\ flow[t].pc = "closing"
    /\ Open(t, flow[t].config, [conn EXCEPT ![flow[t].conn].link = "closed"])
    /\ UNCHANGED <<config, toolCache, attempts, timer, phase, reloads>>

\* The handshake is answered in time.
answered(t) ==
    LET c == flow[t].conn IN
    /\ Quiet
    /\ flow[t].pc = "handshake"
    /\ conn[c].link = "opening"
    /\ conn' = [conn EXCEPT ![c].link = "open", ![c].status = "connected"]
    /\ attempts' = 0
    /\ flow' = [flow EXCEPT ![t] = Flow("listing", c, None)]
    /\ UNCHANGED <<config, current, made, toolCache, gaveUp, timer, phase, reloads, faults>>

\* Mutant: the failure is reported only.
Failed_Silently(t, live, n) ==
    /\ conn' = IF current = 0 THEN live ELSE [live EXCEPT ![current].status = "error"]
    /\ flow' = [flow EXCEPT ![t] = Done]
    /\ UNCHANGED <<attempts, gaveUp, timer>>

\* The catch of connectServer: the connection that is current now is at fault.
Failed(t, live, n) ==
    /\ conn' = IF current = 0 THEN live ELSE [live EXCEPT ![current].status = "error"]
    /\ handleDisconnection(n)
    /\ flow' = [flow EXCEPT ![t] = Done]

\* Mutant: a server that never answers is waited for.
timedOut_Patient(t) ==
    /\ Quiet
    /\ flow[t].pc = "handshake"
    /\ conn[flow[t].conn].link = "opening"
    /\ faults > 0
    /\ faults' = faults - 1
    /\ Failed(t, conn, 1)
    /\ UNCHANGED <<config, current, made, toolCache, phase, reloads>>

\* The time limit strikes.  The client is left to itself.
timedOut(t) ==
    LET c == flow[t].conn IN
    /\ Quiet
    /\ flow[t].pc = "handshake"
    /\ \/ /\ conn[c].link = "opening"
          /\ faults > 0
          /\ faults' = faults - 1
       \/ /\ conn[c].link \in {"mute", "closed"}
          /\ UNCHANGED faults
    /\ Failed(t, conn, 1)
    /\ UNCHANGED <<config, current, made, toolCache, phase, reloads>>

\* The process exits during the handshake, which the client notices while it
\* has its handlers, or cannot be started: then onerror and the catch both
\* call handleDisconnection.
refused(t) ==
    LET c == flow[t].conn IN
    /\ Quiet
    /\ flow[t].pc = "handshake"
    /\ conn[c].link \in {"opening", "mute"}
    /\ faults > 0
    /\ faults' = faults - 1
    /\ \/ /\ conn[c].hooked
          /\ \/ Failed(t, [conn EXCEPT ![c].link = "closed"], 1)
             \/ /\ conn[c].link = "opening"
                /\ Failed(t, [conn EXCEPT ![c].link = "closed", ![c].status = "error"], 2)
       \/ /\ ~conn[c].hooked
          /\ conn' = [conn EXCEPT ![c].link = "closed"]
          /\ UNCHANGED <<attempts, gaveUp, timer, flow>>
    /\ UNCHANGED <<config, current, made, toolCache, phase, reloads>>

\* cacheServerTools: an error is logged and the connection stays connected.
listed(t) ==
    /\ Quiet
    /\ flow[t].pc = "listing"
    /\ toolCache' \in {toolCache, conn[flow[t].conn].link = "open" \/ toolCache}
    /\ flow' = [flow EXCEPT ![t] = Done]
    /\ UNCHANGED <<config, current, made, conn, attempts, gaveUp, timer, phase, reloads, faults>>

-----------------------------------------------------------------------------
\* transport.onerror, of whichever connection still has its handlers.
onerror(c) ==
    /\ Quiet
    /\ conn[c].hooked
    /\ conn[c].link \in {"opening", "mute", "open"}
    /\ faults > 0
    /\ faults' = faults - 1
    /\ conn' = [conn EXCEPT ![c].status = "error"]
    /\ handleDisconnection(1)
    /\ UNCHANGED <<config, current, made, toolCache, phase, flow, reloads>>

\* transport.onclose: the process of a connection that was open exits.
onclose(c) ==
    /\ Quiet
    /\ conn[c].link = "open"
    /\ faults > 0
    /\ faults' = faults - 1
    /\ \/ /\ conn[c].hooked
          /\ conn[c].status = "connected"
          /\ conn' = [conn EXCEPT ![c].link = "closed", ![c].status = "disconnected"]
          /\ handleDisconnection(1)
       \/ /\ ~conn[c].hooked \/ conn[c].status # "connected"
          /\ conn' = [conn EXCEPT ![c].link = "closed"]
          /\ UNCHANGED <<attempts, gaveUp, timer>>
    /\ UNCHANGED <<config, current, made, toolCache, phase, flow, reloads>>

\* The reconnect timer.
reconnect(t) ==
    /\ Quiet
    /\ timer # None
    /\ flow[t] = Done
    /\ timer' = None
    /\ flow' = [flow EXCEPT ![t] = Flow("connect", 0, timer)]
    /\ UNCHANGED <<config, current, made, conn, toolCache, attempts, gaveUp, phase, reloads, faults>>

-----------------------------------------------------------------------------
\* disconnectServer up to its await; afterwards the flow connects to g.
disconnectServer(t, g) ==
    /\ timer' = None
    /\ IF current = 0
       THEN /\ flow' = [flow EXCEPT ![t] = IF g = None THEN Done ELSE Flow("connect", 0, g)]
            /\ UNCHANGED conn
       ELSE /\ flow' = [flow EXCEPT ![t] = Flow("dropping", current, g)]
            /\ conn' = [conn EXCEPT ![current] = Unhooked(current)]

\* reload() reads the configuration, edited before, and who is connected.
reload(t) ==
    /\ Quiet
    /\ flow[t] = Done
    /\ reloads > 0
    /\ reloads' = reloads - 1
    /\ config' \in Config \cup {None}
    /\ flow' = [flow EXCEPT ![t] = [Flow("decide", 0, config') EXCEPT !.had = current # 0]]
    /\ UNCHANGED <<current, made, conn, toolCache, attempts, gaveUp, timer, phase, faults>>

\* It comes to this server, after those before it: remove, add, reconnect if
\* the configuration has changed, or leave it.
decide(t) ==
    LET g == flow[t].config
        had == flow[t].had
    IN
    /\ Quiet
    /\ flow[t].pc = "decide"
    /\ \/ /\ had /\ g = None
          /\ disconnectServer(t, None)
       \/ /\ ~had /\ g # None
          /\ flow' = [flow EXCEPT ![t] = Flow("connect", 0, g)]
          /\ UNCHANGED <<conn, timer>>
       \/ /\ had /\ g # None
          /\ current # 0 /\ conn[current].config # g
          /\ disconnectServer(t, g)
       \/ /\ IF had THEN g # None /\ (current # 0 => conn[current].config = g) ELSE g = None
          /\ flow' = [flow EXCEPT ![t] = Done]
          /\ UNCHANGED <<conn, timer>>
    /\ UNCHANGED <<config, current, made, toolCache, attempts, gaveUp, phase, reloads, faults>>

\* shutdown() up to its await.
shutdown ==
    /\ Quiet
    /\ phase = "up"
    /\ phase' = "stopping"
    /\ disconnectServer("stop", None)
    /\ UNCHANGED <<config, current, made, toolCache, attempts, gaveUp, reloads, faults>>

\* The client is closed: the server is forgotten, under its name.
dropped(t) ==
    LET c == flow[t].conn
        g == flow[t].config
    IN
    /\ Quiet
    /\ flow[t].pc = "dropping"
    /\ conn' = [conn EXCEPT ![c].link = "closed", ![c].status = "disconnected"]
    /\ toolCache' = FALSE
    /\ current' = 0
    /\ flow' = [flow EXCEPT ![t] = IF g = None THEN Done ELSE Flow("connect", 0, g)]
    /\ UNCHANGED <<config, made, attempts, gaveUp, timer, phase, reloads, faults>>

\* The end of shutdown().
shutdownComplete ==
    /\ Quiet
    /\ phase = "stopping"
    /\ flow["stop"] = Done
    /\ phase' = "down"
    /\ current' = 0
    /\ toolCache' = FALSE
    /\ UNCHANGED <<config, made, conn, attempts, gaveUp, timer, flow, reloads, faults>>

Next ==
    \/ \E t \in Flows : \/ connectServer(t) \/ closed(t) \/ answered(t) \/ timedOut(t)
                        \/ refused(t) \/ listed(t) \/ reconnect(t) \/ reload(t) \/ decide(t)
    \/ \E t \in Flows \cup {"stop"} : dropped(t)
    \/ \E c \in Connection : onerror(c) \/ onclose(c)
    \/ shutdown
    \/ shutdownComplete

Spec == Init /\ [][Next]_vars

\* Continuations run and timers fire.  A client that is being closed is closed
\* (it kills its process) and listTools() has the time limit of the client
\* library.  Nothing makes a server answer.
Fairness ==
    /\ \A t \in Flows : /\ WF_vars(connectServer(t)) /\ WF_vars(closed(t))
                        /\ WF_vars(answered(t) \/ timedOut(t))
                        /\ WF_vars(listed(t)) /\ WF_vars(decide(t)) /\ WF_vars(dropped(t))
    /\ WF_vars(\E t \in Flows : reconnect(t))
    /\ WF_vars(dropped("stop"))
    /\ WF_vars(shutdownComplete)

FairSpec == Spec /\ Fairness
-----------------------------------------------------------------------------
TypeOK ==
    /\ config \in Config \cup {None}
    /\ current \in Connection \cup {0}
    /\ made \in Connection \cup {0}
    /\ conn \in [Connection -> [status : {"none", "connecting", "connected", "disconnected", "error"},
                                config : Config \cup {None},
                                limiter : {"none", "live", "destroyed"},
                                hooked : BOOLEAN,
                                link : {"none", "opening", "mute", "open", "closed"}]]
    /\ toolCache \in BOOLEAN
    /\ attempts \in Nat
    /\ gaveUp \in BOOLEAN
    /\ timer \in Config \cup {None}
    /\ phase \in {"up", "stopping", "down"}
    /\ flow \in [Flows \cup {"stop"} ->
                   [pc : {"idle", "decide", "connect", "closing", "handshake", "listing", "dropping"},
                    conn : Connection \cup {0}, config : Config \cup {None}, had : BOOLEAN]]
    /\ reloads \in 0 .. MaxReloads
    /\ faults \in 0 .. MaxFaults

Working == \E t \in Flows \cup {"stop"} : flow[t].pc \notin {"idle", "decide"}

(***************************************************************************)
(* A server that is in the map and not connected is not forgotten: a timer *)
(* is pending or a call is at work on it, unless its attempts are used up  *)
(* or the hub is shutting down.                                            *)
(***************************************************************************)
NotForgotten ==
    phase = "up" /\ current # 0 /\ conn[current].status # "connected"
        => timer # None \/ Working \/ gaveUp

(***************************************************************************)
(* callTool() routes to the current connection if its status is            *)
(* "connected".  The loss of such a connection is noticed: it has its      *)
(* handlers, or a call is closing it and will replace or remove it.        *)
(***************************************************************************)
LossIsNoticed ==
    current # 0 /\ conn[current].status = "connected" =>
        \/ conn[current].hooked
        \/ \E t \in Flows \cup {"stop"} :
              flow[t].pc \in {"closing", "dropping"} /\ flow[t].conn = current

(***************************************************************************)
(* Once shutdown() has begun no reconnection is scheduled, whatever        *)
(* connection fails afterwards.                                            *)
(***************************************************************************)
NoTimerAfterShutdown == phase # "up" => timer = None

HubInv == TypeOK /\ NotForgotten /\ LossIsNoticed /\ NoTimerAfterShutdown

(***************************************************************************)
(* Every call of connectServer(), reload() or shutdown() returns, also     *)
(* with a server that never answers: one slow server cannot block startup. *)
(***************************************************************************)
EveryCallReturns == \A t \in Flows \cup {"stop"} : flow[t] # Done ~> flow[t] = Done

-----------------------------------------------------------------------------
(***************************************************************************)
(* docs/guide/mcp-servers.md:136 "mcp.batch respects rateLimit config      *)
(* automatically": a server whose configuration has a rate limit is not    *)
(* reached without one.                                                    *)
(***************************************************************************)
RateLimitKept ==
    current # 0 /\ conn[current].status = "connected" /\ reloads = MaxReloads /\ config.rateLimit
        => conn[current].limiter # "none"
=============================================================================
