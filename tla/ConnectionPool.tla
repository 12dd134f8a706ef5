--------------------------- MODULE ConnectionPool ---------------------------
(***************************************************************************)
(* The pool of connections to one backend (src/bridge/pool.ts).  A server  *)
(* is registered first, which opens MinConnections connections; servers    *)
(* share no state.                                                         *)
(*                                                                         *)
(* acquire() may suspend between opening a connection and marking it busy. *)
(* Other code of the same turn runs there, but no timer and no event of a  *)
(* process: see CPQuiet.                                                   *)
(***************************************************************************)
EXTENDS Integers, Sequences, FiniteSets, Queues

CONSTANTS
    Users,            \* callers of acquire()
    MinConnections,   \* minConnectionsPerServer
    MaxConnections,   \* maxConnectionsPerServer
    MaxOpened         \* bound: connections ever opened

ASSUME ConnectionPoolAssumption ==
    /\ {MinConnections, MaxConnections, MaxOpened} \subseteq Nat
    /\ MinConnections <= MaxConnections /\ MaxConnections <= MaxOpened

VARIABLES
    pooled,       \* the connections, in the order they were opened
    waiters,      \* entry.waiting
    user,         \* the callers
    respawns,     \* timers that will open a connection in place of a lost one
    draining,     \* a respawned connection whose waiters are served next
    poolDown      \* isShuttingDown

cpVars == <<pooled, waiters, user, respawns, draining, poolDown>>

\* A closed connection is not in the map.  `timer' is its idle timer.
PooledConnection == 1 .. MaxOpened
NotOpened == [state |-> "none", timer |-> FALSE]
FreshConnection == [state |-> "idle", timer |-> FALSE]
InMap(p) == {c \in PooledConnection : p[c].state \in {"idle", "busy"}}
IdleIn(p) == {c \in PooledConnection : p[c].state = "idle"}
Opened(p) == {c \in PooledConnection : p[c].state # "none"}
Least(S) == CHOOSE c \in S : \A d \in S : c <= d
NextOpened == Cardinality(Opened(pooled)) + 1

\* pc: "out"; "opening" (awaits the connection it opened); "waiting";
\* "holding"; "calling" (a request is in flight on the connection it holds).
Out == [pc |-> "out", conn |-> 0]
CPQuiet == ~draining /\ \A u \in Users : user[u].pc # "opening"

CPInit ==
    /\ pooled = [c \in PooledConnection |->
                   IF c <= MinConnections THEN FreshConnection ELSE NotOpened]
    /\ waiters = <<>>
    /\ user = [u \in Users |-> Out]
    /\ respawns = 0
    /\ draining = FALSE
    /\ poolDown = FALSE

Held(u, c) == [user EXCEPT ![u] = [pc |-> "holding", conn |-> c]]
\* _markBusy
Busy(p, c) == [p EXCEPT ![c] = [state |-> "busy", timer |-> FALSE]]

-----------------------------------------------------------------------------
\* acquire() up to its first await: an idle connection, a new one, or the queue.
acquireConnection(u) ==
    /\ user[u].pc = "out"
    /\ ~poolDown
    /\ \/ /\ IdleIn(pooled) # {}
          /\ pooled' = Busy(pooled, Least(IdleIn(pooled)))
          /\ user' = Held(u, Least(IdleIn(pooled)))
          /\ UNCHANGED waiters
       \/ /\ IdleIn(pooled) = {}
          /\ Cardinality(InMap(pooled)) < MaxConnections
          /\ NextOpened <= MaxOpened
          /\ pooled' = [pooled EXCEPT ![NextOpened] = FreshConnection]
          /\ user' = [user EXCEPT ![u] = [pc |-> "opening", conn |-> NextOpened]]
          /\ UNCHANGED waiters
       \/ /\ IdleIn(pooled) = {}
          /\ Cardinality(InMap(pooled)) >= MaxConnections
          /\ waiters' = Append(waiters, u)
          /\ user' = [user EXCEPT ![u].pc = "waiting"]
          /\ UNCHANGED pooled
    /\ UNCHANGED <<respawns, draining, poolDown>>

\* acquire() after its await: whatever became of the connection meanwhile.
acquired(u) ==
    /\ user[u].pc = "opening"
    /\ pooled' = IF pooled[user[u].conn].state = "closed" THEN pooled ELSE Busy(pooled, user[u].conn)
    /\ user' = Held(u, user[u].conn)
    /\ UNCHANGED <<waiters, respawns, draining, poolDown>>

\* release(): the first waiter has it, or its idle timer starts.
releaseConnection(u) ==
    LET c == user[u].conn IN
    /\ user[u].pc = "holding"
    /\ \/ /\ pooled[c].state = "closed"
          /\ user' = [user EXCEPT ![u] = Out]
          /\ UNCHANGED <<pooled, waiters>>
       \/ /\ pooled[c].state # "closed"
          /\ waiters # <<>>
          /\ pooled' = [pooled EXCEPT ![c].state = "busy"]
          /\ user' = [Held(Head(waiters), c) EXCEPT ![u] = Out]
          /\ waiters' = Tail(waiters)
       \/ /\ pooled[c].state # "closed"
          /\ waiters = <<>>
          /\ pooled' = [pooled EXCEPT ![c] = [state |-> "idle", timer |-> TRUE]]
          /\ user' = [user EXCEPT ![u] = Out]
          /\ UNCHANGED waiters
    /\ UNCHANGED <<respawns, draining, poolDown>>

\* The time limit of a waiting acquire().
acquireTimeout(u) ==
    /\ CPQuiet
    /\ user[u].pc = "waiting"
    /\ waiters' = Removed(waiters, u)
    /\ user' = [user EXCEPT ![u] = Out]
    /\ UNCHANGED <<pooled, respawns, draining, poolDown>>

\* _rpcCall: refused on a closed connection.
rpcCall(u) ==
    /\ user[u].pc = "holding"
    /\ pooled[user[u].conn].state # "closed"
    /\ user' = [user EXCEPT ![u].pc = "calling"]
    /\ UNCHANGED <<pooled, waiters, respawns, draining, poolDown>>

\* _handleLine: the answer goes to the request with its id.
handleLine(u) ==
    /\ CPQuiet
    /\ user[u].pc = "calling"
    /\ user' = [user EXCEPT ![u].pc = "holding"]
    /\ UNCHANGED <<pooled, waiters, respawns, draining, poolDown>>

-----------------------------------------------------------------------------
\* The requests in flight on the connections of S are rejected.
Rejected(S) ==
    [u \in Users |-> IF user[u].pc = "calling" /\ user[u].conn \in S
                     THEN [user[u] EXCEPT !.pc = "holding"] ELSE user[u]]

\* Mutant: the requests in flight are forgotten.
lostConnection_Silent(c) ==
    /\ CPQuiet
    /\ pooled[c].state \in {"idle", "busy"}
    /\ pooled' = [pooled EXCEPT ![c] = [state |-> "closed", timer |-> FALSE]]
    /\ respawns' = IF ~poolDown /\ Cardinality(InMap(pooled')) < MinConnections
                   THEN respawns + 1 ELSE respawns
    /\ UNCHANGED <<waiters, user, draining, poolDown>>

\* _handleClose: the process of a connection exits, or the transport fails.
lostConnection(c) ==
    /\ CPQuiet
    /\ pooled[c].state \in {"idle", "busy"}
    /\ pooled' = [pooled EXCEPT ![c] = [state |-> "closed", timer |-> FALSE]]
    /\ user' = Rejected({c})
    /\ respawns' = IF ~poolDown /\ Cardinality(InMap(pooled')) < MinConnections
                   THEN respawns + 1 ELSE respawns
    /\ UNCHANGED <<waiters, draining, poolDown>>

\* The timer that replaces a lost connection, however many there are by now.
respawn ==
    /\ CPQuiet
    /\ respawns > 0
    /\ respawns' = respawns - 1
    /\ IF ~poolDown /\ NextOpened <= MaxOpened
       THEN /\ pooled' = [pooled EXCEPT ![NextOpened] = FreshConnection]
            /\ draining' = TRUE
       ELSE UNCHANGED <<pooled, draining>>
    /\ UNCHANGED <<waiters, user, poolDown>>

\* _drainWaiters, after the respawn.
drain ==
    LET idle == IdleIn(pooled) IN
    /\ draining
    /\ IF waiters # <<>> /\ idle # {}
       THEN /\ pooled' = [pooled EXCEPT ![Least(idle)].state = "busy"]
            /\ user' = Held(Head(waiters), Least(idle))
            /\ waiters' = Tail(waiters)
            /\ UNCHANGED draining
       ELSE /\ draining' = FALSE
            /\ UNCHANGED <<pooled, user, waiters>>
    /\ UNCHANGED <<respawns, poolDown>>

\* The idle timer: above the minimum, a connection that is not busy is closed.
idleTimeout(c) ==
    /\ CPQuiet
    /\ pooled[c].timer
    /\ IF pooled[c].state = "idle" /\ Cardinality(InMap(pooled)) > MinConnections
       THEN /\ pooled' = [pooled EXCEPT ![c] = [state |-> "closed", timer |-> FALSE]]
            /\ user' = Rejected({c})
       ELSE /\ pooled' = [pooled EXCEPT ![c].timer = FALSE]
            /\ UNCHANGED user
    /\ UNCHANGED <<waiters, respawns, draining, poolDown>>

\* shutdown(): waiting calls are rejected, every connection is closed.
poolShutdown ==
    /\ ~poolDown
    /\ poolDown' = TRUE
    /\ pooled' = [c \in PooledConnection |->
                    IF pooled[c].state = "none" THEN NotOpened
                    ELSE [state |-> "closed", timer |-> FALSE]]
    /\ waiters' = <<>>
    /\ user' = [u \in Users |-> CASE user[u].pc = "waiting" -> Out
                                  [] user[u].pc = "calling" -> [user[u] EXCEPT !.pc = "holding"]
                                  [] OTHER -> user[u]]
    /\ UNCHANGED <<respawns, draining>>

CPNext ==
    \/ \E u \in Users : \/ acquireConnection(u) \/ acquired(u) \/ releaseConnection(u) \/ acquireTimeout(u)
                        \/ rpcCall(u) \/ handleLine(u)
    \/ \E c \in PooledConnection : lostConnection(c) \/ idleTimeout(c)
    \/ respawn \/ drain \/ poolShutdown

CPSpec == CPInit /\ [][CPNext]_cpVars

\* Continuations run and the time limit of a waiting call fires.
CPFairness ==
    /\ WF_cpVars(drain)
    /\ \A u \in Users : WF_cpVars(acquired(u)) /\ WF_cpVars(acquireTimeout(u))
-----------------------------------------------------------------------------
CPTypeOK ==
    /\ pooled \in [PooledConnection -> [state : {"none", "idle", "busy", "closed"}, timer : BOOLEAN]]
    /\ waiters \in Seq(Users)
    /\ user \in [Users -> [pc : {"out", "opening", "waiting", "holding", "calling"},
                           conn : PooledConnection \cup {0}]]
    /\ respawns \in Nat
    /\ draining \in BOOLEAN
    /\ poolDown \in BOOLEAN

(***************************************************************************)
(* Nobody waits while a connection of the pool is idle, except in the turn *)
(* in which one was opened.                                                *)
(***************************************************************************)
NobodyWaitsForIdle == CPQuiet /\ waiters # <<>> => IdleIn(pooled) = {}

(***************************************************************************)
(* A request in flight is on a connection that can still answer it: every  *)
(* way of closing a connection rejects its requests.                       *)
(***************************************************************************)
NoRequestOnClosed ==
    \A u \in Users : user[u].pc = "calling" => pooled[user[u].conn].state \in {"idle", "busy"}

(***************************************************************************)
(* Those who wait are exactly those in the queue, each once, and shutdown  *)
(* leaves nobody there and nothing open.                                   *)
(***************************************************************************)
QueuedOnce ==
    /\ Once(waiters) /\ Elements(waiters) = {u \in Users : user[u].pc = "waiting"}
    /\ poolDown => waiters = <<>> /\ InMap(pooled) = {}

(***************************************************************************)
(* Every acquire() settles.                                                *)
(***************************************************************************)
AcquireSettles ==
    \A u \in Users : user[u].pc \in {"opening", "waiting"} ~> user[u].pc \in {"out", "holding"}

(***************************************************************************)
(* The accounting of the pool: its types, its queue, and its requests.     *)
(***************************************************************************)
CPInv == CPTypeOK /\ NobodyWaitsForIdle /\ NoRequestOnClosed /\ QueuedOnce
=============================================================================
