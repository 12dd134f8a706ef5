---------------------------- MODULE DaemonServer ----------------------------
(***************************************************************************)
(* The daemon's connections and the locks it keeps for them                *)
(* (src/daemon/server.ts on top of src/daemon/shared-lock.ts).             *)
(*                                                                         *)
(* A client is one socket: it connects once and closes once.  Its requests *)
(* are handled without waiting for each other, so one socket may have      *)
(* several lock.acquire requests under way, and may close while they are.  *)
(* Data, close and timer events run when the microtasks are drained; only  *)
(* a request may also run before, as the second one of a data event.       *)
(***************************************************************************)
EXTENDS SharedLock

CONSTANT Clients

ASSUME ClientsAssumption == Clients # {}

VARIABLES
    conn,        \* conn[c]: "none", "challenged", "ready", "destroyed", "closed"
    owner,       \* owner[t]: the client whose request holds ticket t
    lockHandles, \* state.lockHandles of a client: the ticket of a key, or 0
    phase,       \* "down", "up", then "ending" and "closing" in shutdown()
    snapshot,    \* the sockets shutdown() ended and waits for
    late         \* history: the sockets accepted after it looked

daemonVars == <<conn, owner, lockHandles, phase, snapshot, late>>
vars == <<lockVars, daemonVars>>

NoHandles == [k \in Keys |-> 0]
Connected == {c \in Clients : conn[c] \in {"challenged", "ready", "destroyed"}}

\* closePromises are all resolved: shutdown() goes on, from the microtask
\* queue too.
SocketsEnded == phase = "ending" /\ snapshot = {}
NewEvent == MicrotasksDrained /\ ~SocketsEnded

Init ==
    /\ LockInit
    /\ conn = [c \in Clients |-> "none"]
    /\ owner = [t \in Tickets |-> CHOOSE c \in Clients : TRUE]
    /\ lockHandles = [c \in Clients |-> NoHandles]
    /\ phase = "up"
    /\ snapshot = {}
    /\ late = {}

-----------------------------------------------------------------------------
\* The listening socket accepts until server.close() is called.
handleConnection(c) ==
    /\ phase \in {"up", "ending"}
    /\ conn[c] = "none"
    /\ NewEvent
    /\ conn' = [conn EXCEPT ![c] = "challenged"]
    /\ late' = IF phase = "ending" THEN late \cup {c} ELSE late
    /\ UNCHANGED <<lockVars, owner, lockHandles, phase, snapshot>>

\* The token matches the nonce of the challenge.
handleAuth(c) ==
    /\ conn[c] = "challenged"
    /\ NewEvent
    /\ conn' = [conn EXCEPT ![c] = "ready"]
    /\ UNCHANGED <<lockVars, owner, lockHandles, phase, snapshot, late>>

\* dispatch("lock.acquire") up to its await.  A key the client holds already
\* is refused; one it is only waiting for is not.
lockAcquire(c, k) ==
    /\ conn[c] = "ready"
    /\ lockHandles[c][k] = 0
    /\ acquire(k)
    /\ owner' = [owner EXCEPT ![issued + 1] = c]
    /\ UNCHANGED <<conn, lockHandles, phase, snapshot, late>>

\* ... and after it: the handle is stored, whatever became of the socket.
lockAcquired(t) ==
    /\ Granted(t)
    /\ lockHandles' = [lockHandles EXCEPT ![owner[t]][key[t]] = t]
    /\ UNCHANGED <<conn, owner, phase, snapshot, late>>

lockTimedOut(t) == TimedOut(t) /\ UNCHANGED daemonVars

\* Mutant: the handle stays in the map when it is released.
lockRelease_KeepsHandle(c, k) ==
    /\ conn[c] = "ready"
    /\ lockHandles[c][k] # 0
    /\ release({lockHandles[c][k]})
    /\ UNCHANGED <<conn, owner, lockHandles, phase, snapshot, late>>

\* dispatch("lock.release").
lockRelease(c, k) ==
    /\ conn[c] = "ready"
    /\ lockHandles[c][k] # 0
    /\ lockHandles' = [lockHandles EXCEPT ![c][k] = 0]
    /\ release({lockHandles[c][k]})
    /\ UNCHANGED <<conn, owner, phase, snapshot, late>>

\* Mutant: the handles are dropped, not released.
close_DropsHandles(c) ==
    /\ c \in Connected
    /\ NewEvent
    /\ conn' = [conn EXCEPT ![c] = "closed"]
    /\ lockHandles' = [lockHandles EXCEPT ![c] = NoHandles]
    /\ snapshot' = snapshot \ {c}
    /\ UNCHANGED <<lockVars, owner, phase, late>>

\* The 'close' event, whoever caused it: the client, an error, a failed
\* authentication or its deadline, the buffer cap, or shutdown().
close(c) ==
    /\ c \in Connected
    /\ NewEvent
    /\ conn' = [conn EXCEPT ![c] = "closed"]
    /\ release({lockHandles[c][k] : k \in Keys} \ {0})
    /\ lockHandles' = [lockHandles EXCEPT ![c] = NoHandles]
    /\ snapshot' = snapshot \ {c}
    /\ UNCHANGED <<owner, phase, late>>

-----------------------------------------------------------------------------
\* shutdown() ends the sockets there are and waits for their 'close'.
shutdown ==
    /\ phase = "up"
    /\ NewEvent
    /\ phase' = "ending"
    /\ snapshot' = Connected
    /\ UNCHANGED <<lockVars, conn, owner, lockHandles, late>>

\* Mutant: the timer only gives up waiting.
destroyTimer_NoDestroy(c) ==
    /\ c \in snapshot
    /\ NewEvent
    /\ snapshot' = snapshot \ {c}
    /\ UNCHANGED <<lockVars, conn, owner, lockHandles, phase, late>>

\* The two seconds are over: the socket is destroyed and its promise is
\* resolved at once; 'close' follows as an event of its own.
destroyTimer(c) ==
    /\ c \in snapshot
    /\ NewEvent
    /\ conn' = [conn EXCEPT ![c] = "destroyed"]
    /\ snapshot' = snapshot \ {c}
    /\ UNCHANGED <<lockVars, owner, lockHandles, phase, late>>

\* closeServer: no new connection from here on.
closeServer ==
    /\ SocketsEnded
    /\ phase' = "closing"
    /\ UNCHANGED <<lockVars, conn, owner, lockHandles, snapshot, late>>

\* The callback of server.close() runs when the last connection is gone.
serverClosed ==
    /\ phase = "closing"
    /\ Connected = {}
    /\ phase' = "down"
    /\ UNCHANGED <<lockVars, conn, owner, lockHandles, snapshot, late>>

Next ==
    \/ \E c \in Clients :
          \/ handleConnection(c)
          \/ handleAuth(c)
          \/ \E k \in Keys : lockAcquire(c, k) \/ lockRelease(c, k)
          \/ close(c)
          \/ destroyTimer(c)
    \/ \E t \in Tickets : lockAcquired(t) \/ lockTimedOut(t)
    \/ shutdown
    \/ closeServer
    \/ serverClosed

Spec == Init /\ [][Next]_vars

\* Timers and microtasks: a socket shutdown() ended is destroyed after two
\* seconds, and a destroyed one closes; one that does not authenticate is
\* closed after ten; a resolved promise is continued; shutdown() goes on
\* when what it awaits has come.
Fairness ==
    /\ \A c \in Clients : WF_vars(destroyTimer(c))
    /\ \A c \in Clients : WF_vars(conn[c] = "destroyed" /\ close(c))
    /\ \A c \in Clients : WF_vars(conn[c] = "challenged" /\ close(c))
    /\ \A t \in Tickets : WF_vars(lockAcquired(t))
    /\ WF_vars(closeServer)
    /\ WF_vars(serverClosed)

FairSpec == Spec /\ Fairness

-----------------------------------------------------------------------------
TypeOK ==
    /\ LockTypeOK
    /\ conn \in [Clients -> {"none", "challenged", "ready", "destroyed", "closed"}]
    /\ owner \in [Tickets -> Clients]
    /\ lockHandles \in [Clients -> [Keys -> Chain]]
    /\ phase \in {"up", "ending", "closing", "down"}
    /\ snapshot \subseteq Clients
    /\ late \subseteq Clients

(***************************************************************************)
(* The handles a client's state keeps are exactly the locks its requests   *)
(* were granted: no handle is overwritten while its lock is held, although *)
(* the test for ALREADY_HOLDS_LOCK is made before the await and the handle *)
(* is stored after it, and none outlives its lock.                         *)
(***************************************************************************)
HandlesMatchHolders ==
    /\ \A t \in Tickets :
          st[t] = "held" => lockHandles[owner[t]][key[t]] = t
    /\ \A c \in Clients, k \in Keys :
          lockHandles[c][k] # 0 =>
              LET t == lockHandles[c][k]
              IN st[t] = "held" /\ owner[t] = c /\ key[t] = k

(***************************************************************************)
(* The 'close' handler leaves no lock with the client that disconnected.   *)
(***************************************************************************)
CloseReleasesAll ==
    [][\A c \in Clients : conn[c] # "closed" /\ conn'[c] = "closed" =>
          \A t \in Tickets : owner[t] = c => st'[t] # "held"]_vars

(***************************************************************************)
(* shutdown() comes to its end, unless a client slips in after it looked.  *)
(***************************************************************************)
ShutdownEnds == phase = "ending" ~> phase = "down" \/ late # {}

-----------------------------------------------------------------------------
(***************************************************************************)
(* server.ts, of ClientState: "Lock handles are stored here so the server  *)
(* can release them when the client calls `lock.release` (or               *)
(* disconnects)": a client that is gone holds no lock.                     *)
(***************************************************************************)
GoneClientsHoldNothing ==
    \A t \in Tickets : st[t] = "held" => conn[owner[t]] # "closed"
=============================================================================
