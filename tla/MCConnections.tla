--------------------------- MODULE MCConnections ---------------------------
(***************************************************************************)
(* The daemon with its clients and locks, its start, its key-value store   *)
(* and its client library, and the other parts that keep connections: the  *)
(* HTTP bridge with its requests and sessions, and the pool of backend     *)
(* connections.  They share no variable: a behaviour moves the part it has *)
(* chosen in the beginning.                                                *)
(***************************************************************************)
EXTENDS DaemonServer, DaemonClient, DaemonStartup, SharedKV, ConnectionPool, HttpBridge

VARIABLE focus

groupVars == <<focus, vars, cpVars, hbVars, dcVars, duVars, kvVars>>

MCInit ==
    /\ focus \in {"daemon", "client", "startup", "store", "pool", "bridge"}
    /\ Init /\ CPInit /\ HBInit /\ DCInit /\ DUInit /\ KVInit
    /\ focus # "bridge" => handlers

MCNext ==
    \/ focus = "daemon" /\ Next /\ UNCHANGED <<focus, cpVars, hbVars, dcVars, duVars, kvVars>>
    \/ focus = "pool" /\ CPNext /\ UNCHANGED <<focus, vars, hbVars, dcVars, duVars, kvVars>>
    \/ focus = "bridge" /\ HBNext /\ UNCHANGED <<focus, vars, cpVars, dcVars, duVars, kvVars>>
    \/ focus = "client" /\ DCNext /\ UNCHANGED <<focus, vars, cpVars, hbVars, duVars, kvVars>>
    \/ focus = "startup" /\ DUNext /\ UNCHANGED <<focus, vars, cpVars, hbVars, dcVars, kvVars>>
    \/ focus = "store" /\ KVNext /\ UNCHANGED <<focus, vars, cpVars, hbVars, dcVars, duVars>>

\* What fairness asks for is not enabled in a part that does not move.
MCSpec == MCInit /\ [][MCNext]_groupVars /\ Fairness /\ CPFairness /\ HBFairness /\ DCFairness /\ KVFairness

(***************************************************************************)
(* Every acquire(), every request of the bridge and every request of the   *)
(* daemon client settles (pool.ts, http-server.ts, client.ts).             *)
(***************************************************************************)
ConnectionsSettle == AcquireSettles /\ EveryRequestAnswered /\ RequestReturns
=============================================================================
