--------------------------- MODULE DaemonStartup ---------------------------
(***************************************************************************)
(* start() and shutdown() of the daemons of src/src/daemon/server.ts, one  *)
(* process each, and the socket file they share.  Between two steps of one *)
(* daemon the others run.                                                  *)
(***************************************************************************)
EXTENDS FiniteSets, Naturals

CONSTANTS Daemons, Nobody, MaxStarts

ASSUME DUAssumption == Nobody \notin Daemons /\ MaxStarts \in Nat

VARIABLES
    daemon,    \* where each daemon is in start() or shutdown()
    running,   \* this.running
    file,      \* whose listener the socket file leads to; Nobody: no file
    starts,    \* how many starts there were (bounds the model)
    raced      \* history: two daemons were starting or stopping at once, or a
               \* living one did not answer the probe in time

duVars == <<daemon, running, file, starts, raced>>

DUInit ==
    /\ daemon = [d \in Daemons |-> "off"]
    /\ running = [d \in Daemons |-> FALSE]
    /\ file = Nobody
    /\ starts = 0
    /\ raced = FALSE

Underway(d) == daemon[d] \in {"probing", "unlinking", "binding", "stopping"}

Races(d) == \E e \in Daemons \ {d} : Underway(e)

At(d, pc) == daemon' = [daemon EXCEPT ![d] = pc]

\* Mutant: the file is removed without a probe.
startDaemon_NoProbe(d) ==
    /\ daemon[d] \in {"off", "failed"} /\ ~running[d]
    /\ starts < MaxStarts
    /\ starts' = starts + 1
    /\ running' = [running EXCEPT ![d] = TRUE]
    /\ At(d, IF file = Nobody THEN "binding" ELSE "unlinking")
    /\ raced' = (raced \/ Races(d))
    /\ UNCHANGED file

\* start() as far as existsSync(): "already running" unless it is not.
startDaemon(d) ==
    /\ daemon[d] \in {"off", "failed"} /\ ~running[d]
    /\ starts < MaxStarts
    /\ starts' = starts + 1
    /\ running' = [running EXCEPT ![d] = TRUE]
    /\ At(d, IF file = Nobody THEN "binding" ELSE "probing")
    /\ raced' = (raced \/ Races(d))
    /\ UNCHANGED file

\* _probeSocketLiveness(): whoever listens sends its challenge at once; no
\* answer in 200 ms, a refusal and a missing file all mean that nobody does.
_probeSocketLiveness(d) ==
    /\ daemon[d] = "probing"
    /\ \E answered \in BOOLEAN :
          LET alive == file # Nobody /\ daemon[file] \in {"up", "stopping"}
          IN  /\ answered => alive
              /\ IF answered
                 THEN At(d, "off") /\ running' = [running EXCEPT ![d] = FALSE]
                 ELSE At(d, "unlinking") /\ UNCHANGED running
              /\ raced' = (raced \/ (alive /\ ~answered))
    /\ UNCHANGED <<file, starts>>

\* unlinkSync(): it throws when the file is gone, and "running" stays set.
unlinkSocket(d) ==
    /\ daemon[d] = "unlinking"
    /\ At(d, IF file = Nobody THEN "failed" ELSE "binding")
    /\ file' = Nobody
    /\ UNCHANGED <<running, starts, raced>>

\* startUnixServer(): EADDRINUSE when there is a file by now.
startUnixServer(d) ==
    /\ daemon[d] = "binding"
    /\ IF file = Nobody THEN At(d, "up") /\ file' = d ELSE At(d, "failed") /\ UNCHANGED file
    /\ UNCHANGED <<running, starts, raced>>

\* shutdown(): once the clients are gone the listener is closed and the file
\* is removed, whoever made it.
shutdownDaemon(d) ==
    /\ daemon[d] = "up"
    /\ At(d, "stopping")
    /\ running' = [running EXCEPT ![d] = FALSE]
    /\ raced' = (raced \/ Races(d))
    /\ UNCHANGED <<file, starts>>

removeSocket(d) ==
    /\ daemon[d] = "stopping"
    /\ At(d, "off")
    /\ file' = Nobody
    /\ UNCHANGED <<running, starts, raced>>

\* The process ends at any point; the file stays.  A new process takes its
\* place.
killDaemon(d) ==
    /\ daemon[d] # "off"
    /\ At(d, "off")
    /\ running' = [running EXCEPT ![d] = FALSE]
    /\ UNCHANGED <<file, starts, raced>>

DUNext ==
    \E d \in Daemons :
        \/ startDaemon(d) \/ _probeSocketLiveness(d) \/ unlinkSocket(d) \/ startUnixServer(d)
        \/ shutdownDaemon(d) \/ removeSocket(d) \/ killDaemon(d)

DUSpec == DUInit /\ [][DUNext]_duVars

-----------------------------------------------------------------------------
DUTypeOK ==
    /\ daemon \in [Daemons -> {"off", "probing", "unlinking", "binding", "up", "stopping", "failed"}]
    /\ running \in [Daemons -> BOOLEAN]
    /\ file \in Daemons \cup {Nobody}
    /\ starts \in 0 .. MaxStarts
    /\ raced \in BOOLEAN

(***************************************************************************)
(* "An unconditional unlink would silently evict a live daemon": a daemon  *)
(* that is up is the one the socket file leads to, whatever crashed before *)
(* and whoever tried to start, unless two of them start or stop at the     *)
(* same time or it failed to answer a probe (server.ts, start).            *)
(***************************************************************************)
NobodyIsEvicted == \A d \in Daemons : daemon[d] = "up" /\ ~raced => file = d
=============================================================================
