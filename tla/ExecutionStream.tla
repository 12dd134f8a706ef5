-------------------------- MODULE ExecutionStream --------------------------
(***************************************************************************)
(* The streams of src/streaming/execution-stream.ts: an execution reports  *)
(* to its stream, clients follow it by SSE, and the manager forgets it     *)
(* after a while.  The requests come through the HTTP bridge               *)
(* (src/bridge/http-server.ts), the streams are made and completed by      *)
(* execute_code (src/server/mcp-server.ts).                                *)
(*                                                                         *)
(* Time goes in steps of 5 minutes (STREAM_STALE_TTL_MS); ages are exact   *)
(* up to 4, which is more than STREAM_STUCK_TTL_MS.  A stream that was     *)
(* replaced in its manager, or whose manager was shut down, is "unlisted": *)
(* its execution still holds it, nobody else finds it.                     *)
(***************************************************************************)
EXTENDS Integers, FiniteSets

CONSTANTS
    Streams,      \* executions that have a stream
    Clients,      \* SSE connections
    MaxReports    \* bound: reports of one execution

ASSUME ESAssumption == MaxReports \in Nat /\ "nobody" \notin Streams

VARIABLES
    stream,       \* the streams
    follows,      \* which stream every client is connected to
    managerUp,    \* globalStreamManager is set
    stopping      \* MCPExecutorServer.stop() has shut the singletons down

esVars == <<stream, follows, managerUp, stopping>>

\* state: "none"; "running"; "completed" (or "error": an execution that failed);
\* "gone".  held: execute_code has not come to its end.  left: the reports the
\* sandbox can still send.  closing: the timer of 100 ms is set.  early (history):
\* the clients that were there when complete() was called.
NoStream == [state |-> "none", listed |-> FALSE, held |-> FALSE, age |-> 0, left |-> MaxReports,
             progress |-> 0, early |-> {}, closing |-> FALSE]
None_ == "nobody"

Connections(s) == {k \in Clients : follows[k] = s}
HasConnections(s) == Connections(s) # {}
\* closeAllConnections() of the streams in S
Cut(S) == [k \in Clients |-> IF follows[k] \in S THEN None_ ELSE follows[k]]

ESInit ==
    /\ stream = [s \in Streams |-> NoStream]
    /\ follows = [k \in Clients |-> None_]
    /\ managerUp = FALSE
    /\ stopping = FALSE

\* getStreamManager(): makes one if there is none, also while stopping.
getStreamManager == managerUp' = TRUE

-----------------------------------------------------------------------------
\* createStream(), by execute_code.
createStream(s) ==
    /\ stream[s].state = "none"
    /\ getStreamManager
    /\ stream' = [stream EXCEPT ![s] = [NoStream EXCEPT !.state = "running", !.listed = TRUE,
                                                        !.held = TRUE]]
    /\ UNCHANGED <<follows, stopping>>

\* The response is told the events so far and all that follow.
addConnection(k, s) == [follows EXCEPT ![k] = s]

\* handleStreamConnect: not found, or a connection.
handleStreamConnect(k, s) ==
    /\ ~stopping
    /\ follows[k] = None_
    /\ getStreamManager
    /\ follows' = IF stream[s].listed THEN addConnection(k, s) ELSE follows
    /\ stream' = [stream EXCEPT ![s].early = @ \ {k}]
    /\ UNCHANGED stopping

\* The client goes: res.on('close').
disconnect(k) ==
    /\ follows[k] # None_
    /\ follows' = [follows EXCEPT ![k] = None_]
    /\ UNCHANGED <<stream, managerUp, stopping>>

\* progress(); log() and toolCall() are like it.
Reported(rec, percent) == [rec EXCEPT !.left = @ - 1, !.age = 0, !.progress = percent]

\* handleProgress, handleLog, handleToolEvent: a report of the sandbox.  One
\* that was not awaited can come after complete().
report(s, percent) ==
    /\ stream[s].left > 0
    /\ stream[s].state # "none"
    /\ getStreamManager
    /\ stream' = IF stream[s].listed THEN [stream EXCEPT ![s] = Reported(@, percent)]
                 ELSE [stream EXCEPT ![s].left = @ - 1]
    /\ UNCHANGED <<follows, stopping>>

\* Mutant: complete() leaves the connections to the cleanup.
complete_KeepsOpen(s, success) ==
    /\ stream[s].held
    /\ stream' = [stream EXCEPT ![s] = [@ EXCEPT !.state = IF success THEN "completed" ELSE "error",
                                                !.held = FALSE, !.progress = 100, !.age = 0,
                                                !.early = Connections(s), !.closing = FALSE]]
    /\ UNCHANGED <<follows, managerUp, stopping>>

\* complete(), when execute() returned.
complete(s, success) ==
    /\ stream[s].held
    /\ stream' = [stream EXCEPT ![s] = [@ EXCEPT !.state = IF success THEN "completed" ELSE "error",
                                                !.held = FALSE, !.progress = 100, !.age = 0,
                                                !.early = Connections(s), !.closing = TRUE]]
    /\ UNCHANGED <<follows, managerUp, stopping>>

\* execute() threw: the stream stays "running".
abandon(s) ==
    /\ stream[s].held
    /\ stream' = [stream EXCEPT ![s].held = FALSE]
    /\ UNCHANGED <<follows, managerUp, stopping>>

\* 100 ms after complete() the connections are closed.
closeAllConnections(s) ==
    /\ stream[s].closing
    /\ stream' = [stream EXCEPT ![s].closing = FALSE]
    /\ follows' = Cut({s})
    /\ UNCHANGED <<managerUp, stopping>>

-----------------------------------------------------------------------------
\* What cleanupStaleStreams removes.
Stale(s) ==
    /\ stream[s].listed
    /\ \/ stream[s].state \in {"completed", "error"} /\ ~HasConnections(s) /\ stream[s].age > 1
       \/ stream[s].state \in {"completed", "error"} /\ stream[s].age > 2
       \/ stream[s].state = "running" /\ stream[s].age > 3

\* The cleanup interval: removeStream() closes the connections.
cleanupStaleStreams ==
    /\ managerUp
    /\ \E s \in Streams : Stale(s)
    /\ follows' = Cut({s \in Streams : Stale(s)})
    /\ stream' = [s \in Streams |-> IF Stale(s) THEN [stream[s] EXCEPT !.listed = FALSE] ELSE stream[s]]
    /\ UNCHANGED <<managerUp, stopping>>

\* MCPExecutorServer.stop(): shutdownStreamManager(), and in the same turn
\* the bridge stops accepting connections.
shutdownStreamManager ==
    /\ ~stopping
    /\ stopping' = TRUE
    /\ follows' = Cut({s \in Streams : stream[s].listed})
    /\ stream' = [s \in Streams |-> [stream[s] EXCEPT !.listed = FALSE]]
    /\ managerUp' = FALSE

\* Five minutes pass.
age ==
    /\ \E s \in Streams : stream[s].listed /\ stream[s].age < 4
    /\ \A s \in Streams : ~stream[s].closing
    /\ stream' = [s \in Streams |-> IF stream[s].listed /\ stream[s].age < 4
                                    THEN [stream[s] EXCEPT !.age = @ + 1] ELSE stream[s]]
    /\ UNCHANGED <<follows, managerUp, stopping>>

ESNext ==
    \/ \E s \in Streams :
          \/ createStream(s) \/ abandon(s) \/ closeAllConnections(s)
          \/ \E success \in BOOLEAN : complete(s, success)
          \/ \E percent \in {0, 100} : report(s, percent)
          \/ \E k \in Clients : handleStreamConnect(k, s)
    \/ \E k \in Clients : disconnect(k)
    \/ cleanupStaleStreams \/ shutdownStreamManager \/ age

ESSpec == ESInit /\ [][ESNext]_esVars

\* Timers fire and time passes.  Executions have a time limit.
ESFairness ==
    /\ \A s \in Streams : /\ WF_esVars(closeAllConnections(s))
                          /\ WF_esVars(abandon(s) \/ complete(s, TRUE))
    /\ WF_esVars(age)
    /\ WF_esVars(cleanupStaleStreams)

-----------------------------------------------------------------------------
ESTypeOK ==
    /\ stream \in [Streams -> [state : {"none", "running", "completed", "error"}, listed : BOOLEAN,
                               held : BOOLEAN, age : 0 .. 4, left : 0 .. MaxReports,
                               progress : 0 .. 100, early : SUBSET Clients, closing : BOOLEAN]]
    /\ follows \in [Clients -> Streams \cup {None_}]
    /\ managerUp \in BOOLEAN
    /\ stopping \in BOOLEAN

(***************************************************************************)
(* The response of a client that is connected belongs to a stream that can *)
(* still be found, so someone will end it.  stop() waits for every open    *)
(* response: one that nobody can end would keep the process until it is    *)
(* killed.                                                                 *)
(***************************************************************************)
NoOrphanConnection == \A k \in Clients : follows[k] # None_ => stream[follows[k]].listed

(***************************************************************************)
(* Those who were connected when the execution completed are not kept      *)
(* connected after the grace of 100 ms.                                    *)
(***************************************************************************)
ClosedAfterComplete ==
    \A s \in Streams : ~stream[s].closing => \A k \in stream[s].early : follows[k] # s

(***************************************************************************)
(* Every stream is forgotten, also when its execution threw and when a     *)
(* client never goes.                                                      *)
(***************************************************************************)
StreamForgotten == \A s \in Streams : stream[s].listed ~> ~stream[s].listed

(***************************************************************************)
(* The types, and no connection left to nobody or kept after the end.      *)
(***************************************************************************)
ESInv == ESTypeOK /\ NoOrphanConnection /\ ClosedAfterComplete
=============================================================================
