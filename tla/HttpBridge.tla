----------------------------- MODULE HttpBridge -----------------------------
(***************************************************************************)
(* The HTTP bridge (src/bridge/http-server.ts): the life of its server, of *)
(* its requests, and of the sessions of src/bridge/session-registry.ts.    *)
(* What a request says is reduced to what the bridge tells apart.          *)
(***************************************************************************)
EXTENDS Integers, FiniteSets

CONSTANTS
    Requests,         \* requests open at once
    MaxSessions,      \* MAX_BRIDGE_SESSIONS
    SessionTtl,       \* BRIDGE_SESSION_TTL_MS, in ticks
    MaxSessionsMade   \* bound: sessions ever created

ASSUME HttpBridgeAssumption ==
    {MaxSessions, SessionTtl, MaxSessionsMade} \subseteq Nat \ {0}

VARIABLES
    server,       \* "off", "on" or "closing": no new request is accepted
    handlers,     \* setHandlers() was called
    sessions,     \* for every session of the registry the ticks since lastSeenAt
    sessionsMade, \* how many were created
    request       \* the requests

hbVars == <<server, handlers, sessions, sessionsMade, request>>

SessionId == 1 .. MaxSessionsMade
Known == DOMAIN sessions
StaleSessions == {id \in Known : sessions[id] > SessionTtl}

\* "free"; "body" (readBody); "backend" (handlers.callTool); "answered" with
\* status.
NoRequest == [pc |-> "free", status |-> 0]
Answer(s) == [pc |-> "answered", status |-> s]

HBInit ==
    /\ server = "off"
    /\ handlers \in BOOLEAN
    /\ sessions = [id \in {} |-> 0]
    /\ sessionsMade = 0
    /\ request = [r \in Requests |-> NoRequest]

Without(S) == [id \in Known \ S |-> sessions[id]]
With(reg, id) == [x \in DOMAIN reg \cup {id} |-> IF x = id THEN 0 ELSE reg[x]]

-----------------------------------------------------------------------------
\* Mutant: the session that was created first is evicted.
evictIfFull_Oldest ==
    IF Cardinality(Known) < MaxSessions THEN sessions
    ELSE Without({CHOOSE id \in Known : \A x \in Known : id <= x})

\* evictIfFull(): the session that was seen the longest ago, the first one
\* created among equals.
evictIfFull ==
    IF Cardinality(Known) < MaxSessions THEN sessions
    ELSE Without({CHOOSE id \in Known :
                    \A x \in Known : sessions[id] > sessions[x] \/ (sessions[id] = sessions[x] /\ id <= x)})

\* create()
createSession ==
    /\ sessionsMade < MaxSessionsMade
    /\ sessionsMade' = sessionsMade + 1
    /\ sessions' = With(evictIfFull, sessionsMade')

\* create() and terminate() of the same session.
deleteNewSession ==
    /\ sessionsMade < MaxSessionsMade
    /\ sessionsMade' = sessionsMade + 1
    /\ sessions' = evictIfFull

\* start(): the server listens.
start ==
    /\ server = "off"
    /\ server' = "on"
    /\ UNCHANGED <<handlers, sessions, sessionsMade, request>>

\* handleRequest for what needs no session: a foreign Host or Origin, OPTIONS,
\* and the paths of the sandbox.  The readers answer at once.
internal(r) ==
    /\ server = "on"
    /\ request[r].pc = "free"
    /\ \E next \in {Answer(403), Answer(204), Answer(200), Answer(404),
                    IF handlers THEN [pc |-> "body", status |-> 0] ELSE Answer(503)} :
          request' = [request EXCEPT ![r] = next]
    /\ UNCHANGED <<server, handlers, sessions, sessionsMade>>

\* handleRequest for any other path with the Mcp-Session-Id of a client:
\* touch(), and DELETE /session.  An expired session is forgotten here.
withSession(r, id) ==
    /\ server = "on"
    /\ request[r].pc = "free"
    /\ id <= sessionsMade
    /\ \/ /\ id \in Known \ StaleSessions
          /\ \/ /\ sessions' = With(sessions, id)
                /\ request' = [request EXCEPT ![r] = Answer(404)]
             \/ /\ sessions' = Without({id})
                /\ request' = [request EXCEPT ![r] = Answer(204)]
       \/ /\ id \notin Known \ StaleSessions
          /\ sessions' = Without({id})
          /\ request' = [request EXCEPT ![r] = Answer(404)]
    /\ UNCHANGED <<server, handlers, sessionsMade>>

\* The same without the header: a session is created, whatever the path, and
\* DELETE /session ends the one it has just got.
withoutSession(r) ==
    /\ server = "on"
    /\ request[r].pc = "free"
    /\ \/ createSession /\ request' = [request EXCEPT ![r] = Answer(404)]
       \/ deleteNewSession /\ request' = [request EXCEPT ![r] = Answer(204)]
    /\ UNCHANGED <<server, handlers>>

\* readBody() and what handleToolCall, handleLog and their like make of it: too
\* long, unreadable (the connection broke, or no JSON), without the fields, an
\* event taken, or a call for the backend.
readBody(r) ==
    /\ request[r].pc = "body"
    /\ \E next \in {Answer(413), Answer(500), Answer(400), Answer(200),
                    [pc |-> "backend", status |-> 0]} :
          request' = [request EXCEPT ![r] = next]
    /\ UNCHANGED <<server, handlers, sessions, sessionsMade>>

\* Mutant: an error of the backend is not answered.
handleToolCall_Loses(r) ==
    /\ request[r].pc = "backend"
    /\ \E next \in {Answer(200), [pc |-> "failed", status |-> 0]} : request' = [request EXCEPT ![r] = next]
    /\ UNCHANGED <<server, handlers, sessions, sessionsMade>>

\* The end of handleToolCall: the result, or the error of the backend.
handleToolCall(r) ==
    /\ request[r].pc = "backend"
    /\ \E s \in {200, 500} : request' = [request EXCEPT ![r] = Answer(s)]
    /\ UNCHANGED <<server, handlers, sessions, sessionsMade>>

\* The client has its answer.
finished(r) ==
    /\ request[r].pc = "answered"
    /\ request' = [request EXCEPT ![r] = NoRequest]
    /\ UNCHANGED <<server, handlers, sessions, sessionsMade>>

-----------------------------------------------------------------------------
\* sweep()
sweep ==
    /\ server # "off"
    /\ sessions' = Without(StaleSessions)
    /\ UNCHANGED <<server, handlers, sessionsMade, request>>

\* stop() up to its await.
stop ==
    /\ server = "on"
    /\ server' = "closing"
    /\ UNCHANGED <<handlers, sessions, sessionsMade, request>>

\* Mutant: stop() does not wait for the requests that are open.
stopped_AtOnce ==
    /\ server = "closing"
    /\ server' = "off"
    /\ sessions' = Without(Known)
    /\ UNCHANGED <<handlers, sessionsMade, request>>

\* server.close() calls back when the last request is answered.
stopped ==
    /\ server = "closing"
    /\ \A r \in Requests : request[r].pc = "free"
    /\ server' = "off"
    /\ sessions' = Without(Known)
    /\ UNCHANGED <<handlers, sessionsMade, request>>

\* Time passes.  How long ago a session expired makes no difference.
pass ==
    /\ sessions' = [id \in Known |-> IF id \in StaleSessions THEN sessions[id] ELSE sessions[id] + 1]
    /\ UNCHANGED <<server, handlers, sessionsMade, request>>

HBNext ==
    \/ \E r \in Requests : \/ internal(r) \/ withoutSession(r) \/ readBody(r)
                           \/ handleToolCall(r) \/ finished(r)
                           \/ \E id \in SessionId : withSession(r, id)
    \/ start \/ sweep \/ stop \/ stopped \/ pass

HBSpec == HBInit /\ [][HBNext]_hbVars

\* Bodies arrive or their connections break, backends answer or time out, and
\* clients take what they are sent.
HBFairness ==
    /\ \A r \in Requests : WF_hbVars(readBody(r)) /\ WF_hbVars(handleToolCall(r)) /\ WF_hbVars(finished(r))
    /\ WF_hbVars(stopped)

-----------------------------------------------------------------------------
HBTypeOK ==
    /\ server \in {"off", "on", "closing"}
    /\ handlers \in BOOLEAN
    /\ Known \subseteq 1 .. sessionsMade
    /\ Cardinality(Known) <= MaxSessions
    /\ sessionsMade \in 0 .. MaxSessionsMade
    /\ request \in [Requests -> [pc : {"free", "body", "backend", "answered"}, status : 0 .. 503]]

(***************************************************************************)
(* A full registry gives up the session that was seen the longest ago: as  *)
(* long as an expired one is there, no live one is evicted.                *)
(***************************************************************************)
EvictsStalest ==
    [][\A id \in Known \ DOMAIN sessions' :
         sessionsMade' > sessionsMade => \A x \in Known \cap DOMAIN sessions' : sessions[x] <= sessions[id]]_hbVars

(***************************************************************************)
(* A session is lost only because it expired, its client ended it, the     *)
(* registry was full, or the bridge has stopped.                           *)
(***************************************************************************)
LostForAReason ==
    [][\A id \in Known \ DOMAIN sessions' :
         \/ id \in StaleSessions
         \/ Cardinality(Known) = MaxSessions /\ sessionsMade' > sessionsMade
         \/ \E r \in Requests : request[r].pc = "free" /\ request'[r] = Answer(204)
         \/ server' = "off"]_hbVars

(***************************************************************************)
(* No request is cut off by stop(): while one is open the server is there. *)
(***************************************************************************)
NoRequestCutOff == server = "off" => \A r \in Requests : request[r].pc = "free"

(***************************************************************************)
(* Every request is answered and stop() returns, whatever a body or a      *)
(* backend does.                                                           *)
(***************************************************************************)
EveryRequestAnswered ==
    /\ \A r \in Requests : request[r].pc \in {"body", "backend"} ~> request[r].pc = "answered"
    /\ server = "closing" ~> server = "off"

(***************************************************************************)
(* The types, the bound on the sessions, and no request that is cut off.   *)
(***************************************************************************)
HBInv == HBTypeOK /\ NoRequestCutOff

(***************************************************************************)
(* Sessions are lost for a reason, and the stalest first.                  *)
(***************************************************************************)
SessionsKept == EvictsStalest /\ LostForAReason
=============================================================================
