---------------------------- MODULE DaemonClient ----------------------------
(***************************************************************************)
(* DaemonClient of src/src/daemon/client.ts against the connection handler *)
(* of src/src/daemon/server.ts: the handshake, requests and their answers, *)
(* lost connections, and connect(), disconnect() and requests of several   *)
(* callers of one client.                                                  *)
(*                                                                         *)
(* A message is its id with the caller it is meant for; the client goes by *)
(* the id alone.  A chunk may end inside a line: "half" is the socket      *)
(* whose unfinished line is in the one buffer all sockets share.           *)
(***************************************************************************)
EXTENDS Naturals, Sequences, FiniteSets

CONSTANTS Agents,       \* concurrent users of the client
          MaxSockets,   \* bound on the sockets that are opened
          MaxIds        \* bound on the ids that are given out

ASSUME DCAssumption == MaxSockets \in Nat \ {0} /\ MaxIds \in Nat \ {0}

VARIABLES
    sock,       \* the state of each socket, as the client sees it
    trusted,    \* server: the sockets that are authenticated
    up,         \* what the server has not read yet, in order
    down,       \* what the client has not read yet
    current,    \* this.socket, 0 for null
    connected,  \* this.connected
    pending,    \* this.pending, as a set of [id, agent, sock]
    nextId,     \* this.nextId
    half,       \* whose unfinished line this.buffer holds, 0 for nobody's
    agent,      \* what each user awaits
    overlap,    \* history: connect() or disconnect() was called during another
    lineLost    \* history: a line was spoilt by an unfinished one, or dropped

dcVars == <<sock, trusted, up, down, current, connected, pending, nextId, half,
            agent, overlap, lineLost>>

DCSockets == 1 .. MaxSockets
Challenge == 0
Calm == [pc |-> "idle", sock |-> 0]

DCInit ==
    /\ sock = [s \in DCSockets |-> "none"]
    /\ trusted = {}
    /\ up = [s \in DCSockets |-> <<>>]
    /\ down = [s \in DCSockets |-> {}]
    /\ current = 0
    /\ connected = FALSE
    /\ pending = {}
    /\ nextId = 1
    /\ half = 0
    /\ agent = [a \in Agents |-> Calm]
    /\ overlap = FALSE
    /\ lineLost = FALSE

\* socket.destroyed is still false.
Writable(s) == s # 0 /\ sock[s] \in {"open", "ending", "hungup"}

Live(s) == sock[s] \in {"open", "ending", "hungup"}

Reconnecting == \E a \in Agents : agent[a].pc \in {"opening", "challenge", "auth", "ending"}

\* rejectAllPending().
Rejected_(agents) == [a \in Agents |-> IF \E p \in pending : p.agent = a THEN Calm ELSE agents[a]]

-----------------------------------------------------------------------------
\* connect() up to the end of openSocket().
connect(a) ==
    /\ agent[a].pc = "idle" /\ ~connected
    /\ \E s \in DCSockets :
          /\ sock[s] = "none" /\ \A r \in 1 .. s - 1 : sock[r] # "none"
          /\ sock' = [sock EXCEPT ![s] = "opening"]
          /\ agent' = [agent EXCEPT ![a] = [pc |-> "opening", sock |-> s]]
    /\ overlap' = (overlap \/ Reconnecting)
    /\ UNCHANGED <<trusted, up, down, current, connected, pending, nextId, half, lineLost>>

\* The server accepts and sends the challenge; the client waits for it under
\* an id of its own, in the place of whoever waits there already.
opened(a) ==
    LET s == agent[a].sock
    IN  /\ agent[a].pc = "opening"
        /\ sock' = [sock EXCEPT ![s] = "open"]
        /\ down' = [down EXCEPT ![s] = {[id |-> Challenge, agent |-> a, ok |-> TRUE]}]
        /\ current' = s
        /\ pending' = {p \in pending : p.id # Challenge} \cup {[id |-> Challenge, agent |-> a, sock |-> s]}
        /\ agent' = [agent EXCEPT ![a].pc = "challenge"]
        /\ UNCHANGED <<trusted, up, connected, nextId, half, overlap, lineLost>>

\* An error, or connectTimeoutMs.
openFails(a) ==
    /\ agent[a].pc = "opening"
    /\ sock' = [sock EXCEPT ![agent[a].sock] = "closed"]
    /\ agent' = [agent EXCEPT ![a] = Calm]
    /\ UNCHANGED <<trusted, up, down, current, connected, pending, nextId, half, overlap, lineLost>>

\* Writing to a socket that was ended is an error of the socket.
Wrote(s) == IF sock[s] = "ending" THEN "broken" ELSE sock[s]

\* rpc() on this.socket, with "others" waiting already: a socket that is gone
\* is reported at once, one that is not authenticated yet is written to.
rpc(a, kind, nonce, others) ==
    IF Writable(current)
    THEN /\ nextId <= MaxIds
         /\ pending' = others \cup {[id |-> nextId, agent |-> a, sock |-> current]}
         /\ up' = [up EXCEPT ![current] = Append(@, [id |-> nextId, agent |-> a, kind |-> kind, nonce |-> nonce])]
         /\ sock' = [sock EXCEPT ![current] = Wrote(current)]
         /\ nextId' = nextId + 1
         /\ agent' = [agent EXCEPT ![a] = [pc |-> kind, sock |-> current]]
    ELSE /\ pending' = others
         /\ agent' = [agent EXCEPT ![a] = Calm]
         /\ UNCHANGED <<up, sock, nextId>>

\* callTool, kvGet, lockAcquire, subscribe, ... : requests without a time limit.
sendRequest(a) ==
    /\ agent[a].pc = "idle"
    /\ Writable(current)
    /\ rpc(a, "call", 0, pending)
    /\ UNCHANGED <<trusted, down, current, connected, half, overlap, lineLost>>

\* disconnect() up to its await.
disconnect(a) ==
    /\ agent[a].pc = "idle"
    /\ connected' = FALSE
    /\ overlap' = (overlap \/ Reconnecting)
    /\ IF current # 0 /\ sock[current] \in {"open", "ending", "hungup", "broken"}
       THEN /\ sock' = [sock EXCEPT ![current] = IF @ = "open" THEN "ending" ELSE @]
            /\ agent' = [agent EXCEPT ![a] = [pc |-> "ending", sock |-> current]]
            /\ UNCHANGED current
       ELSE current' = 0 /\ UNCHANGED <<sock, agent>>
    /\ UNCHANGED <<trusted, up, down, pending, nextId, half, lineLost>>

\* The 'close' event or a second later: whatever this.socket is by now, it
\* becomes null.
disconnected(a) ==
    /\ agent[a].pc = "ending"
    /\ current' = 0
    /\ agent' = [agent EXCEPT ![a] = Calm]
    /\ UNCHANGED <<sock, trusted, up, down, connected, pending, nextId, half, overlap, lineLost>>

-----------------------------------------------------------------------------
\* The server reads a line.  What comes first must be the answer to its
\* challenge; the lines after it in the same chunk are dropped.
serve(s) ==
    /\ sock[s] \in {"open", "ending", "broken"} /\ up[s] # <<>>
    /\ LET m == Head(up[s])
           Answered(ok) == [down EXCEPT ![s] = @ \cup {[id |-> m.id, agent |-> m.agent, ok |-> ok]}]
       IN  \/ /\ s \in trusted
              /\ up' = [up EXCEPT ![s] = Tail(@)]
              /\ down' = Answered(TRUE)
              /\ UNCHANGED <<trusted, sock, lineLost>>
           \/ /\ s \notin trusted /\ m.kind = "auth" /\ m.nonce = s
              /\ trusted' = trusted \cup {s}
              /\ \E rest \in {Tail(up[s]), <<>>} :
                    /\ up' = [up EXCEPT ![s] = rest]
                    /\ lineLost' = (lineLost \/ rest # Tail(up[s]))
              /\ down' = Answered(TRUE)
              /\ UNCHANGED sock
           \/ /\ s \notin trusted /\ ~(m.kind = "auth" /\ m.nonce = s)
              /\ up' = [up EXCEPT ![s] = <<>>]
              /\ down' = Answered(FALSE) \/ down' = down
              /\ sock' = [sock EXCEPT ![s] = "hungup"]
              /\ UNCHANGED <<trusted, lineLost>>
    /\ UNCHANGED <<current, connected, pending, nextId, half, agent, overlap>>

\* The server's end goes away: ten seconds without authentication, shutdown,
\* a crash, a network that is gone.
hangUp(s) ==
    /\ sock[s] = "open"
    /\ sock' = [sock EXCEPT ![s] = "hungup"]
    /\ up' = [up EXCEPT ![s] = <<>>]
    /\ UNCHANGED <<trusted, down, current, connected, pending, nextId, half, agent, overlap, lineLost>>

\* A chunk that ends inside a line.
partialData(s) ==
    /\ Live(s) /\ down[s] # {} /\ half = 0
    /\ half' = s
    /\ UNCHANGED <<sock, trusted, up, down, current, connected, pending, nextId, agent, overlap, lineLost>>

\* handleResponse(): the challenge is answered, and an answer goes to whoever
\* waits under its id.
Delivered(s, m) ==
    \/ /\ \A p \in pending : p.id # m.id
       /\ UNCHANGED <<pending, agent, up, sock, nextId, connected>>
    \/ \E p \in pending :
          /\ p.id = m.id
          /\ \/ p.id = Challenge /\ rpc(p.agent, "auth", s, pending \ {p}) /\ UNCHANGED connected
             \/ /\ p.id # Challenge
                /\ pending' = pending \ {p}
                /\ connected' = (connected \/ (agent[p.agent].pc = "auth" /\ m.ok))
                /\ agent' = [agent EXCEPT ![p.agent] = Calm]
                /\ UNCHANGED <<up, sock, nextId>>

\* onData(): a line of s, unless the rest of another socket's is before it.
onData(s) ==
    /\ Live(s)
    /\ \E m \in down[s] :
          /\ m.id = Challenge \/ \A n \in down[s] : n.id # Challenge
          /\ half' = 0
          /\ IF half \in {0, s}
             THEN /\ Delivered(s, m)
                  /\ down' = [down EXCEPT ![s] = @ \ {m}]
                  /\ UNCHANGED lineLost
             ELSE /\ \E lost \in SUBSET down[half] :
                        /\ Cardinality(lost) = IF down[half] = {} THEN 0 ELSE 1
                        /\ down' = [down EXCEPT ![s] = @ \ {m}, ![half] = @ \ lost]
                  /\ lineLost' = TRUE
                  /\ UNCHANGED <<pending, agent, up, sock, nextId, connected>>
    /\ UNCHANGED <<trusted, current, overlap>>

\* The 'error' event of a socket that was written to after its end.
socketError(s) ==
    /\ sock[s] = "broken"
    /\ sock' = [sock EXCEPT ![s] = "destroyed"]
    /\ agent' = Rejected_(agent)
    /\ pending' = {}
    /\ UNCHANGED <<trusted, up, down, current, connected, nextId, half, overlap, lineLost>>

\* Mutant: those who wait are told only if the socket is the current one.
closed_CurrentOnly(s) ==
    /\ sock[s] \in {"ending", "hungup", "destroyed"}
    /\ sock' = [sock EXCEPT ![s] = "closed"]
    /\ up' = [up EXCEPT ![s] = <<>>]
    /\ down' = [down EXCEPT ![s] = {}]
    /\ IF s = current
       THEN connected' = FALSE /\ pending' = {} /\ agent' = Rejected_(agent)
       ELSE UNCHANGED <<connected, pending, agent>>
    /\ UNCHANGED <<trusted, current, nextId, half, overlap, lineLost>>

\* The 'close' event of any socket, of an old one as well: everybody who waits
\* is rejected, and the client counts as not connected.
closed(s) ==
    /\ sock[s] \in {"ending", "hungup", "destroyed"}
    /\ sock' = [sock EXCEPT ![s] = "closed"]
    /\ up' = [up EXCEPT ![s] = <<>>]
    /\ down' = [down EXCEPT ![s] = {}]
    /\ connected' = FALSE
    /\ pending' = {}
    /\ agent' = Rejected_(agent)
    /\ UNCHANGED <<trusted, current, nextId, half, overlap, lineLost>>

DCNext ==
    \/ \E a \in Agents :
          connect(a) \/ opened(a) \/ openFails(a) \/ sendRequest(a) \/ disconnect(a) \/ disconnected(a)
    \/ \E s \in DCSockets :
          serve(s) \/ hangUp(s) \/ partialData(s) \/ onData(s) \/ socketError(s) \/ closed(s)

DCSpec == DCInit /\ [][DCNext]_dcVars

\* The time limit of openSocket(), the second disconnect() waits at most, the
\* events of the sockets, a server that answers, and its deadline of ten
\* seconds for those that do not authenticate.
DCFairness ==
    /\ \A a \in Agents : WF_dcVars(openFails(a)) /\ WF_dcVars(disconnected(a))
    /\ \A s \in DCSockets :
          /\ WF_dcVars(serve(s))
          /\ WF_dcVars(onData(s))
          /\ WF_dcVars(socketError(s))
          /\ WF_dcVars(closed(s))
          /\ WF_dcVars(s \notin trusted /\ hangUp(s))

-----------------------------------------------------------------------------
DCTypeOK ==
    /\ sock \in [DCSockets -> {"none", "opening", "open", "ending", "hungup", "broken", "destroyed", "closed"}]
    /\ trusted \subseteq DCSockets
    /\ current \in 0 .. MaxSockets /\ half \in 0 .. MaxSockets
    /\ connected \in BOOLEAN /\ overlap \in BOOLEAN /\ lineLost \in BOOLEAN
    /\ nextId \in 1 .. MaxIds + 1
    /\ \A p \in pending : p.id \in 0 .. MaxIds /\ p.agent \in Agents /\ p.sock \in DCSockets
    /\ agent \in [Agents -> [pc : {"idle", "opening", "challenge", "auth", "call", "ending"},
                             sock : 0 .. MaxSockets]]

(***************************************************************************)
(* Who waits for the answer to a request is in the map of the client, and  *)
(* his socket is not closed: rejectAllPending() of whichever socket goes   *)
(* reaches everybody (client.ts).                                          *)
(***************************************************************************)
WaitsInVainForNobody ==
    \A a \in Agents : agent[a].pc \in {"auth", "call"} =>
        /\ Cardinality({p \in pending : p.agent = a}) = 1
        /\ sock[agent[a].sock] # "closed"

(***************************************************************************)
(* An answer that is still on its way can settle only the request it       *)
(* belongs to: the ids go on from one socket to the next.                  *)
(***************************************************************************)
AnswersItsOwn ==
    \A s \in DCSockets : \A m \in down[s], p \in pending :
        m.id = p.id /\ m.id # Challenge => m.agent = p.agent /\ p.sock = s

(***************************************************************************)
(* A client that takes itself for connected has a socket that can be used, *)
(* authenticated and not closed, as long as connect() and disconnect() do  *)
(* not overlap.                                                            *)
(***************************************************************************)
ConnectedIsUsable ==
    connected /\ ~overlap =>
        current # 0 /\ current \in trusted /\ sock[current] \notin {"none", "opening", "closed"}

(***************************************************************************)
(* The client keeps its promises to those who wait.                        *)
(***************************************************************************)
DCInv == DCTypeOK /\ WaitsInVainForNobody /\ AnswersItsOwn /\ ConnectedIsUsable

(***************************************************************************)
(* Every request and every connect() returns, if the server answers or     *)
(* goes away, unless connect() or disconnect() overlap or a line was lost. *)
(***************************************************************************)
RequestReturns ==
    \A a \in Agents : agent[a].pc \in {"opening", "challenge", "auth", "call", "ending"}
                          ~> agent[a].pc = "idle" \/ overlap \/ lineLost
=============================================================================
