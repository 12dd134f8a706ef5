------------------------- MODULE Connections_proofs -------------------------
(***************************************************************************)
(* What stands between the processes, each part with its inductive         *)
(* invariant: the client of the daemon and its socket, the start of the    *)
(* daemon, its store, the pool of connections and the bridge with its      *)
(* sessions.                                                               *)
(***************************************************************************)
EXTENDS DaemonClient, DaemonStartup, SharedKV, ConnectionPool, HttpBridge, SequenceTheorems, FiniteSetTheorems, WellFoundedInduction, TLAPS

-----------------------------------------------------------------------------
(***************************************************************************)
(* HBInv and SessionsKept for any number of requests and sessions.  The    *)
(* registry is a finite function from the sessions it created to ages; the *)
(* lemma that carries the rest is that a full registry always has a        *)
(* stalest session, the one the CHOOSE of evictIfFull picks.               *)
(***************************************************************************)

\* The ages, which HBTypeOK leaves out.
AgesInv == sessions \in [Known -> 0 .. SessionTtl + 1]

BridgeInv == HBInv /\ AgesInv

LEMMA KnownIsFinite ==
    ASSUME HBTypeOK
    PROVE  IsFiniteSet(Known) /\ Cardinality(Known) \in Nat
<1>1. IsFiniteSet(1 .. sessionsMade)
    BY FS_Interval DEF HBTypeOK
<1>2. IsFiniteSet(Known)
    BY <1>1, FS_Subset DEF HBTypeOK
<1>. QED BY <1>2, FS_CardinalityType

\* A set of numbers has a least element.
LEMMA LeastNumber ==
    ASSUME NEW T, T \subseteq Nat, T # {}
    PROVE  \E x \in T : \A y \in T : x <= y
<1> DEFINE Less == {ss \in Nat \X Nat : ss[1] < ss[2]}
<1>1. IsWellFoundedOn(Less, Nat)
    BY NatLessThanWellFounded DEF OpToRel
<1>2. \A x, y \in Nat : x < y => <<x, y>> \in Less
    OBVIOUS
<1> HIDE DEF Less
<1>3. PICK x \in T : \A y \in T : <<y, x>> \notin Less
    BY <1>1, WFMin
<1>4. \A y \in T : ~(y < x)
    BY <1>2, <1>3
<1>. QED BY <1>3, <1>4

\* The order in which sessions are given up.
Staler(id, x) == sessions[id] > sessions[x] \/ (sessions[id] = sessions[x] /\ id <= x)

LEMMA StalestExists ==
    ASSUME BridgeInv, Known # {}
    PROVE  \E id \in Known : \A x \in Known : Staler(id, x)
<1>0. SessionTtl \in Nat /\ Known \subseteq Nat /\ \A x \in Known : sessions[x] \in 0 .. SessionTtl + 1
    BY HttpBridgeAssumption DEF BridgeInv, HBInv, HBTypeOK, AgesInv
<1> DEFINE TimeLeft == {SessionTtl + 1 - sessions[x] : x \in Known}
<1>1. TimeLeft \subseteq Nat /\ TimeLeft # {}
    <2>1. \A x \in Known : SessionTtl + 1 - sessions[x] \in Nat
        BY <1>0
    <2>. QED BY <2>1
<1>2. PICK m \in TimeLeft : \A y \in TimeLeft : m <= y
    <2> HIDE DEF TimeLeft
    <2>. QED BY <1>1, LeastNumber
<1> DEFINE Oldest == {x \in Known : SessionTtl + 1 - sessions[x] = m}
<1>3. Oldest \subseteq Nat /\ Oldest # {}
    BY <1>0, <1>2
<1>4. PICK id \in Oldest : \A y \in Oldest : id <= y
    <2> HIDE DEF Oldest
    <2>. QED BY <1>3, LeastNumber
<1>5. ASSUME NEW x \in Known
      PROVE  Staler(id, x)
    <2>1. m <= SessionTtl + 1 - sessions[x]
        BY <1>2
    <2>2. sessions[id] = SessionTtl + 1 - m /\ id \in Known
        BY <1>0, <1>4
    <2>3. CASE sessions[x] = sessions[id]
        <3>1. x \in Oldest
            BY <1>0, <2>2, <2>3
        <3>. QED BY <1>4, <2>3, <3>1 DEF Staler
    <2>4. CASE sessions[x] # sessions[id]
        BY <1>0, <2>1, <2>2, <2>4 DEF Staler
    <2>. QED BY <2>3, <2>4
<1>. QED BY <1>4, <1>5

\* What a new session finds: room for it, and at most the stalest one gone.
LEMMA EvictionMakesRoom ==
    ASSUME BridgeInv
    PROVE  \E S \in SUBSET Known :
              /\ evictIfFull = Without(S)
              /\ Cardinality(Known \ S) < MaxSessions
              /\ S # {} => Cardinality(Known) = MaxSessions
              /\ \A id \in S, x \in Known : sessions[x] <= sessions[id]
<1>0. /\ IsFiniteSet(Known) /\ Cardinality(Known) \in Nat /\ MaxSessions \in Nat \ {0}
      /\ Cardinality(Known) <= MaxSessions
      /\ \A x \in Known : sessions[x] \in Nat
    BY KnownIsFinite, HttpBridgeAssumption DEF BridgeInv, HBInv, HBTypeOK, AgesInv
<1>1. CASE Cardinality(Known) < MaxSessions
    <2>1. evictIfFull = Without({})
        BY <1>1 DEF evictIfFull, Without, AgesInv, BridgeInv
    <2>2. Known \ {} = Known
        OBVIOUS
    <2>. QED BY <1>1, <2>1, <2>2
<1>2. CASE ~(Cardinality(Known) < MaxSessions)
    <2> DEFINE c == CHOOSE id \in Known : \A x \in Known : Staler(id, x)
    <2>1. Known # {}
        BY <1>0, <1>2, FS_EmptySet
    <2>2. c \in Known /\ \A x \in Known : Staler(c, x)
        BY <2>1, StalestExists
    <2>3. evictIfFull = Without({c})
        BY <1>2 DEF evictIfFull, Staler
    <2> HIDE DEF c
    <2>4. Cardinality(Known \ {c}) = Cardinality(Known) - 1
        BY <1>0, <2>2, FS_RemoveElement
    <2>5. \A x \in Known : sessions[x] <= sessions[c]
        BY <1>0, <2>2 DEF Staler
    <2>6. Cardinality(Known) = MaxSessions
        BY <1>0, <1>2
    <2>. QED BY <1>0, <2>2, <2>3, <2>4, <2>5, <2>6
<1>. QED BY <1>1, <1>2

\* create(): the bound is kept, and what is lost is the stalest of a full
\* registry.
LEMMA Created ==
    ASSUME BridgeInv, createSession
    PROVE  /\ sessionsMade' \in 1 .. MaxSessionsMade
           /\ Known' \subseteq 1 .. sessionsMade'
           /\ Cardinality(Known') <= MaxSessions
           /\ sessions' \in [Known' -> 0 .. SessionTtl + 1]
           /\ \A id \in Known \ Known' :
                /\ Cardinality(Known) = MaxSessions
                /\ \A x \in Known : sessions[x] <= sessions[id]
<1> USE DEF BridgeInv, HBInv, AgesInv
<1>0. /\ sessionsMade \in 0 .. MaxSessionsMade /\ sessionsMade < MaxSessionsMade
      /\ sessionsMade' = sessionsMade + 1 /\ sessions' = With(evictIfFull, sessionsMade')
      /\ MaxSessionsMade \in Nat /\ MaxSessions \in Nat /\ SessionTtl \in Nat
      /\ Known \subseteq 1 .. sessionsMade
    BY HttpBridgeAssumption DEF createSession, HBTypeOK
<1>1. PICK S \in SUBSET Known :
        /\ evictIfFull = Without(S)
        /\ Cardinality(Known \ S) < MaxSessions
        /\ S # {} => Cardinality(Known) = MaxSessions
        /\ \A id \in S, x \in Known : sessions[x] <= sessions[id]
    BY EvictionMakesRoom
<1>2. Known' = (Known \ S) \cup {sessionsMade'}
    BY <1>0, <1>1 DEF With, Without, Known
<1>3. IsFiniteSet(Known \ S) /\ Cardinality(Known \ S) \in Nat
    BY KnownIsFinite, FS_Subset, FS_CardinalityType
<1>4. Cardinality(Known') <= MaxSessions
    <2>1. \/ Cardinality(Known') = Cardinality(Known \ S)
          \/ Cardinality(Known') = Cardinality(Known \ S) + 1
        BY <1>2, <1>3, FS_AddElement
    <2>. QED BY <1>0, <1>1, <1>3, <2>1
<1>5. sessions' = [x \in Known' |-> IF x = sessionsMade' THEN 0 ELSE sessions[x]]
    BY <1>0, <1>1, <1>2 DEF With, Without, Known
<1>6. Known' \subseteq 1 .. sessionsMade' /\ sessionsMade' \in 1 .. MaxSessionsMade
    BY <1>0, <1>2
<1>7. sessions' \in [Known' -> 0 .. SessionTtl + 1]
    BY <1>0, <1>2, <1>5
<1>. QED BY <1>1, <1>2, <1>4, <1>6, <1>7

\* A registry that only lost some sessions, or saw one again.
LEMMA Shrunk ==
    ASSUME BridgeInv, NEW S, sessions' = Without(S), UNCHANGED sessionsMade
    PROVE  /\ Known' = Known \ S
           /\ Known' \subseteq 1 .. sessionsMade'
           /\ Cardinality(Known') <= MaxSessions
           /\ sessions' \in [Known' -> 0 .. SessionTtl + 1]
<1>1. Known' = Known \ S
    BY DEF Without, Known
<1>2. /\ Cardinality(Known') <= Cardinality(Known)
      /\ Cardinality(Known') \in Nat /\ Cardinality(Known) \in Nat
    BY <1>1, KnownIsFinite, FS_Subset, FS_CardinalityType DEF BridgeInv, HBInv
<1>3. Cardinality(Known') <= MaxSessions
    BY <1>2, HttpBridgeAssumption DEF BridgeInv, HBInv, HBTypeOK
<1>. QED BY <1>1, <1>3 DEF BridgeInv, HBInv, HBTypeOK, AgesInv, Without

\* A session that is ended as it is created: only the eviction is left of it.
LEMMA CreatedAndEnded ==
    ASSUME BridgeInv, deleteNewSession
    PROVE  /\ sessionsMade' \in 1 .. MaxSessionsMade /\ sessionsMade' > sessionsMade
           /\ Known' \subseteq 1 .. sessionsMade'
           /\ Cardinality(Known') <= MaxSessions
           /\ sessions' \in [Known' -> 0 .. SessionTtl + 1]
           /\ \A id \in Known \ Known' :
                /\ Cardinality(Known) = MaxSessions
                /\ \A x \in Known : sessions[x] <= sessions[id]
<1>0. /\ sessionsMade \in 0 .. MaxSessionsMade /\ sessionsMade < MaxSessionsMade
      /\ sessionsMade' = sessionsMade + 1 /\ sessions' = evictIfFull
      /\ MaxSessionsMade \in Nat /\ MaxSessions \in Nat
      /\ Known \subseteq 1 .. sessionsMade
    BY HttpBridgeAssumption DEF deleteNewSession, BridgeInv, HBInv, HBTypeOK, AgesInv
<1>0a. sessions \in [Known -> 0 .. SessionTtl + 1]
    BY DEF BridgeInv, AgesInv
<1>1. PICK S \in SUBSET Known :
        /\ evictIfFull = Without(S)
        /\ Cardinality(Known \ S) < MaxSessions
        /\ S # {} => Cardinality(Known) = MaxSessions
        /\ \A id \in S, x \in Known : sessions[x] <= sessions[id]
    BY EvictionMakesRoom
<1>2. Known' = Known \ S /\ sessions' = [id \in Known \ S |-> sessions[id]]
    BY <1>0, <1>1 DEF Without, Known
<1>3. Cardinality(Known \ S) \in Nat
    BY KnownIsFinite, FS_Subset, FS_CardinalityType DEF BridgeInv, HBInv
<1>4. Cardinality(Known') <= MaxSessions
    BY <1>0, <1>1, <1>2, <1>3
<1>5. sessionsMade' \in 1 .. MaxSessionsMade /\ sessionsMade' > sessionsMade /\ Known' \subseteq 1 .. sessionsMade'
    BY <1>0, <1>2
<1>6. sessions' \in [Known' -> 0 .. SessionTtl + 1]
    BY <1>0a, <1>2
<1>. QED BY <1>1, <1>2, <1>4, <1>5, <1>6

LEMMA SameSessions ==
    ASSUME BridgeInv, UNCHANGED <<sessions, sessionsMade>>
    PROVE  /\ Known' = Known
           /\ Known' \subseteq 1 .. sessionsMade'
           /\ Cardinality(Known') <= MaxSessions
           /\ sessions' \in [Known' -> 0 .. SessionTtl + 1]
<1>. QED BY DEF BridgeInv, HBInv, HBTypeOK, AgesInv, Known

\* The registry through one step: its types, and every way to lose a session.
RegistryStep ==
    /\ sessionsMade' \in 0 .. MaxSessionsMade
    /\ Known' \subseteq 1 .. sessionsMade'
    /\ Cardinality(Known') <= MaxSessions
    /\ sessions' \in [Known' -> 0 .. SessionTtl + 1]
    /\ \A id \in Known \ Known' :
         \/ id \in StaleSessions
         \/ Cardinality(Known) = MaxSessions /\ sessionsMade' > sessionsMade
         \/ \E r \in Requests : request[r].pc = "free" /\ request'[r] = Answer(204)
         \/ server' = "off"
    /\ \A id \in Known \ Known' :
         sessionsMade' > sessionsMade => \A x \in Known \cap Known' : sessions[x] <= sessions[id]

LEMMA SessionStep ==
    ASSUME BridgeInv, NEW r \in Requests, NEW id \in SessionId, withSession(r, id)
    PROVE  RegistryStep
<1>0. /\ sessionsMade' = sessionsMade /\ sessionsMade \in 0 .. MaxSessionsMade
      /\ request[r].pc = "free" /\ r \in DOMAIN request
    BY DEF withSession, BridgeInv, HBInv, HBTypeOK
<1>1. CASE /\ id \in Known \ StaleSessions
           /\ sessions' = With(sessions, id)
    <2>1. Known' = Known /\ sessions' = [x \in Known |-> IF x = id THEN 0 ELSE sessions[x]]
        BY <1>1 DEF With, Known
    <2>2. sessions' \in [Known' -> 0 .. SessionTtl + 1]
        BY <2>1, HttpBridgeAssumption DEF BridgeInv, AgesInv
    <2>. QED BY <1>0, <2>1, <2>2 DEF RegistryStep, BridgeInv, HBInv, HBTypeOK
<1>2. CASE /\ id \in Known \ StaleSessions
           /\ sessions' = Without({id})
           /\ request' = [request EXCEPT ![r] = Answer(204)]
    BY <1>0, <1>2, Shrunk DEF RegistryStep
<1>3. CASE /\ id \notin Known \ StaleSessions
           /\ sessions' = Without({id})
    BY <1>0, <1>3, Shrunk DEF RegistryStep
<1>. QED BY <1>1, <1>2, <1>3 DEF withSession

LEMMA RegistryCorrect ==
    ASSUME BridgeInv, [HBNext]_hbVars
    PROVE  RegistryStep
<1>0. sessionsMade \in 0 .. MaxSessionsMade
    BY DEF BridgeInv, HBInv, HBTypeOK
<1>1. CASE UNCHANGED <<sessions, sessionsMade>>
    BY <1>0, <1>1, SameSessions DEF RegistryStep
<1>2. CASE createSession
    <2>1. sessionsMade' \in 0 .. MaxSessionsMade
        BY <1>2, Created, HttpBridgeAssumption
    <2>2. sessionsMade' > sessionsMade
        BY <1>0, <1>2 DEF createSession
    <2>3. \A id \in Known \ Known' :
            /\ Cardinality(Known) = MaxSessions
            /\ \A x \in Known : sessions[x] <= sessions[id]
        BY <1>2, Created
    <2>. QED BY <1>2, <2>1, <2>2, <2>3, Created DEF RegistryStep
<1>3. CASE \E r \in Requests, id \in SessionId : withSession(r, id)
    BY <1>3, SessionStep
<1>4. CASE sweep
    <2>1. sessions' = Without(StaleSessions) /\ UNCHANGED sessionsMade
        BY <1>4 DEF sweep
    <2>. QED BY <1>0, <2>1, Shrunk DEF RegistryStep
<1>5. CASE stopped
    <2>1. sessions' = Without(Known) /\ UNCHANGED sessionsMade /\ server' = "off"
        BY <1>5 DEF stopped
    <2>. QED BY <1>0, <2>1, Shrunk DEF RegistryStep
<1>6. CASE pass
    <2>1. /\ sessions' = [id \in Known |-> IF id \in StaleSessions THEN sessions[id] ELSE sessions[id] + 1]
          /\ sessionsMade' = sessionsMade /\ Known' = Known
        BY <1>6 DEF pass, Known
    <2>2. sessions' \in [Known' -> 0 .. SessionTtl + 1]
        BY <2>1, HttpBridgeAssumption DEF BridgeInv, AgesInv, StaleSessions
    <2>. QED BY <1>0, <2>1, <2>2 DEF RegistryStep, BridgeInv, HBInv, HBTypeOK
<1>7. CASE deleteNewSession
    <2>1. sessionsMade' \in 0 .. MaxSessionsMade
        BY <1>7, CreatedAndEnded, HttpBridgeAssumption
    <2>. QED BY <1>7, <2>1, CreatedAndEnded DEF RegistryStep
<1>. QED BY <1>1, <1>2, <1>3, <1>4, <1>5, <1>6, <1>7
     DEF HBNext, hbVars, internal, withoutSession, readBody, handleToolCall, finished, start, stop

\* A request is opened only while the server is on, and the server is off
\* only after the last one is answered.
LEMMA RequestStep ==
    ASSUME BridgeInv, [HBNext]_hbVars
    PROVE  /\ server' \in {"off", "on", "closing"}
           /\ handlers' \in BOOLEAN
           /\ request' \in [Requests -> [pc : {"free", "body", "backend", "answered"}, status : 0 .. 503]]
           /\ NoRequestCutOff'
<1> USE DEF BridgeInv, HBInv, HBTypeOK, NoRequestCutOff, NoRequest, Answer
<1>1. CASE UNCHANGED <<server, handlers, request>>
    BY <1>1
<1>2. CASE \E r \in Requests : internal(r)
    BY <1>2 DEF internal
<1>3. CASE \E r \in Requests : withoutSession(r) \/ \E id \in SessionId : withSession(r, id)
    <2>1. PICK r \in Requests, s \in {204, 404} : request' = [request EXCEPT ![r] = Answer(s)]
        <3>1. CASE \E r \in Requests : withoutSession(r)
            BY <3>1 DEF withoutSession
        <3>2. CASE \E r \in Requests : \E id \in SessionId : withSession(r, id)
            <4>1. PICK r \in Requests, id \in SessionId : withSession(r, id)
                BY <3>2
            <4>2. \/ request' = [request EXCEPT ![r] = Answer(204)]
                  \/ request' = [request EXCEPT ![r] = Answer(404)]
                BY <4>1 DEF withSession
            <4>. QED BY <4>2
        <3>. QED BY <1>3, <3>1, <3>2
    <2>2. server = "on" /\ UNCHANGED <<server, handlers>>
        BY <1>3 DEF withoutSession, withSession
    <2>. QED BY <2>1, <2>2
<1>4. CASE \E r \in Requests : readBody(r)
    BY <1>4 DEF readBody
<1>5. CASE \E r \in Requests : handleToolCall(r) \/ finished(r)
    BY <1>5 DEF handleToolCall, finished
<1>6. CASE start \/ stop \/ stopped
    BY <1>6 DEF start, stop, stopped
<1>. QED BY <1>1, <1>2, <1>3, <1>4, <1>5, <1>6 DEF HBNext, hbVars, sweep, pass

LEMMA BridgeInit == HBInit => BridgeInv
<1> SUFFICES ASSUME HBInit PROVE BridgeInv
    OBVIOUS
<1>1. Known = {} /\ Cardinality(Known) = 0
    BY FS_EmptySet DEF HBInit, Known
<1>2. HBTypeOK /\ NoRequestCutOff
    BY <1>1, HttpBridgeAssumption DEF HBInit, HBTypeOK, NoRequestCutOff, NoRequest
<1>3. AgesInv
    BY <1>1 DEF HBInit, AgesInv
<1>. QED BY <1>2, <1>3 DEF BridgeInv, HBInv

LEMMA BridgeStep == BridgeInv /\ [HBNext]_hbVars => BridgeInv'
<1> SUFFICES ASSUME BridgeInv, [HBNext]_hbVars PROVE BridgeInv'
    OBVIOUS
<1>1. RegistryStep
    BY RegistryCorrect
<1>. QED BY <1>1, RequestStep DEF RegistryStep, BridgeInv, HBInv, HBTypeOK, AgesInv

\* create() and stop(): there are never more sessions than the registry may
\* hold, and the server is never gone while a request is open.
THEOREM BridgeCorrect == HBSpec => []HBInv
<1>1. BridgeInv => HBInv
    BY DEF BridgeInv
<1>. QED BY <1>1, BridgeInit, BridgeStep, PTL DEF HBSpec

\* evictIfFull(), touch(), delete() and sweep(): a session is lost only
\* because it expired, was ended, made room as the stalest one, or the bridge
\* stopped.
THEOREM SessionsCorrect == HBSpec => SessionsKept
<1>1. BridgeInv /\ [HBNext]_hbVars =>
        [\A id \in Known \ DOMAIN sessions' :
           sessionsMade' > sessionsMade => \A x \in Known \cap DOMAIN sessions' : sessions[x] <= sessions[id]]_hbVars
    BY RegistryCorrect DEF RegistryStep
<1>2. BridgeInv /\ [HBNext]_hbVars =>
        [\A id \in Known \ DOMAIN sessions' :
           \/ id \in StaleSessions
           \/ Cardinality(Known) = MaxSessions /\ sessionsMade' > sessionsMade
           \/ \E r \in Requests : request[r].pc = "free" /\ request'[r] = Answer(204)
           \/ server' = "off"]_hbVars
    BY RegistryCorrect DEF RegistryStep
<1>. QED BY <1>1, <1>2, BridgeInit, BridgeStep, PTL DEF HBSpec, SessionsKept, EvictsStalest, LostForAReason

-----------------------------------------------------------------------------
(***************************************************************************)
(* NobodyIsEvicted for any number of daemons and starts.  As long as no    *)
(* two daemons start or stop at once and no probe of a living one failed,  *)
(* the one that is about to unlink, bind or remove the file knows that     *)
(* nobody is up: that is what the probe is for.                            *)
(***************************************************************************)

AloneInv == \A d, e \in Daemons : Underway(d) /\ Underway(e) => d = e

NobodyUpInv ==
    \A d \in Daemons :
        daemon[d] \in {"unlinking", "binding", "stopping"} =>
            \A e \in Daemons : daemon[e] # "up"

OwnFileInv == \A d \in Daemons : daemon[d] = "up" => file = d

EvictionInv == DUTypeOK /\ (~raced => AloneInv /\ NobodyUpInv /\ OwnFileInv)

\* The bound on the starts is the only arithmetic.
LEMMA StartsStep ==
    ASSUME DUTypeOK, [DUNext]_duVars
    PROVE  starts' \in 0 .. MaxStarts
<1>1. starts' = starts \/ (starts < MaxStarts /\ starts' = starts + 1)
  BY DEF DUNext, duVars, startDaemon, _probeSocketLiveness, unlinkSocket, startUnixServer,
     shutdownDaemon, removeSocket, killDaemon
<1>. QED BY <1>1, DUAssumption DEF DUTypeOK

LEMMA StartupTypeStep ==
    ASSUME DUTypeOK, [DUNext]_duVars
    PROVE  DUTypeOK'
<1>1. starts' \in 0 .. MaxStarts
  BY StartsStep
<1>2. CASE UNCHANGED duVars
  BY <1>1, <1>2 DEF DUTypeOK, duVars
<1>3. CASE DUNext
  <2>1. PICK d \in Daemons :
            \/ startDaemon(d) \/ _probeSocketLiveness(d) \/ unlinkSocket(d) \/ startUnixServer(d)
            \/ shutdownDaemon(d) \/ removeSocket(d) \/ killDaemon(d)
    BY <1>3 DEF DUNext
  <2>2. daemon' \in [Daemons -> {"off", "probing", "unlinking", "binding", "up", "stopping", "failed"}]
    BY <2>1 DEF DUTypeOK, startDaemon, _probeSocketLiveness, unlinkSocket, startUnixServer,
       shutdownDaemon, removeSocket, killDaemon, At
  <2>3. running' \in [Daemons -> BOOLEAN]
    BY <2>1 DEF DUTypeOK, startDaemon, _probeSocketLiveness, unlinkSocket, startUnixServer,
       shutdownDaemon, removeSocket, killDaemon
  <2>4. file' \in Daemons \cup {Nobody} /\ raced' \in BOOLEAN
    BY <2>1 DEF DUTypeOK, startDaemon, _probeSocketLiveness, unlinkSocket, startUnixServer,
       shutdownDaemon, removeSocket, killDaemon
  <2>. QED BY <1>1, <2>2, <2>3, <2>4 DEF DUTypeOK
<1>. QED BY <1>2, <1>3

LEMMA StartupTypeInit == DUInit => DUTypeOK
<1>. SUFFICES ASSUME DUInit PROVE DUTypeOK
  OBVIOUS
<1>1. starts \in 0 .. MaxStarts
  BY DUAssumption DEF DUInit
<1>. QED BY <1>1 DEF DUInit, DUTypeOK

(***************************************************************************)
(* The types are kept by every step of start(), shutdown() and a crash.    *)
(***************************************************************************)
THEOREM StartupTypeCorrect == DUSpec => []DUTypeOK
BY StartupTypeInit, StartupTypeStep, PTL DEF DUSpec

(***************************************************************************)
(* A step keeps the invariant while nothing races: one case per handler.   *)
(***************************************************************************)
LEMMA EvictionStep ==
    ASSUME EvictionInv, [DUNext]_duVars, DUTypeOK', ~raced'
    PROVE  AloneInv' /\ NobodyUpInv' /\ OwnFileInv'
<1>. USE DEF EvictionInv, DUTypeOK, At
<1>1. CASE UNCHANGED duVars
  BY <1>1 DEF duVars, AloneInv, NobodyUpInv, OwnFileInv, Underway
<1>2. CASE DUNext
  <2>0. PICK d \in Daemons :
            \/ startDaemon(d) \/ _probeSocketLiveness(d) \/ unlinkSocket(d) \/ startUnixServer(d)
            \/ shutdownDaemon(d) \/ removeSocket(d) \/ killDaemon(d)
    BY <1>2 DEF DUNext
  <2>1. ~raced
    BY <2>0 DEF startDaemon, _probeSocketLiveness, unlinkSocket, startUnixServer, shutdownDaemon,
       removeSocket, killDaemon
  <2>2. AloneInv /\ NobodyUpInv /\ OwnFileInv
    BY <2>1
  <2>a. Nobody \notin Daemons
    BY DUAssumption
  <2>3. CASE startDaemon(d)
    <3>1. \A e \in Daemons \ {d} : ~Underway(e)
      BY <2>3 DEF startDaemon, Races
    <3>. QED BY <2>a, <2>2, <2>3, <3>1 DEF startDaemon, AloneInv, NobodyUpInv, OwnFileInv, Underway
  <2>4. CASE _probeSocketLiveness(d)
    <3>1. daemon'[d] = "unlinking" => \A e \in Daemons : daemon[e] # "up"
      BY <2>a, <2>2, <2>4 DEF _probeSocketLiveness, OwnFileInv
    <3>. QED BY <2>2, <2>4, <3>1 DEF _probeSocketLiveness, AloneInv, NobodyUpInv, OwnFileInv, Underway
  <2>5. CASE unlinkSocket(d)
    BY <2>2, <2>5 DEF unlinkSocket, AloneInv, NobodyUpInv, OwnFileInv, Underway
  <2>6. CASE startUnixServer(d)
    BY <2>2, <2>6 DEF startUnixServer, AloneInv, NobodyUpInv, OwnFileInv, Underway
  <2>7. CASE shutdownDaemon(d)
    <3>1. \A e \in Daemons \ {d} : ~Underway(e)
      BY <2>7 DEF shutdownDaemon, Races
    <3>. QED BY <2>2, <2>7, <3>1 DEF shutdownDaemon, AloneInv, NobodyUpInv, OwnFileInv, Underway
  <2>8. CASE removeSocket(d)
    BY <2>2, <2>8 DEF removeSocket, AloneInv, NobodyUpInv, OwnFileInv, Underway
  <2>9. CASE killDaemon(d)
    BY <2>2, <2>9 DEF killDaemon, AloneInv, NobodyUpInv, OwnFileInv, Underway
  <2>. QED BY <2>0, <2>3, <2>4, <2>5, <2>6, <2>7, <2>8, <2>9
<1>. QED BY <1>1, <1>2

(***************************************************************************)
(* A daemon that is up is the one the socket file leads to, whatever       *)
(* crashed before and whoever tried to start, unless there was a race      *)
(* (server.ts, start and _probeSocketLiveness).                            *)
(***************************************************************************)
THEOREM EvictionCorrect == DUSpec => []NobodyIsEvicted
<1>1. DUInit => EvictionInv
  BY StartupTypeInit DEF DUInit, EvictionInv, AloneInv, NobodyUpInv, OwnFileInv, Underway
<1>2. EvictionInv /\ [DUNext]_duVars => EvictionInv'
  BY StartupTypeStep, EvictionStep DEF EvictionInv
<1>3. EvictionInv => NobodyIsEvicted
  BY DEF EvictionInv, OwnFileInv, NobodyIsEvicted
<1>. QED BY <1>1, <1>2, <1>3, PTL DEF DUSpec

-----------------------------------------------------------------------------
(***************************************************************************)
(* A clean store is a saved store, for any keys, values and times to live. *)
(* The invariant is inductive together with the types: the one subtle case *)
(* is the clock, which ages memory and snapshot by the same rule.          *)
(***************************************************************************)

\* Dropping the lapsed entries leaves entries.
LEMMA LiveType ==
    ASSUME NEW s \in [KVKeys -> Entry \cup {Absent}]
    PROVE  /\ Unlapsed(s) \in [KVKeys -> Entry \cup {Absent}]
           /\ Unlapsed(Unlapsed(s)) = Unlapsed(s)
           /\ Unlapsed(Empty) = Empty
           /\ Empty \in [KVKeys -> Entry \cup {Absent}]
  <1>1. ~Lapsed(Absent)
    BY DEF Lapsed, Absent
  <1>2. Unlapsed(s) \in [KVKeys -> Entry \cup {Absent}]
    BY DEF Unlapsed
  <1>3. Unlapsed(Unlapsed(s)) = Unlapsed(s)
    BY <1>1 DEF Unlapsed
  <1>4. Unlapsed(Empty) = Empty /\ Empty \in [KVKeys -> Entry \cup {Absent}]
    BY <1>1 DEF Unlapsed, Empty
  <1> QED BY <1>2, <1>3, <1>4

\* A tick keeps an entry an entry, and lapses two that look alike alike.
LEMMA OlderType ==
    ASSUME NEW e \in Entry \cup {Absent}
    PROVE  /\ Older(e) \in Entry \cup {Absent}
           /\ Lapsed(e) => Lapsed(Older(e))
           /\ Older(Absent) = Absent
  <1>0. Older(Absent) = Absent /\ ~Lapsed(Absent)
    BY DEF Older, Absent, Lapsed
  <1>1. CASE e = Absent
    BY <1>0, <1>1
  <1>2. CASE e \in Entry
    <2>1. /\ e.has = TRUE /\ e.value \in Values /\ e.left \in Left \cup {Forever}
          /\ e = [has |-> TRUE, value |-> e.value, left |-> e.left]
      BY <1>2 DEF Entry
    <2>2. CASE e.left >= 0
      <3>1. Older(e) = [has |-> TRUE, value |-> e.value, left |-> e.left - 1]
        BY <2>1, <2>2 DEF Older
      <3>2. e.left - 1 \in Left
        BY <2>1, <2>2, KVAssumption DEF Left, Forever, Expired
      <3>3. ~Lapsed(e)
        BY <2>2 DEF Lapsed, Expired
      <3> QED BY <1>0, <2>1, <3>1, <3>2, <3>3 DEF Entry
    <2>3. CASE ~(e.left >= 0)
      BY <1>0, <1>2, <2>3 DEF Older
    <2> QED BY <2>2, <2>3
  <1> QED BY <1>1, <1>2

\* What is live after a tick depends only on what was live before it.
LEMMA OlderLive ==
    ASSUME NEW s \in [KVKeys -> Entry \cup {Absent}]
    PROVE  Unlapsed([k \in KVKeys |-> Older(s[k])])
               = Unlapsed([k \in KVKeys |-> Older(Unlapsed(s)[k])])
  <1>1. ASSUME NEW k \in KVKeys
        PROVE  (IF Lapsed(Older(s[k])) THEN Absent ELSE Older(s[k]))
                   = IF Lapsed(Older(Unlapsed(s)[k])) THEN Absent ELSE Older(Unlapsed(s)[k])
    <2>1. CASE Lapsed(s[k])
      <3>1. Unlapsed(s)[k] = Absent
        BY <2>1 DEF Unlapsed
      <3>2. Lapsed(Older(s[k])) /\ Older(Unlapsed(s)[k]) = Absent
        BY <2>1, <3>1, OlderType
      <3> QED BY <3>2
    <2>2. CASE ~Lapsed(s[k])
      BY <2>2 DEF Unlapsed
    <2> QED BY <2>1, <2>2
  <1> QED BY <1>1 DEF Unlapsed

-----------------------------------------------------------------------------
\* The type invariant (src/daemon/shared-kv.ts): memory and snapshot hold
\* entries whose time left is a tick count, "expired" or "never".
THEOREM TypeCorrect == KVSpec => []KVTypeOK
  <1>1. KVInit => KVTypeOK
    BY LiveType DEF KVInit, KVTypeOK, Empty
  <1>2. KVTypeOK /\ [KVNext]_kvVars => KVTypeOK'
    <2> SUFFICES ASSUME KVTypeOK, [KVNext]_kvVars PROVE KVTypeOK'
      OBVIOUS
    <2>0. Unlapsed(store) \in [KVKeys -> Entry \cup {Absent}]
          /\ Unlapsed(disk) \in [KVKeys -> Entry \cup {Absent}]
          /\ Empty \in [KVKeys -> Entry \cup {Absent}]
      BY LiveType DEF KVTypeOK
    <2>1. CASE construct
      BY <2>0, <2>1 DEF construct, loadFromDisk, KVTypeOK
    <2>2. CASE \E k \in KVKeys : get(k) \/ delete(k)
      BY <2>2 DEF get, delete, KVTypeOK
    <2>3. ASSUME NEW k \in KVKeys, NEW v \in Values, NEW ttl \in 0 .. MaxTtl, set(k, v, ttl)
          PROVE  KVTypeOK'
      <3>1. [has |-> TRUE, value |-> v, left |-> IF ttl > 0 THEN ttl ELSE Forever] \in Entry
        BY KVAssumption DEF Entry, Left, Expired, Forever
      <3> QED BY <2>3, <3>1 DEF set, KVTypeOK
    <2>4. CASE \E S \in SUBSET KVKeys : clear(S)
      BY <2>4 DEF clear, KVTypeOK
    <2>5. CASE Sweep
      BY <2>0, <2>5 DEF Sweep, evictExpired, flushToDisk, Written, Refused, Truncated, Evicts, KVTypeOK
    <2>6. CASE kvShutdown
      BY <2>0, <2>6 DEF kvShutdown, evictExpired, flushToDisk, Written, Refused, Truncated, Evicts, KVTypeOK
    <2>7. CASE Exit
      BY <2>0, <2>7 DEF Exit, KVTypeOK
    <2>8. CASE Clock
      BY <2>8, OlderType DEF Clock, KVTypeOK
    <2>9. CASE UNCHANGED kvVars
      BY <2>9 DEF kvVars, KVTypeOK
    <2> QED BY <2>1, <2>2, <2>3, <2>4, <2>5, <2>6, <2>7, <2>8, <2>9 DEF KVNext
  <1> QED BY <1>1, <1>2, PTL DEF KVSpec

-----------------------------------------------------------------------------
\* What the daemon answers with while the store is not dirty is what a restart
\* would load: no operation forgets to set dirty, and no failed or
\* interrupted flush clears it.
THEOREM CleanCorrect == KVSpec => []CleanMeansSaved
  <1>1. KVInit => CleanMeansSaved
    BY DEF KVInit, CleanMeansSaved
  <1>2. KVTypeOK /\ CleanMeansSaved /\ [KVNext]_kvVars => CleanMeansSaved'
    <2> SUFFICES ASSUME KVTypeOK, CleanMeansSaved, [KVNext]_kvVars,
                        kvPhase' = "up", ~dirty'
                 PROVE  Unlapsed(store)' = loadFromDisk'
      BY DEF CleanMeansSaved
    <2>1. CASE construct
      BY <2>1, LiveType DEF construct, loadFromDisk, KVTypeOK
    <2>2. CASE \E k \in KVKeys : \/ get(k) \/ delete(k)
                               \/ \E v \in Values, ttl \in 0 .. MaxTtl : set(k, v, ttl)
      BY <2>2 DEF get, delete, set
    <2>3. CASE \E S \in SUBSET KVKeys : clear(S)
      BY <2>3 DEF clear
    <2>4. CASE Sweep
      <3>1. CASE dirty \/ Evicts
        <4>1. Written
          BY <2>4, <3>1 DEF Sweep, flushToDisk, Refused, Truncated
        <4> QED BY <2>4, <4>1, LiveType DEF Sweep, evictExpired, Written, loadFromDisk, KVTypeOK
      <3>2. CASE ~(dirty \/ Evicts)
        <4>1. Unlapsed(store)' = Unlapsed(store)
          BY <2>4, LiveType DEF Sweep, evictExpired, KVTypeOK
        <4> QED BY <2>4, <3>2, <4>1 DEF Sweep, CleanMeansSaved, loadFromDisk
      <3> QED BY <3>1, <3>2
    <2>5. CASE kvShutdown \/ Exit
      BY <2>5 DEF kvShutdown, Exit
    <2>6. CASE Clock
      <3>1. kvPhase = "up" /\ ~dirty
        BY <2>6 DEF Clock
      <3>2. Unlapsed(store)' = Unlapsed([k \in KVKeys |-> Older(Unlapsed(store)[k])])
        BY <2>6, OlderLive DEF Clock, KVTypeOK
      <3>3. CASE intact
        <4>1. Unlapsed(disk)' = Unlapsed([k \in KVKeys |-> Older(Unlapsed(disk)[k])])
          BY <2>6, OlderLive DEF Clock, KVTypeOK
        <4>2. Unlapsed(store) = Unlapsed(disk) /\ loadFromDisk' = Unlapsed(disk)'
          BY <2>6, <3>1, <3>3 DEF CleanMeansSaved, loadFromDisk, Clock
        <4> QED BY <3>2, <4>1, <4>2
      <3>4. CASE ~intact
        <4>1. Unlapsed(store) = Empty /\ loadFromDisk' = Empty
          BY <2>6, <3>1, <3>4 DEF CleanMeansSaved, loadFromDisk, Clock, Empty
        <4>2. [k \in KVKeys |-> Older(Empty[k])] = Empty
          BY OlderType DEF Empty
        <4> QED BY <3>2, <4>1, <4>2, LiveType DEF KVTypeOK
      <3> QED BY <3>3, <3>4
    <2>7. CASE UNCHANGED kvVars
      BY <2>7 DEF kvVars, CleanMeansSaved, Unlapsed, loadFromDisk
    <2> QED BY <2>1, <2>2, <2>3, <2>4, <2>5, <2>6, <2>7 DEF KVNext
  <1> QED BY <1>1, <1>2, TypeCorrect, PTL DEF KVSpec

-----------------------------------------------------------------------------
(***************************************************************************)
(* DaemonClient: any agents, number of sockets and of requests.            *)
(*                                                                         *)
(* An answer finds the promise that waits for it because an id is given    *)
(* once: the ids on the wire, in either direction, and those of the        *)
(* promises that wait are below nextId, and each stands in one place.      *)
(***************************************************************************)

AnswerLine == [id : 0 .. MaxIds, agent : Agents, ok : BOOLEAN]
Request == [id : 1 .. MaxIds, agent : Agents, kind : {"auth", "call"}, nonce : 0 .. MaxSockets]
Waiter == [id : 0 .. MaxIds, agent : Agents, sock : DCSockets]
AgentRec == [pc : {"idle", "opening", "challenge", "auth", "call", "ending"}, sock : 0 .. MaxSockets]
SockState == {"none", "opening", "open", "ending", "hungup", "broken", "destroyed", "closed"}
DialsOrEnds(a) == agent[a].pc \in {"opening", "challenge", "auth", "ending"}

PlainInv ==
    /\ sock \in [DCSockets -> SockState]
    /\ trusted \subseteq DCSockets
    /\ current \in 0 .. MaxSockets /\ half \in 0 .. MaxSockets
    /\ connected \in BOOLEAN /\ overlap \in BOOLEAN /\ lineLost \in BOOLEAN
    /\ nextId \in 1 .. MaxIds + 1
    /\ agent \in [Agents -> AgentRec]

\* What is on its way, and who waits.
LinesInv ==
    /\ up \in [DCSockets -> Seq(Request)]
    /\ down \in [DCSockets -> SUBSET AnswerLine]
    /\ pending \subseteq Waiter

\* An id is given out once: whatever has the id of one who waits is his.
IdsInv ==
    /\ \A p \in pending : p.id < nextId
    /\ \A s \in DCSockets : \A m \in down[s] :
          /\ m.id < nextId
          /\ \A p \in pending : m.id = p.id /\ m.id # 0 => m.agent = p.agent /\ p.sock = s
    /\ \A s \in DCSockets : \A i \in DOMAIN up[s] :
          /\ up[s][i].id < nextId
          /\ \A p \in pending : up[s][i].id = p.id => up[s][i].agent = p.agent /\ p.sock = s

\* Who waits is in the map once, under the id of what he awaits.
WaitInv ==
    /\ \A p \in pending : /\ p.id = 0 => agent[p.agent].pc = "challenge"
                          /\ p.id # 0 => agent[p.agent].pc \in {"auth", "call"}
                          /\ agent[p.agent].sock = p.sock
    /\ \A p, q \in pending : p.agent = q.agent => p = q
    /\ \A a \in Agents : agent[a].pc \in {"auth", "call"} => \E p \in pending : p.agent = a

\* The sockets of those who open one, and of those who use one.
SockInv ==
    /\ \A a \in Agents : agent[a].pc = "opening" => agent[a].sock # 0 /\ sock[agent[a].sock] = "opening"
    /\ \A a, b \in Agents : agent[a].pc = "opening" /\ agent[b].pc = "opening" /\ agent[a].sock = agent[b].sock
          => a = b
    /\ \A a \in Agents : agent[a].pc \in {"challenge", "auth", "call"} =>
          agent[a].sock # 0 /\ sock[agent[a].sock] \notin {"none", "opening"}
    /\ \A p \in pending : sock[p.sock] # "closed"

\* Only an authenticated socket brings a good answer.
TrustInv == \A s \in DCSockets : \A m \in down[s] : m.ok /\ m.id # 0 => s \in trusted

\* One connect() or disconnect() at a time, and its socket is the current one.
CalmInv ==
    ~overlap =>
        /\ \A a, b \in Agents : DialsOrEnds(a) /\ DialsOrEnds(b) => a = b
        /\ \A a \in Agents : DialsOrEnds(a) => ~connected
        /\ \A a \in Agents : agent[a].pc \in {"challenge", "auth"} => current = agent[a].sock

ClientInv == PlainInv /\ LinesInv /\ IdsInv /\ WaitInv /\ SockInv /\ TrustInv /\ CalmInv /\ ConnectedIsUsable

LEMMA SocketFacts == DCSockets \subseteq Nat /\ 0 \notin DCSockets /\ 0 .. MaxSockets = DCSockets \cup {0}
BY DCAssumption DEF DCSockets

LEMMA ImpliesDCInv == ClientInv => DCInv
<1> SUFFICES ASSUME ClientInv PROVE DCInv
    OBVIOUS
<1>1. DCTypeOK
    BY DEF ClientInv, PlainInv, LinesInv, DCTypeOK, Waiter, SockState, AgentRec
<1>2. WaitsInVainForNobody
    <2> SUFFICES ASSUME NEW a \in Agents, agent[a].pc \in {"auth", "call"}
                 PROVE  Cardinality({p \in pending : p.agent = a}) = 1 /\ sock[agent[a].sock] # "closed"
        BY DEF WaitsInVainForNobody
    <2>1. PICK p \in pending : p.agent = a
        BY DEF ClientInv, WaitInv
    <2>2. {q \in pending : q.agent = a} = {p}
        BY <2>1 DEF ClientInv, WaitInv
    <2>3. Cardinality({p}) = 1
        BY FS_Singleton
    <2>. QED BY <2>1, <2>2, <2>3 DEF ClientInv, WaitInv, SockInv
<1>3. AnswersItsOwn
    BY DEF ClientInv, IdsInv, AnswersItsOwn, Challenge
<1>. QED BY <1>1, <1>2, <1>3 DEF ClientInv, DCInv

LEMMA ClientInit == DCInit => ClientInv
<1> SUFFICES ASSUME DCInit PROVE ClientInv
    OBVIOUS
<1>1. PlainInv
    <2>1. 0 \in 0 .. MaxSockets /\ 1 \in 1 .. MaxIds + 1
        BY DCAssumption
    <2>2. agent \in [Agents -> AgentRec]
        BY <2>1 DEF DCInit, AgentRec, Calm
    <2>. QED BY <2>1, <2>2 DEF DCInit, PlainInv, SockState
<1>2. LinesInv /\ IdsInv
    <2>1. <<>> \in Seq(Request) /\ DOMAIN <<>> = {}
        OBVIOUS
    <2>. QED BY <2>1 DEF DCInit, LinesInv, IdsInv
<1>. QED BY <1>1, <1>2 DEF DCInit, ClientInv, WaitInv, SockInv, TrustInv, CalmInv, ConnectedIsUsable, DialsOrEnds, Calm

\* The number a Calm agent has.
LEMMA CalmFacts == Calm \in AgentRec /\ Calm.pc = "idle"
BY DCAssumption DEF Calm, AgentRec

LEMMA UpFacts ==
    ASSUME LinesInv
    PROVE  \A s \in DCSockets : /\ up[s] \in Seq(Request) /\ DOMAIN up[s] = 1 .. Len(up[s])
                                /\ \A i \in DOMAIN up[s] : up[s][i] \in Request
BY DEF LinesInv

LEMMA ConnectStep ==
    ASSUME ClientInv, NEW a \in Agents, connect(a)
    PROVE  ClientInv'
<1>1. PICK s \in DCSockets :
          /\ sock[s] = "none"
          /\ sock' = [sock EXCEPT ![s] = "opening"]
          /\ agent' = [agent EXCEPT ![a] = [pc |-> "opening", sock |-> s]]
    BY DEF connect
<1>2. /\ agent[a].pc = "idle" /\ ~connected /\ overlap' = (overlap \/ \E b \in Agents : DialsOrEnds(b))
      /\ UNCHANGED <<trusted, up, down, current, connected, pending, nextId, half, lineLost>>
    BY DEF connect, Reconnecting, DialsOrEnds
<1>3. /\ agent'[a].pc = "opening" /\ agent'[a].sock = s /\ agent' \in [Agents -> AgentRec]
      /\ \A b \in Agents \ {a} : agent'[b] = agent[b]
    BY <1>1, SocketFacts DEF ClientInv, PlainInv, AgentRec
<1>4. /\ sock' \in [DCSockets -> SockState] /\ sock'[s] = "opening" /\ \A t \in DCSockets \ {s} : sock'[t] = sock[t]
    BY <1>1 DEF ClientInv, PlainInv, SockState
<1>5. \A b \in Agents : agent[b].sock # 0 => agent[b].sock \in DCSockets
    BY SocketFacts DEF ClientInv, PlainInv, AgentRec
<1>6. PlainInv'
    <2>1. overlap' \in BOOLEAN
        BY <1>2
    <2>. QED BY <1>2, <1>3, <1>4, <2>1 DEF ClientInv, PlainInv
<1>7. LinesInv' /\ IdsInv' /\ TrustInv'
    BY <1>2 DEF ClientInv, LinesInv, IdsInv, TrustInv
<1>8. WaitInv'
    <2>1. \A p \in pending : p.agent \in Agents /\ p.agent # a
        BY <1>2 DEF ClientInv, LinesInv, Waiter, WaitInv
    <2>. QED BY <1>2, <1>3, <2>1 DEF ClientInv, WaitInv
<1>9. SockInv'
    <2>1. \A p \in pending : p.sock \in DCSockets /\ p.sock # s
        BY <1>1 DEF ClientInv, LinesInv, Waiter, WaitInv, SockInv
    <2>. QED BY <1>1, <1>2, <1>3, <1>4, <1>5, <2>1, SocketFacts DEF ClientInv, SockInv
<1>10. CalmInv'
    BY <1>2, <1>3 DEF ClientInv, CalmInv, DialsOrEnds
<1>11. ConnectedIsUsable'
    BY <1>2 DEF ConnectedIsUsable
<1>. QED BY <1>6, <1>7, <1>8, <1>9, <1>10, <1>11 DEF ClientInv

\* The connection is there; the challenge is awaited.
LEMMA OpenedStep ==
    ASSUME ClientInv, NEW a \in Agents, opened(a)
    PROVE  ClientInv'
<1> DEFINE s == agent[a].sock
           m == [id |-> 0, agent |-> a, ok |-> TRUE]
           w == [id |-> 0, agent |-> a, sock |-> s]
<1>1. /\ agent[a].pc = "opening"
      /\ sock' = [sock EXCEPT ![s] = "open"]
      /\ down' = [down EXCEPT ![s] = {m}]
      /\ current' = s
      /\ pending' = {p \in pending : p.id # 0} \cup {w}
      /\ agent' = [agent EXCEPT ![a].pc = "challenge"]
      /\ UNCHANGED <<trusted, up, connected, nextId, half, overlap, lineLost>>
    BY DEF opened, Challenge
<1>2. s \in DCSockets /\ sock[s] = "opening"
    BY <1>1, SocketFacts DEF ClientInv, PlainInv, AgentRec, SockInv
<1>3. m \in AnswerLine /\ w \in Waiter /\ m.id = 0 /\ w.id = 0 /\ w.agent = a /\ w.sock = s
    BY <1>2, DCAssumption DEF AnswerLine, Waiter
<1> HIDE DEF m, w
<1>4. /\ agent'[a].pc = "challenge" /\ agent'[a].sock = s /\ agent' \in [Agents -> AgentRec]
      /\ \A b \in Agents \ {a} : agent'[b] = agent[b]
    BY <1>1 DEF ClientInv, PlainInv, AgentRec
<1>5. sock' \in [DCSockets -> SockState] /\ sock'[s] = "open" /\ \A t \in DCSockets \ {s} : sock'[t] = sock[t]
    BY <1>1, <1>2 DEF ClientInv, PlainInv, SockState
<1>6. down'[s] = {m} /\ (\A t \in DCSockets \ {s} : down'[t] = down[t]) /\ down' \in [DCSockets -> SUBSET AnswerLine]
    BY <1>1, <1>2, <1>3 DEF ClientInv, LinesInv
<1>7. \A b \in Agents : agent[b].sock # 0 => agent[b].sock \in DCSockets
    BY SocketFacts DEF ClientInv, PlainInv, AgentRec
<1>8. \A p \in pending : p.agent \in Agents /\ p.agent # a /\ p.sock \in DCSockets /\ p.sock # s
    BY <1>1, <1>2 DEF ClientInv, LinesInv, Waiter, WaitInv, SockInv
<1> HIDE DEF s
<1>9. PlainInv'
    BY <1>1, <1>2, <1>4, <1>5, SocketFacts DEF ClientInv, PlainInv
<1>10. LinesInv'
    BY <1>1, <1>3, <1>6 DEF ClientInv, LinesInv
<1>11. IdsInv'
    <2>1. 0 < nextId /\ \A t \in DCSockets : \A i \in DOMAIN up[t] : up[t][i].id # 0
        BY UpFacts DEF ClientInv, PlainInv, Request
    <2>. QED BY <1>1, <1>3, <1>6, <2>1 DEF ClientInv, IdsInv
<1>12. WaitInv'
    BY <1>1, <1>3, <1>4, <1>8 DEF ClientInv, WaitInv
<1>13. SockInv'
    BY <1>1, <1>2, <1>3, <1>4, <1>5, <1>7, <1>8, SocketFacts DEF ClientInv, SockInv, s
<1>14. TrustInv'
    BY <1>1, <1>3, <1>6 DEF ClientInv, TrustInv
<1>15. CalmInv'
    BY <1>1, <1>4 DEF ClientInv, CalmInv, DialsOrEnds
<1>16. ConnectedIsUsable'
    BY <1>1 DEF ClientInv, CalmInv, DialsOrEnds, ConnectedIsUsable
<1>. QED BY <1>9, <1>10, <1>11, <1>12, <1>13, <1>14, <1>15, <1>16 DEF ClientInv

LEMMA OpenFailsStep ==
    ASSUME ClientInv, NEW a \in Agents, openFails(a)
    PROVE  ClientInv'
<1> DEFINE s == agent[a].sock
<1>1. /\ agent[a].pc = "opening"
      /\ sock' = [sock EXCEPT ![s] = "closed"]
      /\ agent' = [agent EXCEPT ![a] = Calm]
      /\ UNCHANGED <<trusted, up, down, current, connected, pending, nextId, half, overlap, lineLost>>
    BY DEF openFails
<1>2. s \in DCSockets /\ sock[s] = "opening"
    BY <1>1, SocketFacts DEF ClientInv, PlainInv, AgentRec, SockInv
<1>4. /\ agent'[a].pc = "idle" /\ agent' \in [Agents -> AgentRec] /\ \A b \in Agents \ {a} : agent'[b] = agent[b]
    BY <1>1, CalmFacts DEF ClientInv, PlainInv
<1>5. sock' \in [DCSockets -> SockState] /\ sock'[s] = "closed" /\ \A t \in DCSockets \ {s} : sock'[t] = sock[t]
    BY <1>1, <1>2 DEF ClientInv, PlainInv, SockState
<1>7. \A b \in Agents : agent[b].sock # 0 => agent[b].sock \in DCSockets
    BY SocketFacts DEF ClientInv, PlainInv, AgentRec
<1>8. \A p \in pending : p.agent \in Agents /\ p.agent # a /\ p.sock \in DCSockets /\ p.sock # s
    BY <1>1, <1>2 DEF ClientInv, LinesInv, Waiter, WaitInv, SockInv
<1> HIDE DEF s
<1>9. PlainInv' /\ LinesInv' /\ IdsInv' /\ TrustInv'
    BY <1>1, <1>4, <1>5 DEF ClientInv, PlainInv, LinesInv, IdsInv, TrustInv
<1>12. WaitInv'
    BY <1>1, <1>4, <1>8 DEF ClientInv, WaitInv
<1>13. SockInv'
    BY <1>1, <1>2, <1>4, <1>5, <1>7, <1>8 DEF ClientInv, SockInv, s
<1>15. CalmInv'
    BY <1>1, <1>4 DEF ClientInv, CalmInv, DialsOrEnds
<1>16. ConnectedIsUsable'
    BY <1>1, <1>2, <1>5, SocketFacts DEF ClientInv, PlainInv, ConnectedIsUsable
<1>. QED BY <1>9, <1>12, <1>13, <1>15, <1>16 DEF ClientInv

\* rpc(): a writes to the current socket, or is told that it is gone.  The
\* others who wait stay; what the client has not read yet only gets less.
LEMMA RpcStep ==
    ASSUME ClientInv, NEW a \in Agents, NEW kind \in {"auth", "call"}, NEW nonce \in 0 .. MaxSockets,
           NEW others \in SUBSET pending, rpc(a, kind, nonce, others),
           agent[a].pc = IF kind = "auth" THEN "challenge" ELSE "idle",
           \A p \in pending : p \in others <=> p.agent # a,
           down' \in [DCSockets -> SUBSET AnswerLine], \A s \in DCSockets : down'[s] \subseteq down[s],
           half' \in 0 .. MaxSockets, UNCHANGED <<trusted, current, connected, overlap, lineLost>>
    PROVE  ClientInv'
<1>1. \A p \in others : p \in pending /\ p.agent # a /\ p.agent \in Agents /\ p.sock \in DCSockets
    BY DEF ClientInv, LinesInv, Waiter
<1>2. \A b \in Agents : agent[b].sock # 0 => agent[b].sock \in DCSockets
    BY SocketFacts DEF ClientInv, PlainInv, AgentRec
<1>3. CASE Writable(current)
    <2> DEFINE w == [id |-> nextId, agent |-> a, sock |-> current]
               r == [id |-> nextId, agent |-> a, kind |-> kind, nonce |-> nonce]
    <2>1. /\ nextId <= MaxIds /\ pending' = others \cup {w}
          /\ up' = [up EXCEPT ![current] = Append(@, r)]
          /\ sock' = [sock EXCEPT ![current] = Wrote(current)]
          /\ nextId' = nextId + 1
          /\ agent' = [agent EXCEPT ![a] = [pc |-> kind, sock |-> current]]
        BY <1>3 DEF rpc
    <2>2. current \in DCSockets /\ sock[current] \in {"open", "ending", "hungup"}
        BY <1>3, SocketFacts DEF Writable, ClientInv, PlainInv
    <2>3. /\ w \in Waiter /\ r \in Request
          /\ w.id = nextId /\ w.agent = a /\ w.sock = current /\ r.id = nextId /\ r.agent = a
          /\ nextId \in Nat \ {0} /\ nextId' \in 1 .. MaxIds + 1
        BY <2>1, <2>2, DCAssumption DEF Waiter, Request, ClientInv, PlainInv
    <2> HIDE DEF w, r
    <2>4. /\ agent'[a].pc = kind /\ agent'[a].sock = current /\ agent' \in [Agents -> AgentRec]
          /\ \A b \in Agents \ {a} : agent'[b] = agent[b]
        BY <2>1, <2>2, SocketFacts DEF ClientInv, PlainInv, AgentRec
    <2>5. /\ sock' \in [DCSockets -> SockState] /\ sock'[current] \in {"open", "broken", "hungup"}
          /\ \A t \in DCSockets \ {current} : sock'[t] = sock[t]
        BY <2>1, <2>2 DEF ClientInv, PlainInv, SockState, Wrote
    <2>6. /\ up' \in [DCSockets -> Seq(Request)]
          /\ \A t \in DCSockets \ {current} : up'[t] = up[t]
          /\ \A i \in DOMAIN up'[current] : up'[current][i] = r \/ (i \in DOMAIN up[current] /\ up'[current][i] = up[current][i])
        <3>1. up'[current] = Append(up[current], r) /\ up[current] \in Seq(Request)
            BY <2>1, <2>2 DEF ClientInv, LinesInv
        <3>2. Append(up[current], r) \in Seq(Request)
            BY <2>3, <3>1
        <3>. QED BY <2>1, <2>2, <2>3, <3>1, <3>2 DEF ClientInv, LinesInv
    <2>7. PlainInv'
        BY <2>3, <2>4, <2>5 DEF ClientInv, PlainInv
    <2>8. LinesInv'
        BY <2>1, <2>3, <2>6 DEF ClientInv, LinesInv
    <2>9. IdsInv'
        <3>1. \A p \in pending' : p.id < nextId' /\ (p = w \/ (p \in pending /\ p.id < nextId))
            BY <2>1, <2>3, <1>1 DEF ClientInv, IdsInv, LinesInv, Waiter
        <3>2. ASSUME NEW t \in DCSockets, NEW m \in down'[t]
              PROVE  m.id < nextId' /\ \A p \in pending' : m.id = p.id /\ m.id # 0 => m.agent = p.agent /\ p.sock = t
            <4>1. m \in down[t] /\ m.id \in Nat /\ m.id < nextId
                BY DEF ClientInv, IdsInv, LinesInv, AnswerLine
            <4>. QED BY <2>1, <2>3, <3>1, <4>1 DEF ClientInv, IdsInv
        <3>3. ASSUME NEW t \in DCSockets, NEW i \in DOMAIN up'[t]
              PROVE  up'[t][i].id < nextId' /\ \A p \in pending' : up'[t][i].id = p.id => up'[t][i].agent = p.agent /\ p.sock = t
            <4>1. CASE t = current /\ up'[t][i] = r
                BY <2>1, <2>3, <3>1, <4>1
            <4>2. CASE i \in DOMAIN up[t] /\ up'[t][i] = up[t][i]
                <5>1. up[t][i].id \in Nat /\ up[t][i].id < nextId
                    BY <4>2, UpFacts DEF ClientInv, IdsInv, Request
                <5>. QED BY <2>1, <2>3, <3>1, <4>2, <5>1 DEF ClientInv, IdsInv
            <4>. QED BY <2>6, <4>1, <4>2
        <3>. QED BY <3>1, <3>2, <3>3 DEF IdsInv
    <2>10. WaitInv'
        BY <1>1, <2>1, <2>3, <2>4 DEF ClientInv, WaitInv
    <2>11. SockInv'
        <3>1. \A t \in DCSockets : sock[t] \in {"none", "opening", "closed"} <=> sock'[t] \in {"none", "opening", "closed"}
            BY <2>2, <2>5
        <3>. QED BY <1>1, <1>2, <2>1, <2>2, <2>3, <2>4, <2>5, <3>1, SocketFacts DEF ClientInv, SockInv
    <2>12. TrustInv'
        BY DEF ClientInv, TrustInv
    <2>13. CalmInv'
        BY <2>4 DEF ClientInv, CalmInv, DialsOrEnds
    <2>14. ConnectedIsUsable'
        BY <2>2, <2>5 DEF ClientInv, ConnectedIsUsable
    <2>. QED BY <2>7, <2>8, <2>9, <2>10, <2>11, <2>12, <2>13, <2>14 DEF ClientInv
<1>4. CASE ~Writable(current)
    <2>1. pending' = others /\ agent' = [agent EXCEPT ![a] = Calm] /\ UNCHANGED <<up, sock, nextId>>
        BY <1>4 DEF rpc
    <2>4. agent'[a].pc = "idle" /\ agent' \in [Agents -> AgentRec] /\ \A b \in Agents \ {a} : agent'[b] = agent[b]
        BY <2>1, CalmFacts DEF ClientInv, PlainInv
    <2>7. PlainInv' /\ LinesInv'
        BY <2>1, <2>4 DEF ClientInv, PlainInv, LinesInv
    <2>9. IdsInv' /\ TrustInv'
        BY <2>1 DEF ClientInv, IdsInv, TrustInv
    <2>10. WaitInv'
        BY <1>1, <2>1, <2>4 DEF ClientInv, WaitInv
    <2>11. SockInv'
        BY <2>1, <2>4 DEF ClientInv, SockInv
    <2>13. CalmInv' /\ ConnectedIsUsable'
        BY <2>1, <2>4 DEF ClientInv, CalmInv, DialsOrEnds, ConnectedIsUsable
    <2>. QED BY <2>7, <2>9, <2>10, <2>11, <2>13 DEF ClientInv
<1>. QED BY <1>3, <1>4

LEMMA SendStep ==
    ASSUME ClientInv, NEW a \in Agents, sendRequest(a)
    PROVE  ClientInv'
<1>1. /\ agent[a].pc = "idle" /\ rpc(a, "call", 0, pending)
      /\ UNCHANGED <<trusted, down, current, connected, half, overlap, lineLost>>
    BY DEF sendRequest
<1>2. \A p \in pending : p.agent # a
    BY <1>1 DEF ClientInv, LinesInv, Waiter, WaitInv
<1>3. /\ down' \in [DCSockets -> SUBSET AnswerLine] /\ (\A s \in DCSockets : down'[s] \subseteq down[s])
      /\ half' \in 0 .. MaxSockets /\ 0 \in 0 .. MaxSockets
    BY <1>1, SocketFacts DEF ClientInv, PlainInv, LinesInv
<1>. QED BY <1>1, <1>2, <1>3, RpcStep

\* The states a socket in use goes through, for those who use it.
LEMMA SocketMoves ==
    ASSUME ClientInv, NEW s \in DCSockets, NEW state \in SockState \ {"none", "opening", "closed"},
           sock[s] \notin {"none", "opening", "closed"}, sock' = [sock EXCEPT ![s] = state],
           UNCHANGED <<pending, agent>>
    PROVE  /\ sock' \in [DCSockets -> SockState]
           /\ \A t \in DCSockets : sock[t] \in {"none", "opening", "closed"} \/ sock'[t] \in {"none", "opening", "closed"}
                 => sock'[t] = sock[t]
           /\ SockInv'
<1>1. /\ sock' \in [DCSockets -> SockState]
      /\ \A t \in DCSockets : sock[t] \in {"none", "opening", "closed"} \/ sock'[t] \in {"none", "opening", "closed"}
            => sock'[t] = sock[t]
    BY DEF ClientInv, PlainInv, SockState
<1>2. \A b \in Agents : agent[b].sock # 0 => agent[b].sock \in DCSockets
    BY SocketFacts DEF ClientInv, PlainInv, AgentRec
<1>3. \A p \in pending : p.sock \in DCSockets
    BY DEF ClientInv, LinesInv, Waiter
<1>. QED BY <1>1, <1>2, <1>3 DEF ClientInv, SockInv

LEMMA DisconnectStep ==
    ASSUME ClientInv, NEW a \in Agents, disconnect(a)
    PROVE  ClientInv'
<1>1. /\ agent[a].pc = "idle" /\ connected' = FALSE /\ overlap' = (overlap \/ \E b \in Agents : DialsOrEnds(b))
      /\ UNCHANGED <<trusted, up, down, pending, nextId, half, lineLost>>
    BY DEF disconnect, Reconnecting, DialsOrEnds
<1>2. LinesInv' /\ IdsInv' /\ TrustInv' /\ ConnectedIsUsable' /\ overlap' \in BOOLEAN
    BY <1>1 DEF ClientInv, LinesInv, IdsInv, TrustInv, ConnectedIsUsable
<1>3. CASE current # 0 /\ sock[current] \in {"open", "ending", "hungup", "broken"}
    <2>1. /\ sock' = [sock EXCEPT ![current] = IF @ = "open" THEN "ending" ELSE @]
          /\ agent' = [agent EXCEPT ![a] = [pc |-> "ending", sock |-> current]] /\ UNCHANGED current
        BY <1>3 DEF disconnect
    <2>2. current \in DCSockets
        BY <1>3, SocketFacts DEF ClientInv, PlainInv
    <2>3. /\ agent'[a].pc = "ending" /\ agent' \in [Agents -> AgentRec] /\ \A b \in Agents \ {a} : agent'[b] = agent[b]
        BY <2>1, <2>2, SocketFacts DEF ClientInv, PlainInv, AgentRec
    <2>4. /\ sock' \in [DCSockets -> SockState]
          /\ \A t \in DCSockets : sock[t] \in {"none", "opening", "closed"} \/ sock'[t] \in {"none", "opening", "closed"}
                => sock'[t] = sock[t]
        BY <1>3, <2>1, <2>2 DEF ClientInv, PlainInv, SockState
    <2>5. PlainInv'
        BY <1>1, <1>2, <2>1, <2>3, <2>4 DEF ClientInv, PlainInv
    <2>6. \A p \in pending : p.agent \in Agents /\ p.agent # a /\ p.sock \in DCSockets
        BY <1>1 DEF ClientInv, LinesInv, Waiter, WaitInv
    <2>7. WaitInv'
        BY <1>1, <2>3, <2>6 DEF ClientInv, WaitInv
    <2>8. \A b \in Agents : agent[b].sock # 0 => agent[b].sock \in DCSockets
        BY SocketFacts DEF ClientInv, PlainInv, AgentRec
    <2>9. SockInv'
        BY <1>1, <2>3, <2>4, <2>6, <2>8 DEF ClientInv, SockInv
    <2>10. CalmInv'
        BY <1>1, <2>1, <2>3 DEF ClientInv, CalmInv, DialsOrEnds
    <2>. QED BY <1>2, <2>5, <2>7, <2>9, <2>10 DEF ClientInv
<1>4. CASE ~(current # 0 /\ sock[current] \in {"open", "ending", "hungup", "broken"})
    <2>1. current' = 0 /\ UNCHANGED <<sock, agent>>
        BY <1>4 DEF disconnect
    <2>2. PlainInv'
        BY <1>1, <1>2, <2>1, SocketFacts DEF ClientInv, PlainInv
    <2>3. WaitInv' /\ SockInv'
        BY <1>1, <2>1 DEF ClientInv, WaitInv, SockInv
    <2>4. CalmInv'
        BY <1>1, <2>1 DEF ClientInv, CalmInv, DialsOrEnds
    <2>. QED BY <1>2, <2>2, <2>3, <2>4 DEF ClientInv
<1>. QED BY <1>3, <1>4

LEMMA DisconnectedStep ==
    ASSUME ClientInv, NEW a \in Agents, disconnected(a)
    PROVE  ClientInv'
<1>1. /\ agent[a].pc = "ending" /\ current' = 0 /\ agent' = [agent EXCEPT ![a] = Calm]
      /\ UNCHANGED <<sock, trusted, up, down, connected, pending, nextId, half, overlap, lineLost>>
    BY DEF disconnected
<1>2. agent'[a].pc = "idle" /\ agent' \in [Agents -> AgentRec] /\ \A b \in Agents \ {a} : agent'[b] = agent[b]
    BY <1>1, CalmFacts DEF ClientInv, PlainInv
<1>3. PlainInv' /\ LinesInv'
    BY <1>1, <1>2, SocketFacts DEF ClientInv, PlainInv, LinesInv
<1>4. IdsInv' /\ TrustInv'
    BY <1>1 DEF ClientInv, IdsInv, TrustInv
<1>5. \A p \in pending : p.agent \in Agents /\ p.agent # a
    BY <1>1 DEF ClientInv, LinesInv, Waiter, WaitInv
<1>6. WaitInv'
    BY <1>1, <1>2, <1>5 DEF ClientInv, WaitInv
<1>7. SockInv'
    BY <1>1, <1>2 DEF ClientInv, SockInv
<1>8. CalmInv' /\ ConnectedIsUsable'
    BY <1>1, <1>2 DEF ClientInv, CalmInv, DialsOrEnds, ConnectedIsUsable
<1>. QED BY <1>3, <1>4, <1>6, <1>7, <1>8 DEF ClientInv

LEMMA HangUpStep ==
    ASSUME ClientInv, NEW s \in DCSockets, hangUp(s)
    PROVE  ClientInv'
<1>1. /\ sock[s] = "open" /\ sock' = [sock EXCEPT ![s] = "hungup"] /\ up' = [up EXCEPT ![s] = <<>>]
      /\ UNCHANGED <<trusted, down, current, connected, pending, nextId, half, agent, overlap, lineLost>>
    BY DEF hangUp
<1>2. /\ sock' \in [DCSockets -> SockState] /\ SockInv'
      /\ \A t \in DCSockets : sock[t] \in {"none", "opening", "closed"} \/ sock'[t] \in {"none", "opening", "closed"}
                => sock'[t] = sock[t]
    BY <1>1, SocketMoves DEF SockState
<1>3. PlainInv' /\ TrustInv' /\ WaitInv' /\ CalmInv'
    BY <1>1, <1>2 DEF ClientInv, PlainInv, TrustInv, WaitInv, CalmInv, DialsOrEnds
<1>4. LinesInv'
    <2>1. <<>> \in Seq(Request)
        OBVIOUS
    <2>. QED BY <1>1, <2>1 DEF ClientInv, LinesInv
<1>5. IdsInv'
    <2>1. up'[s] = <<>> /\ DOMAIN <<>> = {} /\ \A t \in DCSockets \ {s} : up'[t] = up[t]
        BY <1>1 DEF ClientInv, LinesInv
    <2>. QED BY <1>1, <2>1 DEF ClientInv, IdsInv
<1>6. ConnectedIsUsable'
    BY <1>1, <1>2, SocketFacts DEF ClientInv, PlainInv, ConnectedIsUsable
<1>. QED BY <1>2, <1>3, <1>4, <1>5, <1>6 DEF ClientInv

\* The server reads a line.
LEMMA ServeStep ==
    ASSUME ClientInv, NEW s \in DCSockets, serve(s)
    PROVE  ClientInv'
<1> DEFINE m == Head(up[s])
           ans(ok) == [id |-> m.id, agent |-> m.agent, ok |-> ok]
<1>1. /\ sock[s] \in {"open", "ending", "broken"} /\ up[s] # <<>>
      /\ UNCHANGED <<current, connected, pending, nextId, half, agent, overlap>>
    BY DEF serve
<1>2. PICK rest \in {Tail(up[s]), <<>>}, ok \in BOOLEAN :
        /\ up' = [up EXCEPT ![s] = rest]
        /\ down' \in {down, [down EXCEPT ![s] = @ \cup {ans(ok)}]}
        /\ trusted \subseteq trusted' /\ trusted' \subseteq DCSockets /\ (ok => s \in trusted')
        /\ sock' = sock \/ sock' = [sock EXCEPT ![s] = "hungup"]
        /\ lineLost' \in BOOLEAN
    <2>1. CASE /\ s \in trusted
               /\ up' = [up EXCEPT ![s] = Tail(@)]
               /\ down' = [down EXCEPT ![s] = @ \cup {ans(TRUE)}]
               /\ UNCHANGED <<trusted, sock, lineLost>>
        BY <2>1 DEF ClientInv, PlainInv
    <2>2. CASE /\ s \notin trusted
               /\ trusted' = trusted \cup {s}
               /\ \E rest \in {Tail(up[s]), <<>>} :
                     /\ up' = [up EXCEPT ![s] = rest]
                     /\ lineLost' = (lineLost \/ rest # Tail(up[s]))
               /\ down' = [down EXCEPT ![s] = @ \cup {ans(TRUE)}]
               /\ UNCHANGED sock
        <3>1. lineLost' \in BOOLEAN
            BY <2>2
        <3>. QED BY <2>2, <3>1 DEF ClientInv, PlainInv
    <2>3. CASE /\ s \notin trusted
               /\ up' = [up EXCEPT ![s] = <<>>]
               /\ down' = [down EXCEPT ![s] = @ \cup {ans(FALSE)}] \/ down' = down
               /\ sock' = [sock EXCEPT ![s] = "hungup"]
               /\ UNCHANGED <<trusted, lineLost>>
        BY <2>3 DEF ClientInv, PlainInv
    <2>. QED BY <2>1, <2>2, <2>3 DEF serve
<1>3. /\ m \in Request /\ rest \in Seq(Request) /\ m = up[s][1] /\ 1 \in DOMAIN up[s]
      /\ \A i \in DOMAIN rest : i + 1 \in DOMAIN up[s] /\ rest[i] = up[s][i + 1]
    <2>1. up[s] \in Seq(Request)
        BY DEF ClientInv, LinesInv
    <2>2. CASE rest = Tail(up[s])
        BY <1>1, <2>1, <2>2
    <2>3. CASE rest = <<>>
        BY <1>1, <2>1, <2>3
    <2>. QED BY <1>2, <2>2, <2>3
<1>4. ans(ok) \in AnswerLine /\ ans(ok).id = m.id /\ ans(ok).agent = m.agent /\ ans(ok).ok = ok
    BY <1>3 DEF Request, AnswerLine
<1> HIDE DEF ans, m
<1>5. /\ down' \in [DCSockets -> SUBSET AnswerLine]
      /\ \A t \in DCSockets : \A x \in down'[t] : x \in down[t] \/ (t = s /\ x = ans(ok))
    BY <1>2, <1>4 DEF ClientInv, LinesInv
<1>6. /\ up' \in [DCSockets -> Seq(Request)] /\ up'[s] = rest /\ \A t \in DCSockets \ {s} : up'[t] = up[t]
    BY <1>2, <1>3 DEF ClientInv, LinesInv
<1>7. /\ sock' \in [DCSockets -> SockState] /\ SockInv'
      /\ \A t \in DCSockets : sock[t] \in {"none", "opening", "closed"} \/ sock'[t] \in {"none", "opening", "closed"}
                => sock'[t] = sock[t]
    <2>1. CASE sock' = sock
        BY <1>1, <2>1 DEF ClientInv, PlainInv, SockInv
    <2>2. CASE sock' = [sock EXCEPT ![s] = "hungup"]
        BY <1>1, <2>2, SocketMoves DEF SockState
    <2>. QED BY <1>2, <2>1, <2>2
<1>8. PlainInv' /\ LinesInv' /\ WaitInv'
    BY <1>1, <1>2, <1>5, <1>6, <1>7 DEF ClientInv, PlainInv, LinesInv, WaitInv
<1>9. IdsInv'
    <2>1. m.id < nextId /\ \A p \in pending : m.id = p.id => m.agent = p.agent /\ p.sock = s
        BY <1>3 DEF ClientInv, IdsInv
    <2>2. \A t \in DCSockets : \A x \in down'[t] :
             /\ x.id < nextId
             /\ \A p \in pending : x.id = p.id /\ x.id # 0 => x.agent = p.agent /\ p.sock = t
        BY <1>4, <1>5, <2>1 DEF ClientInv, IdsInv
    <2>3. \A t \in DCSockets : \A i \in DOMAIN up'[t] :
             /\ up'[t][i].id < nextId
             /\ \A p \in pending : up'[t][i].id = p.id => up'[t][i].agent = p.agent /\ p.sock = t
        BY <1>3, <1>6 DEF ClientInv, IdsInv
    <2>. QED BY <1>1, <2>2, <2>3 DEF ClientInv, IdsInv
<1>10. TrustInv'
    BY <1>2, <1>4, <1>5 DEF ClientInv, TrustInv
<1>11. CalmInv'
    BY <1>1 DEF ClientInv, CalmInv, DialsOrEnds
<1>12. ConnectedIsUsable'
    BY <1>1, <1>2, <1>7, SocketFacts DEF ClientInv, PlainInv, ConnectedIsUsable
<1>. QED BY <1>7, <1>8, <1>9, <1>10, <1>11, <1>12 DEF ClientInv

\* Lines are read or lost; nobody is told.
LEMMA ReadOnlyStep ==
    ASSUME ClientInv, down' \in [DCSockets -> SUBSET AnswerLine], \A s \in DCSockets : down'[s] \subseteq down[s],
           half' \in 0 .. MaxSockets, lineLost' \in BOOLEAN,
           UNCHANGED <<sock, trusted, up, current, connected, pending, nextId, agent, overlap>>
    PROVE  ClientInv'
<1>1. PlainInv' /\ LinesInv'
    BY DEF ClientInv, PlainInv, LinesInv
<1>2. IdsInv' /\ TrustInv'
    BY DEF ClientInv, IdsInv, TrustInv
<1>3. WaitInv' /\ SockInv'
    BY DEF ClientInv, WaitInv, SockInv
<1>4. CalmInv' /\ ConnectedIsUsable'
    BY DEF ClientInv, CalmInv, DialsOrEnds, ConnectedIsUsable
<1>. QED BY <1>1, <1>2, <1>3, <1>4 DEF ClientInv

\* An answer goes to whoever waits under its id.
LEMMA SettledStep ==
    ASSUME ClientInv, NEW s \in DCSockets, NEW m \in down[s], NEW p \in pending, p.id = m.id, p.id # 0,
           pending' = pending \ {p},
           connected' = (connected \/ (agent[p.agent].pc = "auth" /\ m.ok)),
           agent' = [agent EXCEPT ![p.agent] = Calm],
           down' \in [DCSockets -> SUBSET AnswerLine], \A t \in DCSockets : down'[t] \subseteq down[t],
           half' \in 0 .. MaxSockets,
           UNCHANGED <<up, sock, nextId, trusted, current, overlap, lineLost>>
    PROVE  ClientInv'
<1> DEFINE a == p.agent
<1>1. /\ a \in Agents /\ p.sock = s /\ agent[a].pc \in {"auth", "call"} /\ agent[a].sock = s
      /\ sock[s] \notin {"none", "opening", "closed"} /\ s # 0
    BY SocketFacts DEF ClientInv, LinesInv, Waiter, IdsInv, WaitInv, SockInv
<1>2. \A q \in pending' : q \in pending /\ q.agent # a /\ q.agent \in Agents
    BY DEF ClientInv, LinesInv, Waiter, WaitInv
<1>3. agent'[a].pc = "idle" /\ agent' \in [Agents -> AgentRec] /\ \A b \in Agents \ {a} : agent'[b] = agent[b]
    BY <1>1, CalmFacts DEF ClientInv, PlainInv
<1> HIDE DEF a
<1>4. PlainInv'
    <2>1. connected' \in BOOLEAN
        BY DEF ClientInv, PlainInv
    <2>. QED BY <1>3, <2>1 DEF ClientInv, PlainInv
<1>5. LinesInv' /\ IdsInv' /\ TrustInv'
    BY DEF ClientInv, LinesInv, IdsInv, TrustInv
<1>6. WaitInv'
    BY <1>2, <1>3 DEF ClientInv, WaitInv, a
<1>7. SockInv'
    BY <1>1, <1>2, <1>3 DEF ClientInv, SockInv
<1>8. CASE agent[a].pc = "auth" /\ m.ok
    <2>1. s \in trusted
        BY <1>8 DEF ClientInv, TrustInv
    <2>2. ~overlap => current = s /\ \A b \in Agents \ {a} : ~DialsOrEnds(b)
        BY <1>1, <1>8 DEF ClientInv, CalmInv, DialsOrEnds
    <2>3. CalmInv'
        BY <1>3, <2>2 DEF CalmInv, DialsOrEnds
    <2>4. ConnectedIsUsable'
        BY <1>1, <2>1, <2>2 DEF ConnectedIsUsable
    <2>. QED BY <1>4, <1>5, <1>6, <1>7, <2>3, <2>4 DEF ClientInv
<1>9. CASE ~(agent[a].pc = "auth" /\ m.ok)
    <2>1. connected' = connected
        BY <1>9 DEF ClientInv, PlainInv, a
    <2>2. CalmInv' /\ ConnectedIsUsable'
        BY <1>3, <2>1 DEF ClientInv, CalmInv, DialsOrEnds, ConnectedIsUsable
    <2>. QED BY <1>4, <1>5, <1>6, <1>7, <2>2 DEF ClientInv
<1>. QED BY <1>8, <1>9

LEMMA DataStep ==
    ASSUME ClientInv, NEW s \in DCSockets, onData(s)
    PROVE  ClientInv'
<1>1. PICK m \in down[s] :
          /\ half' = 0
          /\ IF half \in {0, s}
             THEN /\ Delivered(s, m)
                  /\ down' = [down EXCEPT ![s] = @ \ {m}]
                  /\ UNCHANGED lineLost
             ELSE /\ \E lost \in SUBSET down[half] : down' = [down EXCEPT ![s] = @ \ {m}, ![half] = @ \ lost]
                  /\ lineLost' = TRUE
                  /\ UNCHANGED <<pending, agent, up, sock, nextId, connected>>
    BY DEF onData
<1>2. UNCHANGED <<trusted, current, overlap>> /\ half' \in 0 .. MaxSockets
    BY <1>1, SocketFacts DEF onData
<1>3. CASE half \notin {0, s}
    <2>1. half \in DCSockets
        BY <1>3, SocketFacts DEF ClientInv, PlainInv
    <2>2. PICK lost \in SUBSET down[half] : down' = [down EXCEPT ![s] = @ \ {m}, ![half] = @ \ lost]
        BY <1>1, <1>3
    <2>3. down' \in [DCSockets -> SUBSET AnswerLine] /\ \A t \in DCSockets : down'[t] \subseteq down[t]
        BY <1>3, <2>1, <2>2 DEF ClientInv, LinesInv
    <2>. QED BY <1>1, <1>2, <1>3, <2>3, ReadOnlyStep
<1>4. CASE half \in {0, s}
    <2>1. /\ down' \in [DCSockets -> SUBSET AnswerLine] /\ (\A t \in DCSockets : down'[t] \subseteq down[t])
          /\ lineLost' = lineLost /\ lineLost \in BOOLEAN
        BY <1>1, <1>4 DEF ClientInv, LinesInv, PlainInv
    <2>2. CASE UNCHANGED <<pending, agent, up, sock, nextId, connected>>
        BY <1>2, <2>1, <2>2, ReadOnlyStep
    <2>3. ASSUME NEW p \in pending, p.id = m.id, p.id = 0, rpc(p.agent, "auth", s, pending \ {p}), UNCHANGED connected
          PROVE  ClientInv'
        <3> DEFINE a == p.agent
        <3>1. a \in Agents /\ agent[a].pc = "challenge" /\ \A q \in pending : q \in pending \ {p} <=> q.agent # a
            BY <2>3 DEF ClientInv, LinesInv, Waiter, WaitInv
        <3>2. s \in 0 .. MaxSockets
            BY SocketFacts
        <3>. QED BY <1>2, <2>1, <2>3, <3>1, <3>2, RpcStep
    <2>4. ASSUME NEW p \in pending, p.id = m.id, p.id # 0, pending' = pending \ {p},
                 connected' = (connected \/ (agent[p.agent].pc = "auth" /\ m.ok)),
                 agent' = [agent EXCEPT ![p.agent] = Calm], UNCHANGED <<up, sock, nextId>>
          PROVE  ClientInv'
        BY <1>2, <2>1, <2>4, SettledStep
    <2>. QED BY <1>1, <1>4, <2>2, <2>3, <2>4 DEF Delivered, Challenge
<1>. QED BY <1>3, <1>4

\* rejectAllPending(): nobody waits any more.
LEMMA RejectAll ==
    ASSUME ClientInv, agent' = Rejected_(agent), pending' = {}
    PROVE  /\ agent' \in [Agents -> AgentRec]
           /\ \A a \in Agents : /\ agent'[a].pc \notin {"auth", "call"}
                                /\ (agent'[a] = agent[a] \/ agent'[a].pc = "idle")
           /\ WaitInv'
<1>1. \A a \in Agents : agent'[a] = IF \E p \in pending : p.agent = a THEN Calm ELSE agent[a]
    BY DEF Rejected_
<1>2. agent' \in [Agents -> AgentRec]
    BY <1>1, CalmFacts DEF Rejected_, ClientInv, PlainInv
<1>3. \A a \in Agents : agent'[a].pc \notin {"auth", "call"} /\ (agent'[a] = agent[a] \/ agent'[a].pc = "idle")
    BY <1>1, CalmFacts DEF ClientInv, WaitInv
<1>. QED BY <1>2, <1>3 DEF WaitInv

LEMMA ErrorStep ==
    ASSUME ClientInv, NEW s \in DCSockets, socketError(s)
    PROVE  ClientInv'
<1>1. /\ sock[s] = "broken" /\ sock' = [sock EXCEPT ![s] = "destroyed"]
      /\ agent' = Rejected_(agent) /\ pending' = {}
      /\ UNCHANGED <<trusted, up, down, current, connected, nextId, half, overlap, lineLost>>
    BY DEF socketError
<1>2. /\ agent' \in [Agents -> AgentRec] /\ WaitInv'
      /\ \A a \in Agents : /\ agent'[a].pc \notin {"auth", "call"}
                            /\ (agent'[a] = agent[a] \/ agent'[a].pc = "idle")
    BY <1>1, RejectAll
<1>3. /\ sock' \in [DCSockets -> SockState]
      /\ \A t \in DCSockets : sock'[t] = sock[t] \/ (t = s /\ sock'[t] = "destroyed")
    BY <1>1 DEF ClientInv, PlainInv, SockState
<1>4. PlainInv' /\ LinesInv' /\ IdsInv' /\ TrustInv'
    BY <1>1, <1>2, <1>3 DEF ClientInv, PlainInv, LinesInv, IdsInv, TrustInv
<1>5. SockInv'
    <2>1. \A b \in Agents : agent[b].sock # 0 => agent[b].sock \in DCSockets
        BY SocketFacts DEF ClientInv, PlainInv, AgentRec
    <2>. QED BY <1>1, <1>2, <1>3, <2>1 DEF ClientInv, SockInv
<1>6. CalmInv'
    BY <1>1, <1>2 DEF ClientInv, CalmInv, DialsOrEnds
<1>7. ConnectedIsUsable'
    BY <1>1, <1>3, SocketFacts DEF ClientInv, PlainInv, ConnectedIsUsable
<1>. QED BY <1>2, <1>4, <1>5, <1>6, <1>7 DEF ClientInv

LEMMA ClosedStep ==
    ASSUME ClientInv, NEW s \in DCSockets, closed(s)
    PROVE  ClientInv'
<1>1. /\ sock[s] \in {"ending", "hungup", "destroyed"} /\ sock' = [sock EXCEPT ![s] = "closed"]
      /\ up' = [up EXCEPT ![s] = <<>>] /\ down' = [down EXCEPT ![s] = {}]
      /\ connected' = FALSE /\ agent' = Rejected_(agent) /\ pending' = {}
      /\ UNCHANGED <<trusted, current, nextId, half, overlap, lineLost>>
    BY DEF closed
<1>2. /\ agent' \in [Agents -> AgentRec] /\ WaitInv'
      /\ \A a \in Agents : /\ agent'[a].pc \notin {"auth", "call"}
                            /\ (agent'[a] = agent[a] \/ agent'[a].pc = "idle")
    BY <1>1, RejectAll
<1>3. /\ sock' \in [DCSockets -> SockState]
      /\ \A t \in DCSockets : sock'[t] = sock[t] \/ (t = s /\ sock'[t] = "closed")
    BY <1>1 DEF ClientInv, PlainInv, SockState
<1>4. PlainInv'
    BY <1>1, <1>2, <1>3 DEF ClientInv, PlainInv
<1>5. /\ up'[s] = <<>> /\ DOMAIN <<>> = {} /\ <<>> \in Seq(Request) /\ (\A t \in DCSockets \ {s} : up'[t] = up[t])
      /\ \A t \in DCSockets : down'[t] \subseteq down[t]
    BY <1>1 DEF ClientInv, LinesInv
<1>6. LinesInv'
    BY <1>1, <1>5 DEF ClientInv, LinesInv
<1>7. IdsInv' /\ TrustInv'
    BY <1>1, <1>5 DEF ClientInv, IdsInv, TrustInv
<1>8. SockInv'
    <2>1. \A b \in Agents : agent[b].sock # 0 => agent[b].sock \in DCSockets
        BY SocketFacts DEF ClientInv, PlainInv, AgentRec
    <2>. QED BY <1>1, <1>2, <1>3, <2>1 DEF ClientInv, SockInv
<1>9. CalmInv' /\ ConnectedIsUsable'
    BY <1>1, <1>2 DEF ClientInv, CalmInv, DialsOrEnds, ConnectedIsUsable
<1>. QED BY <1>2, <1>4, <1>6, <1>7, <1>8, <1>9 DEF ClientInv

\* For any number of users of one client, of sockets and of ids, with
\* connections that fail, hang up or overlap at any moment: whoever waits for an
\* answer is in the map once and his socket is not closed; an answer settles its
\* own request only; and a client that counts as connected has an authenticated
\* socket, as long as connect() and disconnect() do not overlap (DCInv).
THEOREM ClientCorrect == DCSpec => []DCInv
<1>1. ClientInv /\ [DCNext]_dcVars => ClientInv'
    <2> SUFFICES ASSUME ClientInv, [DCNext]_dcVars PROVE ClientInv'
        OBVIOUS
    <2>1. CASE UNCHANGED dcVars
        <3>1. PlainInv' /\ LinesInv' /\ IdsInv' /\ TrustInv'
            BY <2>1 DEF dcVars, ClientInv, PlainInv, LinesInv, IdsInv, TrustInv
        <3>2. WaitInv' /\ SockInv' /\ CalmInv' /\ ConnectedIsUsable'
            BY <2>1 DEF dcVars, ClientInv, WaitInv, SockInv, CalmInv, DialsOrEnds, ConnectedIsUsable
        <3>. QED BY <3>1, <3>2 DEF ClientInv
    <2>2. ASSUME NEW s \in DCSockets, partialData(s) PROVE ClientInv'
        <3>1. /\ UNCHANGED <<sock, trusted, up, down, current, connected, pending, nextId, agent, overlap, lineLost>>
              /\ half' = s /\ s \in 0 .. MaxSockets /\ down \in [DCSockets -> SUBSET AnswerLine] /\ lineLost \in BOOLEAN
            BY <2>2, SocketFacts DEF partialData, ClientInv, LinesInv, PlainInv
        <3>. QED BY <3>1, ReadOnlyStep
    <2>. QED BY <2>1, <2>2, ConnectStep, OpenedStep, OpenFailsStep, SendStep, DisconnectStep, DisconnectedStep,
           ServeStep, HangUpStep, DataStep, ErrorStep, ClosedStep DEF DCNext
<1>. QED BY <1>1, ClientInit, ImpliesDCInv, PTL DEF DCSpec

-----------------------------------------------------------------------------
(***************************************************************************)
(* ConnectionPool: any users, number of connections, limits and timeouts.  *)
(*                                                                         *)
(* A connection is lent to one user because being taken, which users and   *)
(* waiters believe, is tied to its state: the invariant says who owns what *)
(* at every step of acquire, release and the timers.                       *)
(***************************************************************************)

ConnState == [state : {"none", "idle", "busy", "closed"}, timer : BOOLEAN]
UserState == [pc : {"out", "opening", "waiting", "holding", "calling"}, conn : PooledConnection \cup {0}]

\* The connection of a caller was opened, whatever became of it.
OwnedInv ==
    \A u \in Users : user[u].pc \in {"opening", "holding", "calling"} =>
        user[u].conn \in PooledConnection /\ pooled[user[u].conn].state # "none"

\* While someone waits, an idle connection is one that a caller has opened and
\* will take, or the loop over the waiters is under way.
TakenInv ==
    ~draining /\ waiters # <<>> =>
        \A c \in IdleIn(pooled) : \E u \in Users : user[u].pc = "opening" /\ user[u].conn = c

CPIInv == CPTypeOK /\ NoRequestOnClosed /\ QueuedOnce /\ OwnedInv /\ TakenInv

LEMMA CPTypeFacts ==
    CPTypeOK <=>
        /\ pooled \in [PooledConnection -> ConnState] /\ waiters \in Seq(Users) /\ user \in [Users -> UserState]
        /\ respawns \in Nat /\ draining \in BOOLEAN /\ poolDown \in BOOLEAN
BY DEF CPTypeOK, ConnState, UserState

LEMMA StateFacts ==
    /\ NotOpened \in ConnState /\ NotOpened.state = "none"
    /\ FreshConnection \in ConnState /\ FreshConnection.state = "idle"
    /\ \A st \in {"idle", "busy", "closed"}, b \in BOOLEAN :
          [state |-> st, timer |-> b] \in ConnState /\ [state |-> st, timer |-> b].state = st
    /\ \A r \in ConnState :
          /\ r.state \in {"none", "idle", "busy", "closed"} /\ r.timer \in BOOLEAN
          /\ [r EXCEPT !.state = "busy"] \in ConnState /\ [r EXCEPT !.state = "busy"].state = "busy"
          /\ [r EXCEPT !.timer = FALSE] \in ConnState /\ [r EXCEPT !.timer = FALSE].state = r.state
BY DEF NotOpened, FreshConnection, ConnState

LEMMA UserFacts ==
    /\ Out \in UserState /\ Out.pc = "out"
    /\ \A pc \in {"opening", "holding"}, c \in PooledConnection :
          [pc |-> pc, conn |-> c] \in UserState /\ [pc |-> pc, conn |-> c].pc = pc /\ [pc |-> pc, conn |-> c].conn = c
    /\ \A r \in UserState, pc \in {"waiting", "holding", "calling"} :
          /\ r.pc \in {"out", "opening", "waiting", "holding", "calling"} /\ r.conn \in PooledConnection \cup {0}
          /\ [r EXCEPT !.pc = pc] \in UserState /\ [r EXCEPT !.pc = pc].pc = pc /\ [r EXCEPT !.pc = pc].conn = r.conn
BY DEF Out, UserState

LEMMA LeastIdle == IdleIn(pooled) # {} => Least(IdleIn(pooled)) \in IdleIn(pooled)
<1> SUFFICES ASSUME IdleIn(pooled) # {} PROVE Least(IdleIn(pooled)) \in IdleIn(pooled)
    OBVIOUS
<1> DEFINE S == IdleIn(pooled)
<1>1. S \subseteq Nat
    BY ConnectionPoolAssumption DEF IdleIn, PooledConnection
<1> HIDE DEF S
<1>2. \E c \in S : \A d \in S : c <= d
    BY <1>1, LeastNumber DEF S
<1>3. Least(S) \in S
    BY <1>2 DEF Least
<1>. QED BY <1>3 DEF S

LEMMA NextIsNew == NextOpened <= MaxOpened => NextOpened \in PooledConnection
<1>1. IsFiniteSet(PooledConnection)
    BY ConnectionPoolAssumption, FS_Interval DEF PooledConnection
<1>2. IsFiniteSet(Opened(pooled))
    BY <1>1, FS_Subset DEF Opened
<1>3. Cardinality(Opened(pooled)) \in Nat
    BY <1>2, FS_CardinalityType
<1>. QED BY <1>3, ConnectionPoolAssumption DEF NextOpened, PooledConnection

LEMMA PoolInit == CPInit => CPIInv
<1> SUFFICES ASSUME CPInit PROVE CPIInv
    OBVIOUS
<1>1. waiters = <<>> /\ Elements(waiters) = {} /\ Once(waiters) /\ waiters \in Seq(Users) /\ 0 \in Nat
    BY DEF CPInit, Elements, Once
<1>2. \A u \in Users : user[u] = Out
    BY DEF CPInit
<1>3. CPTypeOK
    BY <1>1, StateFacts, UserFacts, CPTypeFacts DEF CPInit
<1>4. poolDown = FALSE
    BY DEF CPInit
<1>. QED BY <1>1, <1>2, <1>3, <1>4, UserFacts DEF CPIInv, NoRequestOnClosed, QueuedOnce, OwnedInv, TakenInv

LEMMA ImpliesCPInv == CPIInv => CPInv
BY DEF CPIInv, CPInv, TakenInv, NobodyWaitsForIdle, CPQuiet

-----------------------------------------------------------------------------
\* One connection changes and one caller goes on, who does not wait before or
\* after; the queue stays as it is.
LEMMA OneUser ==
    ASSUME CPIInv, NEW u \in Users, user[u].pc # "waiting", NEW x \in UserState, user' = [user EXCEPT ![u] = x],
           x.pc # "waiting", NEW c \in PooledConnection, NEW r \in ConnState, pooled' = [pooled EXCEPT ![c] = r],
           r.state # "none" \/ r = pooled[c],
           r.state = "closed" => pooled[c].state = "closed",
           x.pc \in {"opening", "holding", "calling"} => x.conn \in PooledConnection /\ pooled'[x.conn].state # "none",
           x.pc = "calling" => pooled'[x.conn].state \in {"idle", "busy"},
           poolDown => r.state \notin {"idle", "busy"},
           \/ draining \/ waiters = <<>> \/ (r = pooled[c] /\ user[u].pc # "opening")
           \/ user[u].pc # "opening" /\ r.state = "idle" /\ x.pc = "opening" /\ x.conn = c
           \/ r.state # "idle" /\ (user[u].pc = "opening" => user[u].conn = c),
           UNCHANGED <<waiters, respawns, draining, poolDown>>
    PROVE  CPIInv'
<1> USE DEF CPIInv
<1>1. pooled \in [PooledConnection -> ConnState] /\ user \in [Users -> UserState]
    BY CPTypeFacts
<1>2. user' \in [Users -> UserState] /\ user'[u] = x /\ \A v \in Users \ {u} : user'[v] = user[v]
    BY <1>1
<1>3. pooled' \in [PooledConnection -> ConnState] /\ pooled'[c] = r /\ \A d \in PooledConnection \ {c} : pooled'[d] = pooled[d]
    BY <1>1
<1>4. CPTypeOK'
    BY <1>2, <1>3 DEF CPTypeOK, ConnState, UserState
<1>5. \A d \in PooledConnection : /\ pooled[d].state # "none" => pooled'[d].state # "none"
                                  /\ pooled[d].state \in {"idle", "busy"} => pooled'[d].state \in {"idle", "busy"}
    <2>1. r.state \in {"none", "idle", "busy", "closed"}
        BY StateFacts
    <2>2. /\ pooled[c].state # "none" => r.state # "none"
          /\ pooled[c].state \in {"idle", "busy"} => r.state \in {"idle", "busy"}
        BY <2>1
    <2>. QED BY <1>3, <2>2
<1>6. OwnedInv'
    BY <1>2, <1>5 DEF OwnedInv
<1>7. NoRequestOnClosed'
    BY <1>2, <1>5 DEF NoRequestOnClosed, OwnedInv
<1>8. QueuedOnce'
    <2>1. \A v \in Users : user'[v].pc = "waiting" <=> user[v].pc = "waiting"
        BY <1>2
    <2>2. poolDown' => InMap(pooled)' = {}
        BY <1>3 DEF QueuedOnce, InMap
    <2>. QED BY <2>1, <2>2 DEF QueuedOnce
<1>9. TakenInv'
    <2> SUFFICES ASSUME ~draining, waiters # <<>>, NEW d \in PooledConnection, pooled'[d].state = "idle"
                 PROVE  \E v \in Users : user'[v].pc = "opening" /\ user'[v].conn = d
        BY DEF TakenInv, IdleIn
    <2>1. CASE d = c /\ r # pooled[c]
        BY <1>2, <1>3, <2>1
    <2>2. CASE d # c \/ r = pooled[c]
        <3>1. pooled[d].state = "idle"
            BY <1>3, <2>2
        <3>2. PICK v \in Users : user[v].pc = "opening" /\ user[v].conn = d
            BY <3>1 DEF TakenInv, IdleIn
        <3>3. v # u
            BY <2>2, <3>2
        <3>. QED BY <1>2, <3>2, <3>3
    <2>. QED BY <2>1, <2>2
<1>. QED BY <1>4, <1>6, <1>7, <1>8, <1>9

LEMMA AcquireStep == ASSUME CPIInv, NEW u \in Users, acquireConnection(u) PROVE CPIInv'
<1> USE DEF CPIInv
<1>1. user[u].pc = "out" /\ ~poolDown /\ UNCHANGED <<respawns, draining, poolDown>>
    BY DEF acquireConnection
<1>2. pooled \in [PooledConnection -> ConnState] /\ user \in [Users -> UserState] /\ waiters \in Seq(Users)
    BY CPTypeFacts
<1>3. CASE /\ IdleIn(pooled) # {} /\ pooled' = Busy(pooled, Least(IdleIn(pooled)))
           /\ user' = Held(u, Least(IdleIn(pooled))) /\ waiters' = waiters
    <2> DEFINE c == Least(IdleIn(pooled))
               r == [state |-> "busy", timer |-> FALSE]
               x == [pc |-> "holding", conn |-> c]
    <2>1. c \in PooledConnection
        BY <1>3, LeastIdle DEF IdleIn
    <2> HIDE DEF c
    <2>2. r \in ConnState /\ r.state = "busy" /\ x \in UserState /\ x.pc = "holding" /\ x.conn = c
        BY <2>1, StateFacts, UserFacts
    <2>3. pooled' = [pooled EXCEPT ![c] = r] /\ user' = [user EXCEPT ![u] = x]
        BY <1>3 DEF Busy, Held, c
    <2> HIDE DEF r, x
    <2>4. pooled'[c] = r
        BY <1>2, <2>1, <2>3
    <2>5. /\ r.state # "none" \/ r = pooled[c]
          /\ r.state = "closed" => pooled[c].state = "closed"
          /\ x.pc \in {"opening", "holding", "calling"} => x.conn \in PooledConnection /\ pooled'[x.conn].state # "none"
          /\ x.pc = "calling" => pooled'[x.conn].state \in {"idle", "busy"}
          /\ poolDown => r.state \notin {"idle", "busy"}
          /\ \/ draining \/ waiters = <<>> \/ (r = pooled[c] /\ user[u].pc # "opening")
             \/ user[u].pc # "opening" /\ r.state = "idle" /\ x.pc = "opening" /\ x.conn = c
             \/ r.state # "idle" /\ (user[u].pc = "opening" => user[u].conn = c)
          /\ user[u].pc # "waiting" /\ x.pc # "waiting" /\ UNCHANGED <<waiters, respawns, draining, poolDown>>
        BY <1>1, <1>3, <2>1, <2>2, <2>4
    <2>. QED BY <2>1, <2>2, <2>3, <2>5, OneUser
<1>4. CASE /\ IdleIn(pooled) = {} /\ NextOpened <= MaxOpened
           /\ pooled' = [pooled EXCEPT ![NextOpened] = FreshConnection]
           /\ user' = [user EXCEPT ![u] = [pc |-> "opening", conn |-> NextOpened]] /\ waiters' = waiters
    <2> DEFINE c == NextOpened
               r == FreshConnection
               x == [pc |-> "opening", conn |-> c]
    <2>1. c \in PooledConnection
        BY <1>4, NextIsNew
    <2> HIDE DEF c
    <2>2. r \in ConnState /\ r.state = "idle" /\ x \in UserState /\ x.pc = "opening" /\ x.conn = c
        BY <2>1, StateFacts, UserFacts
    <2>3. pooled' = [pooled EXCEPT ![c] = r] /\ user' = [user EXCEPT ![u] = x]
        BY <1>4 DEF c
    <2> HIDE DEF r, x
    <2>4. pooled'[c] = r
        BY <1>2, <2>1, <2>3
    <2>5. /\ r.state # "none" \/ r = pooled[c]
          /\ r.state = "closed" => pooled[c].state = "closed"
          /\ x.pc \in {"opening", "holding", "calling"} => x.conn \in PooledConnection /\ pooled'[x.conn].state # "none"
          /\ x.pc = "calling" => pooled'[x.conn].state \in {"idle", "busy"}
          /\ poolDown => r.state \notin {"idle", "busy"}
          /\ \/ draining \/ waiters = <<>> \/ (r = pooled[c] /\ user[u].pc # "opening")
             \/ user[u].pc # "opening" /\ r.state = "idle" /\ x.pc = "opening" /\ x.conn = c
             \/ r.state # "idle" /\ (user[u].pc = "opening" => user[u].conn = c)
          /\ user[u].pc # "waiting" /\ x.pc # "waiting" /\ UNCHANGED <<waiters, respawns, draining, poolDown>>
        BY <1>1, <1>4, <2>1, <2>2, <2>4
    <2>. QED BY <2>1, <2>2, <2>3, <2>5, OneUser
<1>5. CASE /\ IdleIn(pooled) = {} /\ waiters' = Append(waiters, u)
           /\ user' = [user EXCEPT ![u].pc = "waiting"] /\ pooled' = pooled
    <2> DEFINE x == [user[u] EXCEPT !.pc = "waiting"]
    <2>1. x \in UserState /\ x.pc = "waiting"
        BY <1>2, UserFacts
    <2>2. user' = [user EXCEPT ![u] = x]
        BY <1>5
    <2> HIDE DEF x
    <2>3. user' \in [Users -> UserState] /\ user'[u] = x /\ \A v \in Users \ {u} : user'[v] = user[v]
        BY <1>2, <2>1, <2>2
    <2>4. Once(waiters) /\ Elements(waiters) = {v \in Users : user[v].pc = "waiting"} /\ u \notin Elements(waiters)
        BY <1>1 DEF QueuedOnce
    <2>5. waiters' \in Seq(Users) /\ Elements(waiters') = Elements(waiters) \cup {u} /\ Once(waiters')
        BY <1>2, <1>5, <2>4, AppendFacts
    <2>6. CPTypeOK'
        BY <1>1, <1>5, <2>3, <2>5 DEF CPTypeOK, UserState
    <2>7. QueuedOnce'
        BY <1>1, <2>1, <2>3, <2>4, <2>5 DEF QueuedOnce
    <2>8. NoRequestOnClosed' /\ OwnedInv'
        BY <1>5, <2>1, <2>3 DEF NoRequestOnClosed, OwnedInv
    <2>9. TakenInv'
        BY <1>5 DEF TakenInv
    <2>. QED BY <2>6, <2>7, <2>8, <2>9
<1>. QED BY <1>3, <1>4, <1>5 DEF acquireConnection

LEMMA AcquiredStep == ASSUME CPIInv, NEW u \in Users, acquired(u) PROVE CPIInv'
<1> USE DEF CPIInv
<1> DEFINE c == user[u].conn
           r == IF pooled[c].state = "closed" THEN pooled[c] ELSE [state |-> "busy", timer |-> FALSE]
           x == [pc |-> "holding", conn |-> c]
<1>1. /\ user[u].pc = "opening" /\ user' = [user EXCEPT ![u] = x]
      /\ pooled' = IF pooled[c].state = "closed" THEN pooled ELSE [pooled EXCEPT ![c] = [state |-> "busy", timer |-> FALSE]]
      /\ UNCHANGED <<waiters, respawns, draining, poolDown>>
    BY DEF acquired, Held, Busy
<1>2. pooled \in [PooledConnection -> ConnState] /\ user \in [Users -> UserState]
    BY CPTypeFacts
<1>3. c \in PooledConnection /\ pooled[c].state # "none"
    BY <1>1 DEF OwnedInv
<1>4. pooled' = [pooled EXCEPT ![c] = r]
    BY <1>1, <1>2, <1>3
<1>5. r \in ConnState /\ r.state \in {"busy", "closed"} /\ (r.state = "closed" => r = pooled[c])
    BY <1>2, <1>3, StateFacts
<1>6. x \in UserState /\ x.pc = "holding" /\ x.conn = c
    BY <1>3, UserFacts
<1>7. poolDown => pooled[c].state = "closed"
    <2>1. pooled[c].state \in {"none", "idle", "busy", "closed"}
        BY <1>2, <1>3, StateFacts
    <2>. QED BY <1>3, <2>1 DEF QueuedOnce, InMap
<1>8. poolDown => r.state = "closed"
    BY <1>7
<1> HIDE DEF r, x
<1>9. pooled'[c] = r
    BY <1>2, <1>3, <1>4
<1>10. user[u].conn = c
    OBVIOUS
<1> HIDE DEF c
<1>11. /\ r.state # "none" \/ r = pooled[c]
       /\ r.state = "closed" => pooled[c].state = "closed"
       /\ x.pc \in {"opening", "holding", "calling"} => x.conn \in PooledConnection /\ pooled'[x.conn].state # "none"
       /\ x.pc = "calling" => pooled'[x.conn].state \in {"idle", "busy"}
       /\ poolDown => r.state \notin {"idle", "busy"}
       /\ \/ draining \/ waiters = <<>> \/ (r = pooled[c] /\ user[u].pc # "opening")
          \/ user[u].pc # "opening" /\ r.state = "idle" /\ x.pc = "opening" /\ x.conn = c
          \/ r.state # "idle" /\ (user[u].pc = "opening" => user[u].conn = c)
       /\ user[u].pc # "waiting" /\ x.pc # "waiting" /\ UNCHANGED <<waiters, respawns, draining, poolDown>>
    BY <1>1, <1>3, <1>5, <1>6, <1>8, <1>9, <1>10
<1>12. user' = [user EXCEPT ![u] = x]
    BY <1>1
<1>. QED BY <1>3, <1>4, <1>5, <1>6, <1>11, <1>12, OneUser

LEMMA ReleaseOrCall ==
    ASSUME CPIInv, NEW u \in Users, user[u].pc \in {"holding", "calling"}, NEW x \in UserState,
           x = Out \/ (x.pc \in {"holding", "calling"} /\ x.conn = user[u].conn),
           x.pc = "calling" => pooled[user[u].conn].state # "closed",
           user' = [user EXCEPT ![u] = x], UNCHANGED <<pooled, waiters, respawns, draining, poolDown>>
    PROVE  CPIInv'
<1> USE DEF CPIInv
<1> DEFINE c == user[u].conn
           r == pooled[c]
<1>1. pooled \in [PooledConnection -> ConnState]
    BY CPTypeFacts
<1>2. c \in PooledConnection /\ r.state # "none"
    BY DEF OwnedInv
<1>3. r \in ConnState /\ r.state \in {"none", "idle", "busy", "closed"} /\ pooled' = [pooled EXCEPT ![c] = r]
    BY <1>1, <1>2, StateFacts
<1>4. pooled'[c] = r
    OBVIOUS
<1>5. poolDown => r.state \notin {"idle", "busy"}
    BY <1>2 DEF QueuedOnce, InMap
<1>6. x.pc \in {"out", "holding", "calling"} /\ (x.pc # "out" => x.conn = c)
    BY UserFacts
<1>7. r = pooled[c] /\ (x.pc = "calling" => r.state # "closed")
    OBVIOUS
<1> HIDE DEF c, r
<1>8. /\ r.state # "none" \/ r = pooled[c]
      /\ r.state = "closed" => pooled[c].state = "closed"
      /\ x.pc \in {"opening", "holding", "calling"} => x.conn \in PooledConnection /\ pooled'[x.conn].state # "none"
      /\ x.pc = "calling" => pooled'[x.conn].state \in {"idle", "busy"}
      /\ poolDown => r.state \notin {"idle", "busy"}
      /\ \/ draining \/ waiters = <<>> \/ (r = pooled[c] /\ user[u].pc # "opening")
         \/ user[u].pc # "opening" /\ r.state = "idle" /\ x.pc = "opening" /\ x.conn = c
         \/ r.state # "idle" /\ (user[u].pc = "opening" => user[u].conn = c)
      /\ user[u].pc # "waiting" /\ x.pc # "waiting" /\ UNCHANGED <<waiters, respawns, draining, poolDown>>
    BY <1>2, <1>3, <1>4, <1>5, <1>6, <1>7
<1>. QED BY <1>2, <1>3, <1>8, OneUser

\* The first waiter has the connection c.
LEMMA HandOver ==
    ASSUME CPIInv, waiters # <<>>, NEW c \in PooledConnection, pooled[c].state \in {"idle", "busy"},
           pooled' = [pooled EXCEPT ![c].state = "busy"], waiters' = Tail(waiters),
           user' \in [Users -> UserState],
           user'[Head(waiters)].pc = "holding" /\ user'[Head(waiters)].conn = c,
           \A v \in Users \ {Head(waiters)} : user'[v] = user[v] \/ (user[v].pc = "holding" /\ user'[v] = Out),
           UNCHANGED <<respawns, draining, poolDown>>
    PROVE  CPIInv'
<1> USE DEF CPIInv
<1> DEFINE h == Head(waiters)
           r == [pooled[c] EXCEPT !.state = "busy"]
<1>1. pooled \in [PooledConnection -> ConnState] /\ waiters \in Seq(Users)
    BY CPTypeFacts
<1>2. Once(waiters) /\ Elements(waiters) = {v \in Users : user[v].pc = "waiting"}
    BY DEF QueuedOnce
<1>3. /\ waiters' \in Seq(Users) /\ h \in Users /\ h \in Elements(waiters) /\ Elements(waiters') = Elements(waiters) \ {h}
      /\ Once(waiters')
    BY <1>1, <1>2, TailFacts
<1>4. r \in ConnState /\ r.state = "busy" /\ pooled' = [pooled EXCEPT ![c] = r]
    BY <1>1, StateFacts
<1> HIDE DEF r, h
<1>5. pooled' \in [PooledConnection -> ConnState] /\ pooled'[c] = r /\ \A d \in PooledConnection \ {c} : pooled'[d] = pooled[d]
    BY <1>1, <1>4
<1>6. /\ user'[h].pc = "holding" /\ user'[h].conn = c
      /\ \A v \in Users \ {h} : user'[v] = user[v] \/ (user[v].pc = "holding" /\ user'[v] = Out)
    BY DEF h
<1>7. user[h].pc = "waiting"
    BY <1>2, <1>3
<1>8. CPTypeOK'
    BY <1>3, <1>5 DEF CPTypeOK, ConnState, UserState
<1>9. QueuedOnce'
    <2>1. \A v \in Users : user'[v].pc = "waiting" <=> user[v].pc = "waiting" /\ v # h
        BY <1>6, UserFacts
    <2>2. ~poolDown
        BY DEF QueuedOnce
    <2>. QED BY <1>2, <1>3, <2>1, <2>2 DEF QueuedOnce
<1>10. NoRequestOnClosed' /\ OwnedInv'
    <2>1. \A v \in Users : user'[v].pc \in {"opening", "holding", "calling"} =>
             (v = h /\ user'[v].conn = c /\ user'[v].pc = "holding") \/ user'[v] = user[v]
        BY <1>6, UserFacts
    <2>. QED BY <1>4, <1>5, <2>1 DEF NoRequestOnClosed, OwnedInv
<1>11. TakenInv'
    <2> SUFFICES ASSUME ~draining, NEW d \in PooledConnection, pooled'[d].state = "idle"
                 PROVE  \E v \in Users : user'[v].pc = "opening" /\ user'[v].conn = d
        BY DEF TakenInv, IdleIn
    <2>1. d # c /\ pooled[d].state = "idle"
        BY <1>4, <1>5
    <2>2. PICK v \in Users : user[v].pc = "opening" /\ user[v].conn = d
        BY <2>1 DEF TakenInv, IdleIn
    <2>3. user'[v] = user[v]
        BY <1>6, <1>7, <2>2
    <2>. QED BY <2>2, <2>3
<1>. QED BY <1>8, <1>9, <1>10, <1>11

LEMMA ReleaseStep == ASSUME CPIInv, NEW u \in Users, releaseConnection(u) PROVE CPIInv'
<1> USE DEF CPIInv
<1> DEFINE c == user[u].conn
<1>1. user[u].pc = "holding" /\ UNCHANGED <<respawns, draining, poolDown>>
    BY DEF releaseConnection
<1>2. pooled \in [PooledConnection -> ConnState] /\ user \in [Users -> UserState] /\ waiters \in Seq(Users)
    BY CPTypeFacts
<1>3. c \in PooledConnection /\ pooled[c].state # "none" /\ pooled[c].state \in {"none", "idle", "busy", "closed"}
    BY <1>1, <1>2, StateFacts DEF OwnedInv
<1>4. CASE user' = [user EXCEPT ![u] = Out] /\ UNCHANGED <<pooled, waiters>>
    <2>1. Out \in UserState /\ Out.pc = "out"
        BY UserFacts
    <2>. QED BY <1>1, <1>4, <2>1, ReleaseOrCall
<1>5. CASE /\ pooled[c].state # "closed" /\ waiters # <<>> /\ pooled' = [pooled EXCEPT ![c].state = "busy"]
           /\ user' = [Held(Head(waiters), c) EXCEPT ![u] = Out] /\ waiters' = Tail(waiters)
    <2> DEFINE h == Head(waiters)
               x == [pc |-> "holding", conn |-> c]
    <2>1. h \in Users /\ user[h].pc = "waiting"
        <3>1. Once(waiters) /\ Elements(waiters) = {v \in Users : user[v].pc = "waiting"}
            BY DEF QueuedOnce
        <3>2. h \in Elements(waiters)
            BY <1>2, <1>5, <3>1, TailFacts
        <3>. QED BY <3>1, <3>2
    <2>2. x \in UserState /\ x.pc = "holding" /\ x.conn = c /\ Out \in UserState
        BY <1>3, UserFacts
    <2>3. user' = [[user EXCEPT ![h] = x] EXCEPT ![u] = Out] /\ u # h
        BY <1>1, <1>5, <2>1 DEF Held
    <2> HIDE DEF h, x
    <2>4. /\ user' \in [Users -> UserState] /\ user'[h] = x /\ user'[u] = Out
          /\ \A v \in Users \ {h, u} : user'[v] = user[v]
        BY <1>2, <2>1, <2>2, <2>3
    <2>5. /\ user'[h].pc = "holding" /\ user'[h].conn = c
          /\ \A v \in Users \ {h} : user'[v] = user[v] \/ (user[v].pc = "holding" /\ user'[v] = Out)
        BY <1>1, <2>2, <2>4
    <2>6. pooled[c].state \in {"idle", "busy"}
        BY <1>3, <1>5
    <2> HIDE DEF c
    <2>. QED BY <1>1, <1>3, <1>5, <2>4, <2>5, <2>6, HandOver DEF h
<1>6. CASE /\ pooled[c].state # "closed" /\ waiters = <<>> /\ waiters' = waiters
           /\ pooled' = [pooled EXCEPT ![c] = [state |-> "idle", timer |-> TRUE]]
           /\ user' = [user EXCEPT ![u] = Out]
    <2> DEFINE r == [state |-> "idle", timer |-> TRUE]
               x == Out
    <2>1. r \in ConnState /\ r.state = "idle" /\ x \in UserState /\ x.pc = "out"
        BY StateFacts, UserFacts
    <2>2. ~poolDown
        BY <1>3, <1>6 DEF QueuedOnce, InMap
    <2>3. pooled' = [pooled EXCEPT ![c] = r] /\ user' = [user EXCEPT ![u] = x]
        BY <1>6
    <2> HIDE DEF r, x, c
    <2>4. /\ r.state # "none" \/ r = pooled[c]
          /\ r.state = "closed" => pooled[c].state = "closed"
          /\ x.pc \in {"opening", "holding", "calling"} => x.conn \in PooledConnection /\ pooled'[x.conn].state # "none"
          /\ x.pc = "calling" => pooled'[x.conn].state \in {"idle", "busy"}
          /\ poolDown => r.state \notin {"idle", "busy"}
          /\ \/ draining \/ waiters = <<>> \/ (r = pooled[c] /\ user[u].pc # "opening")
             \/ user[u].pc # "opening" /\ r.state = "idle" /\ x.pc = "opening" /\ x.conn = c
             \/ r.state # "idle" /\ (user[u].pc = "opening" => user[u].conn = c)
          /\ user[u].pc # "waiting" /\ x.pc # "waiting" /\ UNCHANGED <<waiters, respawns, draining, poolDown>>
        BY <1>1, <1>6, <2>1, <2>2
    <2>. QED BY <1>3, <2>1, <2>3, <2>4, OneUser
<1>. QED BY <1>4, <1>5, <1>6 DEF releaseConnection

LEMMA CallSteps == ASSUME CPIInv, NEW u \in Users, rpcCall(u) \/ handleLine(u) PROVE CPIInv'
<1>1. user[u] \in UserState
    BY CPTypeFacts DEF CPIInv
<1>2. CASE rpcCall(u)
    <2> DEFINE x == [user[u] EXCEPT !.pc = "calling"]
    <2>1. /\ user[u].pc = "holding" /\ pooled[user[u].conn].state # "closed" /\ user' = [user EXCEPT ![u] = x]
          /\ UNCHANGED <<pooled, waiters, respawns, draining, poolDown>>
        BY <1>2 DEF rpcCall
    <2>2. x \in UserState /\ x.pc = "calling" /\ x.conn = user[u].conn
        BY <1>1, UserFacts
    <2> HIDE DEF x
    <2>. QED BY <2>1, <2>2, ReleaseOrCall
<1>3. CASE handleLine(u)
    <2> DEFINE x == [user[u] EXCEPT !.pc = "holding"]
    <2>1. /\ user[u].pc = "calling" /\ user' = [user EXCEPT ![u] = x]
          /\ UNCHANGED <<pooled, waiters, respawns, draining, poolDown>>
        BY <1>3 DEF handleLine
    <2>2. x \in UserState /\ x.pc = "holding" /\ x.conn = user[u].conn
        BY <1>1, UserFacts
    <2> HIDE DEF x
    <2>. QED BY <2>1, <2>2, ReleaseOrCall
<1>. QED BY <1>2, <1>3

LEMMA GiveUpStep == ASSUME CPIInv, NEW u \in Users, acquireTimeout(u) PROVE CPIInv'
<1> USE DEF CPIInv
<1>1. /\ user[u].pc = "waiting" /\ waiters' = Removed(waiters, u) /\ user' = [user EXCEPT ![u] = Out]
      /\ UNCHANGED <<pooled, respawns, draining, poolDown>>
    BY DEF acquireTimeout
<1>2. user \in [Users -> UserState] /\ waiters \in Seq(Users) /\ Out \in UserState /\ Out.pc = "out"
    BY CPTypeFacts, UserFacts
<1>3. user' \in [Users -> UserState] /\ user'[u] = Out /\ \A v \in Users \ {u} : user'[v] = user[v]
    BY <1>1, <1>2
<1>4. Once(waiters) /\ Elements(waiters) = {v \in Users : user[v].pc = "waiting"}
    BY DEF QueuedOnce
<1>5. waiters' \in Seq(Users) /\ Elements(waiters') = Elements(waiters) \ {u} /\ Once(waiters')
    BY <1>1, <1>2, <1>4, RemovedFacts
<1>6. CPTypeOK'
    BY <1>1, <1>3, <1>5 DEF CPTypeOK, UserState
<1>7. QueuedOnce'
    <2>1. ~poolDown
        <3>1. u \in Elements(waiters)
            BY <1>1, <1>4
        <3>. QED BY <3>1 DEF QueuedOnce, Elements
    <2>. QED BY <1>1, <1>2, <1>3, <1>4, <1>5, <2>1 DEF QueuedOnce
<1>8. NoRequestOnClosed' /\ OwnedInv'
    BY <1>1, <1>2, <1>3 DEF NoRequestOnClosed, OwnedInv
<1>9. TakenInv'
    <2>1. waiters # <<>>
        BY <1>1, <1>4 DEF Elements
    <2>. QED BY <1>1, <1>3, <2>1 DEF TakenInv
<1>. QED BY <1>6, <1>7, <1>8, <1>9

-----------------------------------------------------------------------------
\* A connection is closed and its requests are rejected.
LEMMA CloseStep ==
    ASSUME CPIInv, NEW c \in PooledConnection, pooled' = [pooled EXCEPT ![c] = [state |-> "closed", timer |-> FALSE]],
           pooled[c].state # "none", user' = Rejected({c}), respawns' \in Nat, UNCHANGED <<waiters, draining, poolDown>>
    PROVE  CPIInv'
<1> USE DEF CPIInv
<1> DEFINE r == [state |-> "closed", timer |-> FALSE]
           x(u) == [user[u] EXCEPT !.pc = "holding"]
<1>1. pooled \in [PooledConnection -> ConnState] /\ user \in [Users -> UserState]
    BY CPTypeFacts
<1>2. r \in ConnState /\ r.state = "closed"
    BY StateFacts
<1>3. \A u \in Users : x(u) \in UserState /\ x(u).pc = "holding" /\ x(u).conn = user[u].conn
    BY <1>1, UserFacts
<1>4. user' = [u \in Users |-> IF user[u].pc = "calling" /\ user[u].conn \in {c} THEN x(u) ELSE user[u]]
    BY DEF Rejected
<1> HIDE DEF r, x
<1>5. pooled' = [pooled EXCEPT ![c] = r]
    BY DEF r
<1>6. pooled' \in [PooledConnection -> ConnState] /\ pooled'[c] = r /\ \A d \in PooledConnection \ {c} : pooled'[d] = pooled[d]
    BY <1>1, <1>2, <1>5
<1>7. /\ user' \in [Users -> UserState]
      /\ \A u \in Users : \/ user'[u] = user[u] /\ ~(user[u].pc = "calling" /\ user[u].conn = c)
                          \/ user[u].pc = "calling" /\ user'[u].pc = "holding" /\ user'[u].conn = user[u].conn
    BY <1>1, <1>3, <1>4
<1>8. CPTypeOK'
    BY <1>6, <1>7 DEF CPTypeOK, ConnState, UserState
<1>9. OwnedInv'
    <2>1. \A d \in PooledConnection : pooled[d].state # "none" => pooled'[d].state # "none"
        BY <1>2, <1>6
    <2>2. \A u \in Users : user'[u].pc \in {"opening", "holding", "calling"} =>
             user'[u].conn = user[u].conn /\ user[u].pc \in {"opening", "holding", "calling"}
        BY <1>7
    <2>. QED BY <2>1, <2>2 DEF OwnedInv
<1>10. NoRequestOnClosed'
    <2> SUFFICES ASSUME NEW u \in Users, user'[u].pc = "calling" PROVE pooled'[user'[u].conn].state \in {"idle", "busy"}
        BY DEF NoRequestOnClosed
    <2>1. user'[u] = user[u] /\ user[u].pc = "calling" /\ user[u].conn # c
        BY <1>7
    <2>2. user[u].conn \in PooledConnection
        BY <2>1 DEF OwnedInv
    <2>. QED BY <1>6, <2>1, <2>2 DEF NoRequestOnClosed
<1>11. QueuedOnce'
    <2>1. \A u \in Users : user'[u].pc = "waiting" <=> user[u].pc = "waiting"
        BY <1>7
    <2>2. poolDown' => InMap(pooled)' = {}
        BY <1>2, <1>6 DEF QueuedOnce, InMap
    <2>. QED BY <2>1, <2>2 DEF QueuedOnce
<1>12. TakenInv'
    <2> SUFFICES ASSUME ~draining, waiters # <<>>, NEW d \in PooledConnection, pooled'[d].state = "idle"
                 PROVE  \E v \in Users : user'[v].pc = "opening" /\ user'[v].conn = d
        BY DEF TakenInv, IdleIn
    <2>1. pooled[d].state = "idle"
        BY <1>2, <1>6
    <2>2. PICK v \in Users : user[v].pc = "opening" /\ user[v].conn = d
        BY <2>1 DEF TakenInv, IdleIn
    <2>3. user'[v] = user[v]
        BY <1>7, <2>2
    <2>. QED BY <2>2, <2>3
<1>. QED BY <1>8, <1>9, <1>10, <1>11, <1>12

LEMMA LostConnectionStep == ASSUME CPIInv, NEW c \in PooledConnection, lostConnection(c) PROVE CPIInv'
<1>1. /\ pooled[c].state \in {"idle", "busy"} /\ pooled' = [pooled EXCEPT ![c] = [state |-> "closed", timer |-> FALSE]]
      /\ user' = Rejected({c}) /\ respawns' \in {respawns, respawns + 1} /\ UNCHANGED <<waiters, draining, poolDown>>
    BY DEF lostConnection
<1>2. respawns' \in Nat
    BY <1>1, CPTypeFacts DEF CPIInv
<1>. QED BY <1>1, <1>2, CloseStep

LEMMA IdleTimeoutStep == ASSUME CPIInv, NEW c \in PooledConnection, idleTimeout(c) PROVE CPIInv'
<1> USE DEF CPIInv
<1>1. UNCHANGED <<waiters, respawns, draining, poolDown>>
    BY DEF idleTimeout
<1>2. CASE /\ pooled[c].state = "idle" /\ pooled' = [pooled EXCEPT ![c] = [state |-> "closed", timer |-> FALSE]]
           /\ user' = Rejected({c})
    <2>1. respawns' \in Nat
        BY <1>1, CPTypeFacts
    <2>. QED BY <1>1, <1>2, <2>1, CloseStep
<1>3. CASE pooled' = [pooled EXCEPT ![c].timer = FALSE] /\ user' = user
    <2> DEFINE r == [pooled[c] EXCEPT !.timer = FALSE]
    <2>1. pooled \in [PooledConnection -> ConnState]
        BY CPTypeFacts
    <2>2. r \in ConnState /\ r.state = pooled[c].state /\ pooled' = [pooled EXCEPT ![c] = r]
        BY <1>3, <2>1, StateFacts
    <2> HIDE DEF r
    <2>3. pooled' \in [PooledConnection -> ConnState] /\ \A d \in PooledConnection : pooled'[d].state = pooled[d].state
        BY <2>1, <2>2
    <2>4. CPTypeOK'
        BY <1>1, <1>3, <2>3 DEF CPTypeOK, ConnState
    <2>5. IdleIn(pooled)' = IdleIn(pooled) /\ InMap(pooled)' = InMap(pooled)
        BY <2>3 DEF IdleIn, InMap
    <2>6. OwnedInv' /\ NoRequestOnClosed'
        BY <1>3, <2>3 DEF OwnedInv, NoRequestOnClosed
    <2>. QED BY <1>1, <1>3, <2>4, <2>5, <2>6 DEF QueuedOnce, TakenInv
<1>. QED BY <1>2, <1>3 DEF idleTimeout

LEMMA RespawnStep == ASSUME CPIInv, respawn PROVE CPIInv'
<1> USE DEF CPIInv
<1>1. respawns > 0 /\ respawns' = respawns - 1 /\ UNCHANGED <<waiters, user, poolDown>>
    BY DEF respawn
<1>2. respawns' \in Nat
    BY <1>1, CPTypeFacts
<1>3. CASE ~poolDown /\ NextOpened <= MaxOpened /\ pooled' = [pooled EXCEPT ![NextOpened] = FreshConnection] /\ draining' = TRUE
    <2> DEFINE c == NextOpened
    <2>1. c \in PooledConnection /\ pooled \in [PooledConnection -> ConnState]
        BY <1>3, NextIsNew, CPTypeFacts
    <2>2. pooled' = [pooled EXCEPT ![c] = FreshConnection]
        BY <1>3
    <2> HIDE DEF c
    <2>3. /\ pooled' \in [PooledConnection -> ConnState]
          /\ pooled'[c] = FreshConnection /\ \A d \in PooledConnection \ {c} : pooled'[d] = pooled[d]
        BY <2>1, <2>2, StateFacts
    <2>4. CPTypeOK'
        BY <1>1, <1>2, <1>3, <2>3 DEF CPTypeOK, ConnState
    <2>5. OwnedInv' /\ NoRequestOnClosed'
        BY <1>1, <2>3, StateFacts DEF OwnedInv, NoRequestOnClosed
    <2>. QED BY <1>1, <1>3, <2>4, <2>5 DEF QueuedOnce, TakenInv
<1>4. CASE UNCHANGED <<pooled, draining>>
    <2>1. CPTypeOK'
        BY <1>1, <1>2, <1>4 DEF CPTypeOK
    <2>2. OwnedInv' /\ NoRequestOnClosed' /\ QueuedOnce' /\ TakenInv'
        BY <1>1, <1>4 DEF OwnedInv, NoRequestOnClosed, QueuedOnce, TakenInv, InMap, IdleIn
    <2>. QED BY <2>1, <2>2
<1>. QED BY <1>3, <1>4 DEF respawn

LEMMA DrainStep == ASSUME CPIInv, drain PROVE CPIInv'
<1> USE DEF CPIInv
<1>1. UNCHANGED <<respawns, poolDown>>
    BY DEF drain
<1>2. CASE waiters # <<>> /\ IdleIn(pooled) # {}
    <2> DEFINE c == Least(IdleIn(pooled))
               h == Head(waiters)
               x == [pc |-> "holding", conn |-> c]
    <2>1. /\ pooled' = [pooled EXCEPT ![c].state = "busy"] /\ user' = [user EXCEPT ![h] = x]
          /\ waiters' = Tail(waiters) /\ draining' = draining
        BY <1>2 DEF drain, Held
    <2>2. c \in PooledConnection /\ pooled[c].state = "idle"
        BY <1>2, LeastIdle DEF IdleIn
    <2> HIDE DEF c
    <2>3. user \in [Users -> UserState] /\ waiters \in Seq(Users) /\ Once(waiters)
        BY CPTypeFacts DEF QueuedOnce
    <2>4. h \in Users
        BY <1>2, <2>3, TailFacts
    <2>5. x \in UserState /\ x.pc = "holding" /\ x.conn = c
        BY <2>2, UserFacts
    <2> HIDE DEF h, x
    <2>6. user' \in [Users -> UserState] /\ user'[h] = x /\ \A v \in Users \ {h} : user'[v] = user[v]
        BY <2>1, <2>3, <2>4, <2>5
    <2>7. /\ user'[h].pc = "holding" /\ user'[h].conn = c
          /\ \A v \in Users \ {h} : user'[v] = user[v] \/ (user[v].pc = "holding" /\ user'[v] = Out)
        BY <2>5, <2>6
    <2>. QED BY <1>1, <1>2, <2>1, <2>2, <2>6, <2>7, HandOver DEF h
<1>3. CASE ~(waiters # <<>> /\ IdleIn(pooled) # {})
    <2>1. draining' = FALSE /\ UNCHANGED <<pooled, user, waiters>>
        BY <1>3 DEF drain
    <2>2. CPTypeOK'
        BY <1>1, <2>1 DEF CPTypeOK
    <2>3. TakenInv'
        BY <1>3, <2>1 DEF TakenInv
    <2>4. OwnedInv' /\ NoRequestOnClosed' /\ QueuedOnce'
        BY <1>1, <2>1 DEF OwnedInv, NoRequestOnClosed, QueuedOnce, InMap
    <2>. QED BY <2>2, <2>3, <2>4
<1>. QED BY <1>2, <1>3

LEMMA PoolShutdownStep == ASSUME CPIInv, poolShutdown PROVE CPIInv'
<1> USE DEF CPIInv
<1> DEFINE r == [state |-> "closed", timer |-> FALSE]
           x(u) == [user[u] EXCEPT !.pc = "holding"]
<1>1. /\ poolDown' = TRUE /\ waiters' = <<>> /\ UNCHANGED <<respawns, draining>>
      /\ pooled' = [c \in PooledConnection |-> IF pooled[c].state = "none" THEN NotOpened ELSE r]
      /\ user' = [u \in Users |-> CASE user[u].pc = "waiting" -> Out
                                    [] user[u].pc = "calling" -> x(u)
                                    [] OTHER -> user[u]]
    BY DEF poolShutdown
<1>2. pooled \in [PooledConnection -> ConnState] /\ user \in [Users -> UserState] /\ respawns \in Nat /\ draining \in BOOLEAN
    BY CPTypeFacts
<1>3. /\ r \in ConnState /\ r.state = "closed" /\ NotOpened \in ConnState /\ NotOpened.state = "none"
      /\ Out \in UserState /\ Out.pc = "out"
    BY StateFacts, UserFacts
<1>4. \A u \in Users : x(u) \in UserState /\ x(u).pc = "holding" /\ x(u).conn = user[u].conn
    BY <1>2, UserFacts
<1> HIDE DEF r, x
<1>5. /\ pooled' \in [PooledConnection -> ConnState]
      /\ \A c \in PooledConnection : pooled'[c].state \in {"none", "closed"} /\ (pooled'[c].state = "none" <=> pooled[c].state = "none")
    BY <1>1, <1>2, <1>3
<1>6. /\ user' \in [Users -> UserState]
      /\ \A u \in Users : \/ user'[u].pc = "out"
                          \/ user[u].pc = "calling" /\ user'[u].pc = "holding" /\ user'[u].conn = user[u].conn
                          \/ user'[u] = user[u] /\ user[u].pc \notin {"waiting", "calling"}
    BY <1>1, <1>2, <1>3, <1>4
<1>7. CPTypeOK'
    <2>1. waiters' \in Seq(Users)
        BY <1>1
    <2>. QED BY <1>1, <1>2, <1>5, <1>6, <2>1 DEF CPTypeOK, ConnState, UserState
<1>8. OwnedInv' /\ NoRequestOnClosed'
    BY <1>5, <1>6 DEF OwnedInv, NoRequestOnClosed
<1>9. QueuedOnce'
    <2>1. Once(waiters') /\ Elements(waiters') = {}
        BY <1>1 DEF Once, Elements
    <2>2. InMap(pooled)' = {}
        BY <1>5 DEF InMap
    <2>3. \A u \in Users : user'[u].pc # "waiting"
        BY <1>6
    <2>. QED BY <1>1, <2>1, <2>2, <2>3 DEF QueuedOnce
<1>10. TakenInv'
    BY <1>1 DEF TakenInv
<1>. QED BY <1>7, <1>8, <1>9, <1>10

(***************************************************************************)
(* src/bridge/pool.ts, for any number of callers and any limits: nobody    *)
(* waits while a connection is idle, except in the turn in which one was   *)
(* opened; a request in flight is on a connection that can answer it; and  *)
(* the queue holds exactly those who wait, nobody after shutdown().        *)
(***************************************************************************)
THEOREM PoolCorrect == CPSpec => []CPInv
<1>1. CPIInv /\ [CPNext]_cpVars => CPIInv'
    <2> SUFFICES ASSUME CPIInv, [CPNext]_cpVars PROVE CPIInv'
        OBVIOUS
    <2>1. CASE UNCHANGED cpVars
        BY <2>1 DEF cpVars, CPIInv, CPTypeOK, NoRequestOnClosed, QueuedOnce, OwnedInv, TakenInv, InMap, IdleIn
    <2>2. CASE \E u \in Users : \/ acquireConnection(u) \/ acquired(u) \/ releaseConnection(u) \/ acquireTimeout(u)
                                \/ rpcCall(u) \/ handleLine(u)
        BY <2>2, AcquireStep, AcquiredStep, ReleaseStep, GiveUpStep, CallSteps
    <2>3. CASE \E c \in PooledConnection : lostConnection(c) \/ idleTimeout(c)
        BY <2>3, LostConnectionStep, IdleTimeoutStep
    <2>4. CASE respawn \/ drain \/ poolShutdown
        BY <2>4, RespawnStep, DrainStep, PoolShutdownStep
    <2>. QED BY <2>1, <2>2, <2>3, <2>4 DEF CPNext
<1>. QED BY <1>1, PoolInit, ImpliesCPInv, PTL DEF CPSpec
=============================================================================
