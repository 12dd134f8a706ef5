-------------------------- MODULE ToolCall_proofs --------------------------
(***************************************************************************)
(* The parts a tool call goes through, each with its inductive invariant:  *)
(* the gateway with its breakers, the rate limiter, the executor, the      *)
(* batches of the code in the sandbox and the streams that report on it.   *)
(* No part reads a variable of another, so each is proved by itself, for   *)
(* every value of its constants.                                           *)
(***************************************************************************)
EXTENDS ReliabilityGateway, RateLimiter, ExecutionStream, Executor, Sandbox, FiniteSetTheorems, WellFoundedInduction, TLAPS

-----------------------------------------------------------------------------
(***************************************************************************)
(* ReliabilityGateway: any set of concurrent calls, any tools and          *)
(* profiles, any window, threshold and probe interval.                     *)
(***************************************************************************)

\* Every call in flight has started its function.
AttemptsInv == \A c \in InFlight : attempt[c] >= 1

-----------------------------------------------------------------------------
(* Profiles. *)

LEMMA ResolveType ==
    ASSUME NEW o \in Override, NEW b \in Profile
    PROVE  resolveProfile(o, b) \in Profile
BY DEF resolveProfile, Override, Profile, Unset

LEMMA ProfileType == \A t \in Tools : _resolveProfile(t) \in Profile
<1> SUFFICES ASSUME NEW t \in Tools PROVE _resolveProfile(t) \in Profile
    OBVIOUS
<1> DEFINE g == resolveProfile(DefaultProfile, DEFAULT_PROFILE)
           s == resolveProfile(ServerOverride, g)
           r == resolveProfile(RegistryOverride[t], s)
           e == resolveProfile(ToolOverride[t], r)
<1>1. DEFAULT_PROFILE \in Profile
    BY DEF DEFAULT_PROFILE, Profile, Fields
<1>2. g \in Profile
    BY <1>1, ResolveType, ProfileAssumption
<1>3. s \in Profile
    BY <1>2, ResolveType, ProfileAssumption
<1>4. r \in Profile
    BY <1>3, ResolveType, ProfileAssumption
<1>5. e \in Profile
    BY <1>4, ResolveType, ProfileAssumption
<1>6. [e EXCEPT !["retries"] = 0] \in Profile
    BY <1>5 DEF Profile, Fields
<1> HIDE DEF e
<1>7. \A b : applyMutationDefault(t, e, b) \in Profile
    BY <1>5, <1>6 DEF applyMutationDefault
<1> QED
    BY <1>7 DEF _resolveProfile, e

\* Without an explicit setting a mutation has no retries.
LEMMA MutationRetries ==
    ASSUME NEW t \in Tools, isMutation(t),
           \A o \in {ServerOverride, RegistryOverride[t], ToolOverride[t]} :
               o["retries"] = Unset
    PROVE  Retries(t) = 0
<1> DEFINE g == resolveProfile(DefaultProfile, DEFAULT_PROFILE)
           s == resolveProfile(ServerOverride, g)
           r == resolveProfile(RegistryOverride[t], s)
           e == resolveProfile(ToolOverride[t], r)
<1>1. DOMAIN e = Fields
    BY DEF resolveProfile
<1> HIDE DEF e
<1>2. applyMutationDefault(t, e, FALSE)["retries"] = 0
    BY <1>1 DEF applyMutationDefault, Fields
<1>3. _resolveProfile(t) = applyMutationDefault(t, e, FALSE)
    BY DEF _resolveProfile, e
<1> QED
    BY <1>2, <1>3 DEF Retries

-----------------------------------------------------------------------------
(* Types. *)

LEMMA WindowTypes ==
    ASSUME NEW w \in [Age -> Nat]
    PROVE  /\ _pruneWindow(w) \in [Age -> Nat]
           /\ Push(w) \in [Age -> Nat]
           /\ Older(w) \in [Age -> Nat]
           /\ EmptyWindow \in [Age -> Nat]
<1> USE BreakerAssumption DEF Age
<1>1. _pruneWindow(w) \in [Age -> Nat]
    BY DEF _pruneWindow, Expired
<1>2. Push(w) \in [Age -> Nat]
    BY DEF Push
<1>3. Older(w) \in [Age -> Nat]
    BY DEF Older, Expired
<1>4. EmptyWindow \in [Age -> Nat]
    BY DEF EmptyWindow
<1> QED
    BY <1>1, <1>2, <1>3, <1>4

LEMMA RecordTypes ==
    ASSUME BreakerTypeOK, minCalls' = minCalls
    PROVE  /\ recordSuccess => BreakerTypeOK'
           /\ recordFailure => BreakerTypeOK'
           /\ getState => BreakerTypeOK'
           /\ getStats => BreakerTypeOK'
           /\ reset => BreakerTypeOK'
           /\ Tick => BreakerTypeOK'
<1> USE BreakerAssumption DEF BreakerTypeOK
<1>1. /\ \A w \in [Age -> Nat] : /\ _pruneWindow(w) \in [Age -> Nat]
                                 /\ Push(w) \in [Age -> Nat]
                                 /\ Older(w) \in [Age -> Nat]
      /\ EmptyWindow \in [Age -> Nat]
    BY WindowTypes
<1>2. recordSuccess => BreakerTypeOK'
    BY <1>1 DEF recordSuccess
<1>3. ASSUME recordFailure PROVE BreakerTypeOK'
  <2>1. oks' \in [Age -> Nat] /\ fails' \in [Age -> Nat]
      BY <1>1, <1>3 DEF recordFailure
  <2>2. CASE state = "closed"
    <3>1. probeInFlight' = probeInFlight
        BY <1>3, <2>2 DEF recordFailure
    <3>2. \/ state' = "open" /\ sinceTrip' = 0
          \/ state' = state /\ sinceTrip' = sinceTrip
        BY <1>3, <2>2 DEF recordFailure, _maybeTrip
    <3> QED
        BY <2>1, <3>1, <3>2
  <2>3. CASE state = "open"
    <3>1. UNCHANGED <<state, sinceTrip, probeInFlight>>
        BY <1>3, <2>3 DEF recordFailure
    <3> QED
        BY <2>1, <3>1
  <2>4. CASE state = "half-open"
    <3>1. state' = "open" /\ sinceTrip' = 0 /\ probeInFlight' = FALSE
        BY <1>3, <2>4 DEF recordFailure
    <3>2. probeInFlight' \in BOOLEAN
        BY <3>1
    <3>3. sinceTrip' \in 0 .. HalfOpenIntervalMs
        BY <3>1
    <3> QED
        BY <2>1, <3>1, <3>2, <3>3
  <2> QED
      BY <2>2, <2>3, <2>4
<1>4. getState => BreakerTypeOK'
    BY DEF getState, StateSeen, ProbeSeen
<1>5. getStats => BreakerTypeOK'
    BY <1>1 DEF getStats, StateSeen, ProbeSeen
<1>6. reset => BreakerTypeOK'
    BY <1>1 DEF reset
<1>7. Tick => BreakerTypeOK'
    BY <1>1 DEF Tick, NoTrip
<1> QED
    BY <1>2, <1>3, <1>4, <1>5, <1>6, <1>7

\* What a step does to the breaker, and how it leaves call() when it does.
LEMMA RetryCases ==
    ASSUME NEW c \in Calls, NEW b \in BOOLEAN, RetryOrFail(c, b)
    PROVE  \/ Fail(c, b)
           \/ /\ attempt[c] <= Retries(tool[c])
              /\ pc' = [pc EXCEPT ![c] = "sleep"]
              /\ UNCHANGED <<breakerVars, tool, attempt, stats, rejected, role>>
BY DEF RetryOrFail

LEMMA CountType ==
    ASSUME stats \in [StatNames -> Nat], NEW names
    PROVE  Count(names) \in [StatNames -> Nat]
BY DEF Count

LEMMA SettleType ==
    ASSUME TypeOK, NEW c \in Calls, Settle(c)
    PROVE  /\ pc' \in [Calls -> {"idle", "attempt", "sleep"}]
           /\ tool' \in [Calls -> Tools]
           /\ attempt' \in [Calls -> Nat]
           /\ rejected' \in Nat
           /\ role' \in [Calls -> Roles]
           /\ minCalls' = minCalls
<1>1. AnyTool \in Tools
    BY GatewayAssumption DEF AnyTool
<1>2. Outdated([role EXCEPT ![c] = "none"]) \in [Calls -> Roles]
    BY DEF Outdated, TypeOK, Roles
<1> QED
    BY <1>1, <1>2 DEF Settle, TypeOK

LEMMA FailType ==
    ASSUME TypeOK, NEW c \in Calls, NEW b \in BOOLEAN, Fail(c, b)
    PROVE  TypeOK'
<1>1. stats' \in [StatNames -> Nat]
    BY CountType DEF Fail, TypeOK
<1>2. BreakerTypeOK'
    BY SettleType, RecordTypes DEF Fail, TypeOK
<1> QED
    BY <1>1, <1>2, SettleType DEF Fail, TypeOK

LEMMA TypeStep == TypeOK /\ [Next]_vars => TypeOK'
<1> SUFFICES ASSUME TypeOK, [Next]_vars PROVE TypeOK'
    OBVIOUS
<1>1. ASSUME NEW c \in Calls, NEW t \in Tools, Begin(c, t) PROVE TypeOK'
  <2>1. minCalls' \in Nat \cup {NotBuilt}
      BY <1>1, ProfileType DEF Begin, _breaker, Profile, Fields, TypeOK, BreakerTypeOK
  <2>2. BreakerTypeOK'
      BY <1>1, <2>1 DEF Begin, allowCall, StateSeen, ProbeSeen, TypeOK, BreakerTypeOK
  <2>3. stats' \in [StatNames -> Nat]
      BY <1>1, CountType DEF Begin, TypeOK
  <2>4. /\ pc' \in [Calls -> {"idle", "attempt", "sleep"}]
        /\ tool' \in [Calls -> Tools]
        /\ attempt' \in [Calls -> Nat]
        /\ rejected' \in Nat
        /\ role' \in [Calls -> Roles]
      BY <1>1 DEF Begin, TypeOK, Roles
  <2> QED
      BY <2>2, <2>3, <2>4 DEF TypeOK
<1>2. ASSUME NEW c \in Calls, Succeed(c) PROVE TypeOK'
  <2>1. stats' \in [StatNames -> Nat]
      BY <1>2, CountType DEF Succeed, TypeOK
  <2>2. BreakerTypeOK'
      BY <1>2, SettleType, RecordTypes DEF Succeed, TypeOK
  <2> QED
      BY <1>2, <2>1, <2>2, SettleType DEF Succeed, TypeOK
<1>3. ASSUME NEW c \in Calls, NEW b \in BOOLEAN, RetryOrFail(c, b) PROVE TypeOK'
  <2>1. CASE Fail(c, b)
      BY <2>1, FailType
  <2>2. CASE /\ pc' = [pc EXCEPT ![c] = "sleep"]
             /\ UNCHANGED <<breakerVars, tool, attempt, stats, rejected, role>>
      BY <2>2 DEF TypeOK, BreakerTypeOK, breakerVars
  <2> QED
      BY <1>3, <2>1, <2>2, RetryCases
<1>4. ASSUME NEW c \in Calls, WakeUp(c) PROVE TypeOK'
  <2>1. stats' \in [StatNames -> Nat]
      BY <1>4, CountType DEF WakeUp, TypeOK
  <2> QED
      BY <1>4, <2>1 DEF WakeUp, TypeOK, BreakerTypeOK, breakerVars
<1>5. CASE resetCircuit
  <2>1. BreakerTypeOK'
      BY <1>5, RecordTypes DEF resetCircuit, TypeOK
  <2> QED
      BY <1>5, <2>1 DEF resetCircuit, TypeOK, Roles
<1>6. CASE getCircuitState
    BY <1>6, RecordTypes DEF getCircuitState, TypeOK, callVars
<1>7. CASE getGatewayStats
    BY <1>7, RecordTypes DEF getGatewayStats, TypeOK, callVars
<1>8. CASE Clock
    BY <1>8, RecordTypes DEF Clock, TypeOK, callVars
<1>9. CASE UNCHANGED vars
    BY <1>9 DEF vars, callVars, breakerVars, TypeOK, BreakerTypeOK
<1>10. ASSUME NEW c \in Calls, RejectFatal(c) PROVE TypeOK'
    BY <1>10, FailType DEF RejectFatal
<1> QED
    BY <1>1, <1>2, <1>3, <1>4, <1>5, <1>6, <1>7, <1>8, <1>9, <1>10
       DEF Next, CallStep, RejectTransient, TimeOut

\* Every variable of the gateway keeps its type.
THEOREM TypeCorrect == Spec => []TypeOK
<1>1. Init => TypeOK
  <2> SUFFICES ASSUME Init PROVE TypeOK
      OBVIOUS
  <2>1. BreakerTypeOK
      BY BreakerAssumption DEF Init, BreakerInit, BreakerTypeOK, EmptyWindow
  <2>2. AnyTool \in Tools
      BY GatewayAssumption DEF AnyTool
  <2> QED
      BY <2>1, <2>2 DEF Init, TypeOK, Roles
<1> QED
    BY <1>1, TypeStep, PTL DEF Spec

-----------------------------------------------------------------------------
(* The probe. *)

ProbeInv == TypeOK /\ ProbeFlagSound

\* A breaker that is not half-open has no probe out.
LEMMA OnlyHalfOpenProbes ==
    ASSUME ProbeInv, state # "half-open"
    PROVE  probeInFlight = FALSE /\ CurrentProbes = {}
<1>1. probeInFlight \in BOOLEAN
    BY DEF ProbeInv, TypeOK, BreakerTypeOK
<1> QED
    BY <1>1 DEF ProbeInv, ProbeFlagSound

\* An outcome moves the breaker out of half-open and lowers the flag.
LEMMA OutcomeLeavesHalfOpen ==
    ASSUME ProbeInv, recordSuccess \/ recordFailure
    PROVE  state' # "half-open" /\ probeInFlight' = FALSE
<1>1. CASE state = "half-open"
    BY <1>1 DEF recordSuccess, recordFailure
<1>2. CASE state # "half-open"
  <2>1. probeInFlight' = probeInFlight /\ state' \in {state, "open"}
      BY <1>2 DEF recordSuccess, recordFailure, _maybeTrip
  <2> QED
      BY <1>2, <2>1, OnlyHalfOpenProbes
<1> QED
    BY <1>1, <1>2

LEMMA SettleProbe ==
    ASSUME ProbeInv, NEW c \in Calls, Settle(c), recordSuccess \/ recordFailure
    PROVE  ProbeFlagSound'
<1>1. state' # "half-open" /\ probeInFlight' = FALSE
    BY OutcomeLeavesHalfOpen
<1>2. \A d \in Calls : role'[d] # "probe"
    BY <1>1 DEF Settle, Outdated
<1>3. CurrentProbes' = {}
    BY <1>2 DEF CurrentProbes
<1> QED
    BY <1>1, <1>3 DEF ProbeFlagSound

\* A step that changes neither the flag nor the roles of the calls, and takes
\* no call out of flight.
LEMMA QuietProbe ==
    ASSUME ProbeInv, role' = role, probeInFlight' = probeInFlight,
           InFlight \subseteq InFlight', probeInFlight => state' = "half-open"
    PROVE  ProbeFlagSound'
<1>1. CurrentProbes' = CurrentProbes
    BY DEF CurrentProbes
<1> QED
    BY <1>1 DEF ProbeInv, ProbeFlagSound

\* The lazy transition to half-open.
LEMMA LazyTransition ==
    ASSUME ProbeInv
    PROVE  /\ ProbeSeen = probeInFlight
           /\ probeInFlight => StateSeen = "half-open"
           /\ StateSeen # "half-open" => probeInFlight = FALSE
<1>1. ProbeDue => state = "open" /\ probeInFlight = FALSE
    BY OnlyHalfOpenProbes DEF ProbeDue
<1>2. probeInFlight => state = "half-open"
    BY DEF ProbeInv, ProbeFlagSound
<1>3. probeInFlight \in BOOLEAN
    BY DEF ProbeInv, TypeOK, BreakerTypeOK
<1> QED
    BY <1>1, <1>2, <1>3 DEF ProbeSeen, StateSeen

LEMMA BeginProbe ==
    ASSUME ProbeInv, NEW c \in Calls, NEW t \in Tools, Begin(c, t)
    PROVE  ProbeFlagSound'
<1>0. /\ probeInFlight \in BOOLEAN
      /\ pc \in [Calls -> {"idle", "attempt", "sleep"}]
      /\ role \in [Calls -> Roles]
    BY DEF ProbeInv, TypeOK, BreakerTypeOK
<1>1. /\ ProbeSeen = probeInFlight
      /\ probeInFlight => StateSeen = "half-open"
      /\ StateSeen # "half-open" => probeInFlight = FALSE
    BY LazyTransition
<1>2. state' = StateSeen /\ probeInFlight' = (ProbeSeen \/ StateSeen = "half-open")
    BY DEF Begin, allowCall
<1>3. CASE ~CallAllowed
  <2>1. role' = role /\ pc' = pc
      BY <1>3 DEF Begin
  <2>2. StateSeen = "half-open" => probeInFlight
      BY <1>1, <1>3 DEF CallAllowed
  <2>3. probeInFlight' = probeInFlight
      BY <1>0, <1>1, <1>2, <2>2
  <2> QED
      BY <1>1, <1>2, <2>1, <2>3, QuietProbe DEF InFlight
<1>4. CASE CallAllowed /\ StateSeen = "half-open"
  <2>1. ~probeInFlight
      BY <1>1, <1>4 DEF CallAllowed
  <2>2. \A d \in Calls : role[d] # "probe"
      BY <2>1 DEF ProbeInv, ProbeFlagSound, CurrentProbes
  <2>3. /\ role' = [role EXCEPT ![c] = "probe"]
        /\ pc' = [pc EXCEPT ![c] = "attempt"]
      BY <1>4 DEF Begin
  <2>4. CurrentProbes' = {c} /\ c \in InFlight'
      BY <1>0, <2>2, <2>3 DEF CurrentProbes, InFlight
  <2>5. state' = "half-open" /\ probeInFlight' = TRUE
      BY <1>2, <1>4
  <2> QED
      BY <2>4, <2>5 DEF ProbeFlagSound
<1>5. CASE CallAllowed /\ StateSeen # "half-open"
  <2>1. probeInFlight = FALSE /\ probeInFlight' = FALSE
      BY <1>1, <1>2, <1>5
  <2>2. \A d \in Calls : role[d] # "probe"
      BY <2>1 DEF ProbeInv, ProbeFlagSound, CurrentProbes
  <2>3. role' = [role EXCEPT ![c] = "normal"]
      BY <1>5 DEF Begin
  <2>4. CurrentProbes' = {}
      BY <1>0, <2>2, <2>3 DEF CurrentProbes
  <2> QED
      BY <2>1, <2>4 DEF ProbeFlagSound
<1> QED
    BY <1>3, <1>4, <1>5

LEMMA ProbeStep == ProbeInv /\ [Next]_vars => ProbeInv'
<1> SUFFICES ASSUME ProbeInv, [Next]_vars PROVE ProbeFlagSound'
    BY TypeStep DEF ProbeInv
<1>0. /\ probeInFlight => state = "half-open"
      /\ pc \in [Calls -> {"idle", "attempt", "sleep"}]
    BY DEF ProbeInv, ProbeFlagSound, TypeOK
<1>1. ASSUME NEW c \in Calls, NEW t \in Tools, Begin(c, t) PROVE ProbeFlagSound'
    BY <1>1, BeginProbe
<1>2. ASSUME NEW c \in Calls, Succeed(c) PROVE ProbeFlagSound'
    BY <1>2, SettleProbe DEF Succeed
<1>3. ASSUME NEW c \in Calls, NEW b \in BOOLEAN, Fail(c, b) PROVE ProbeFlagSound'
    BY <1>3, SettleProbe DEF Fail
<1>4. ASSUME NEW c \in Calls, pc[c] # "idle", pc' = [pc EXCEPT ![c] = "sleep"],
             UNCHANGED <<breakerVars, role>>
      PROVE  ProbeFlagSound'
  <2>1. InFlight \subseteq InFlight'
      BY <1>0, <1>4 DEF InFlight
  <2> QED
      BY <1>0, <1>4, <2>1, QuietProbe DEF breakerVars
<1>5. ASSUME NEW c \in Calls, NEW b \in BOOLEAN, pc[c] = "attempt", RetryOrFail(c, b)
      PROVE  ProbeFlagSound'
    BY <1>3, <1>4, <1>5, RetryCases
<1>6. ASSUME NEW c \in Calls, WakeUp(c) PROVE ProbeFlagSound'
  <2>1. InFlight \subseteq InFlight'
      BY <1>0, <1>6 DEF InFlight, WakeUp
  <2> QED
      BY <1>0, <1>6, <2>1, QuietProbe DEF WakeUp, breakerVars
<1>7. CASE resetCircuit
  <2>1. \A d \in Calls : role'[d] # "probe"
      BY <1>7 DEF resetCircuit
  <2>2. CurrentProbes' = {} /\ probeInFlight' = FALSE
      BY <1>7, <2>1 DEF resetCircuit, reset, CurrentProbes
  <2> QED
      BY <2>2 DEF ProbeFlagSound
<1>8. CASE getCircuitState
  <2>1. /\ state' = StateSeen /\ probeInFlight' = ProbeSeen
        /\ role' = role /\ pc' = pc
      BY <1>8 DEF getCircuitState, getState, callVars
  <2> QED
      BY <2>1, LazyTransition, QuietProbe DEF InFlight
<1>9. CASE getGatewayStats
  <2>1. /\ state' = StateSeen /\ probeInFlight' = ProbeSeen
        /\ role' = role /\ pc' = pc
      BY <1>9 DEF getGatewayStats, getStats, callVars
  <2> QED
      BY <2>1, LazyTransition, QuietProbe DEF InFlight
<1>10. CASE Clock
    BY <1>0, <1>10, QuietProbe DEF Clock, Tick, callVars, InFlight
<1>11. CASE UNCHANGED vars
    BY <1>0, <1>11, QuietProbe DEF vars, callVars, breakerVars, InFlight
<1>12. ASSUME NEW c \in Calls, RejectFatal(c) PROVE ProbeFlagSound'
    BY <1>3, <1>12 DEF RejectFatal
<1> QED
    BY <1>1, <1>2, <1>5, <1>6, <1>7, <1>8, <1>9, <1>10, <1>11, <1>12
       DEF Next, CallStep, RejectTransient, TimeOut

\* The flag of the breaker is raised exactly while one probe of the current
\* half-open period is in flight.
THEOREM ProbeCorrect == Spec => []ProbeFlagSound
<1>1. Init /\ TypeOK => ProbeInv
  <2> SUFFICES ASSUME Init, TypeOK PROVE ProbeFlagSound
      BY DEF ProbeInv
  <2>1. CurrentProbes = {} /\ probeInFlight = FALSE
      BY DEF Init, BreakerInit, CurrentProbes
  <2> QED
      BY <2>1 DEF ProbeFlagSound
<1>2. ProbeInv => ProbeFlagSound
    BY DEF ProbeInv
<1> QED
    BY <1>1, <1>2, ProbeStep, TypeCorrect, PTL DEF Spec

-----------------------------------------------------------------------------
(* The statistics. *)

BalanceInv == TypeOK /\ StatsBalance

LEMMA InFlightFinite == IsFiniteSet(InFlight) /\ Cardinality(InFlight) \in Nat
<1>1. InFlight \in SUBSET Calls
    BY DEF InFlight
<1>2. IsFiniteSet(InFlight)
    BY <1>1, GatewayAssumption, FS_Subset
<1> QED
    BY <1>2, FS_CardinalityType

\* A call that settles leaves the calls in flight.
LEMMA SettleCount ==
    ASSUME TypeOK, NEW c \in Calls, pc[c] # "idle", Settle(c)
    PROVE  Cardinality(InFlight') = Cardinality(InFlight) - 1
<1>1. InFlight' = InFlight \ {c} /\ c \in InFlight
    BY DEF Settle, InFlight, TypeOK
<1> QED
    BY <1>1, InFlightFinite, FS_RemoveElement

LEMMA FailBalance ==
    ASSUME BalanceInv, NEW c \in Calls, NEW b \in BOOLEAN, pc[c] = "attempt", Fail(c, b)
    PROVE  StatsBalance'
<1>1. Cardinality(InFlight') = Cardinality(InFlight) - 1
    BY SettleCount DEF Fail, BalanceInv
<1>2. rejected' = rejected /\ rejected \in Nat
    BY DEF Fail, Settle, BalanceInv, TypeOK
<1>3. /\ stats'["totalCalls"] = stats["totalCalls"]
      /\ stats'["successes"] = stats["successes"]
      /\ stats'["failures"] = stats["failures"] + 1
      /\ stats'["timeouts"] \in {stats["timeouts"], stats["timeouts"] + 1}
    BY DEF Fail, Count, StatNames
<1>4. /\ stats["totalCalls"] \in Nat /\ stats["successes"] \in Nat
      /\ stats["failures"] \in Nat /\ stats["timeouts"] \in Nat
    BY DEF BalanceInv, TypeOK, StatNames
<1> QED
    BY <1>1, <1>2, <1>3, <1>4, InFlightFinite DEF BalanceInv, StatsBalance

\* A step that moves no call into or out of flight and counts at most a retry.
LEMMA QuietBalance ==
    ASSUME BalanceInv, InFlight' = InFlight, rejected' = rejected,
           stats' \in {stats, Count({"retries"})}
    PROVE  StatsBalance'
<1>1. \A s \in StatNames \ {"retries"} : stats'[s] = stats[s]
    BY DEF Count, BalanceInv, TypeOK
<1> QED
    BY <1>1 DEF StatNames, BalanceInv, StatsBalance

LEMMA BeginBalance ==
    ASSUME BalanceInv, NEW c \in Calls, NEW t \in Tools, Begin(c, t)
    PROVE  StatsBalance'
<1>1. /\ stats'["totalCalls"] = stats["totalCalls"] + 1
      /\ stats'["successes"] = stats["successes"]
      /\ stats'["failures"] = stats["failures"]
      /\ stats'["timeouts"] = stats["timeouts"]
    BY DEF Begin, Count, StatNames
<1>2. /\ stats["totalCalls"] \in Nat /\ stats["successes"] \in Nat
      /\ stats["failures"] \in Nat /\ stats["timeouts"] \in Nat /\ rejected \in Nat
    BY DEF BalanceInv, TypeOK, StatNames
<1>3. CASE CallAllowed
  <2>1. InFlight' = InFlight \cup {c} /\ c \notin InFlight /\ rejected' = rejected
      BY <1>3 DEF Begin, InFlight, BalanceInv, TypeOK
  <2>2. Cardinality(InFlight') = Cardinality(InFlight) + 1
      BY <2>1, InFlightFinite, FS_AddElement
  <2> QED
      BY <1>1, <1>2, <2>1, <2>2, InFlightFinite DEF BalanceInv, StatsBalance
<1>4. CASE ~CallAllowed
  <2>1. InFlight' = InFlight /\ rejected' = rejected + 1
      BY <1>4 DEF Begin, InFlight
  <2> QED
      BY <1>1, <1>2, <2>1, InFlightFinite DEF BalanceInv, StatsBalance
<1> QED
    BY <1>3, <1>4

LEMMA SucceedBalance ==
    ASSUME BalanceInv, NEW c \in Calls, Succeed(c)
    PROVE  StatsBalance'
<1>1. Cardinality(InFlight') = Cardinality(InFlight) - 1
    BY SettleCount DEF Succeed, BalanceInv
<1>2. rejected' = rejected /\ rejected \in Nat
    BY DEF Succeed, Settle, BalanceInv, TypeOK
<1>3. /\ stats'["totalCalls"] = stats["totalCalls"]
      /\ stats'["successes"] = stats["successes"] + 1
      /\ stats'["failures"] = stats["failures"]
      /\ stats'["timeouts"] = stats["timeouts"]
    BY DEF Succeed, Count, StatNames
<1>4. /\ stats["totalCalls"] \in Nat /\ stats["successes"] \in Nat
      /\ stats["failures"] \in Nat /\ stats["timeouts"] \in Nat
    BY DEF BalanceInv, TypeOK, StatNames
<1> QED
    BY <1>1, <1>2, <1>3, <1>4, InFlightFinite DEF BalanceInv, StatsBalance

LEMMA BalanceStep == BalanceInv /\ [Next]_vars => BalanceInv'
<1> SUFFICES ASSUME BalanceInv, [Next]_vars PROVE StatsBalance'
    BY TypeStep DEF BalanceInv
<1>0. pc \in [Calls -> {"idle", "attempt", "sleep"}]
    BY DEF BalanceInv, TypeOK
<1>1. ASSUME NEW c \in Calls, NEW t \in Tools, Begin(c, t) PROVE StatsBalance'
    BY <1>1, BeginBalance
<1>2. ASSUME NEW c \in Calls, Succeed(c) PROVE StatsBalance'
    BY <1>2, SucceedBalance
<1>3. ASSUME NEW c \in Calls, RejectFatal(c) PROVE StatsBalance'
    BY <1>3, FailBalance DEF RejectFatal
<1>4. ASSUME NEW c \in Calls, pc[c] = "attempt", pc' = [pc EXCEPT ![c] = "sleep"],
             UNCHANGED <<stats, rejected>>
      PROVE  StatsBalance'
  <2>1. InFlight' = InFlight
      BY <1>0, <1>4 DEF InFlight
  <2> QED
      BY <1>4, <2>1, QuietBalance
<1>5. ASSUME NEW c \in Calls, NEW b \in BOOLEAN, pc[c] = "attempt", RetryOrFail(c, b)
      PROVE  StatsBalance'
    BY <1>4, <1>5, RetryCases, FailBalance
<1>6. ASSUME NEW c \in Calls, WakeUp(c) PROVE StatsBalance'
  <2>1. InFlight' = InFlight
      BY <1>0, <1>6 DEF InFlight, WakeUp
  <2> QED
      BY <1>6, <2>1, QuietBalance DEF WakeUp
<1>7. CASE resetCircuit \/ UNCHANGED callVars
    BY <1>7, QuietBalance DEF resetCircuit, callVars, InFlight
<1> QED
    BY <1>1, <1>2, <1>3, <1>5, <1>6, <1>7
       DEF Next, CallStep, RejectTransient, TimeOut, getCircuitState,
           getGatewayStats, Clock, vars

\* The calls that began are accounted for, each once.
THEOREM BalanceCorrect == Spec => []StatsBalance
<1>1. Init /\ TypeOK => BalanceInv
  <2> SUFFICES ASSUME Init, TypeOK PROVE StatsBalance
      BY DEF BalanceInv
  <2>1. InFlight = {}
      BY DEF Init, InFlight
  <2>2. \A s \in StatNames : stats[s] = 0
      BY DEF Init
  <2>3. rejected = 0 /\ Cardinality({}) = 0
      BY FS_EmptySet DEF Init
  <2> QED
      BY <2>1, <2>2, <2>3 DEF StatsBalance, StatNames
<1>2. BalanceInv => StatsBalance
    BY DEF BalanceInv
<1> QED
    BY <1>1, <1>2, BalanceStep, TypeCorrect, PTL DEF Spec

-----------------------------------------------------------------------------
(* Mutations. *)

MutationInv == TypeOK /\ AttemptsInv /\ MutationAtMostOnce

\* The calls MutationAtMostOnce speaks about.
Unrepeatable(t) ==
    /\ isMutation(t)
    /\ \A o \in {ServerOverride, RegistryOverride[t], ToolOverride[t]} :
           o["retries"] = Unset

LEMMA MutationStep == MutationInv /\ [Next]_vars => MutationInv'
<1> SUFFICES ASSUME MutationInv, [Next]_vars PROVE MutationInv'
    OBVIOUS
<1> SUFFICES \A d \in Calls : pc'[d] # "idle" =>
                 /\ attempt'[d] >= 1
                 /\ Unrepeatable(tool'[d]) =>
                        attempt'[d] <= 1 /\ pc'[d] = "attempt"
  <2>1. TypeOK'
      BY TypeStep DEF MutationInv
  <2>2. AttemptsInv'
      BY DEF AttemptsInv, InFlight
  <2>3. MutationAtMostOnce'
      BY DEF MutationAtMostOnce, InFlight, Unrepeatable, isMutation
  <2> QED
      BY <2>1, <2>2, <2>3 DEF MutationInv
<1> TAKE d \in Calls
<1>0. /\ pc \in [Calls -> {"idle", "attempt", "sleep"}]
      /\ attempt \in [Calls -> Nat] /\ tool \in [Calls -> Tools]
      /\ pc[d] # "idle" => /\ attempt[d] >= 1
                           /\ Unrepeatable(tool[d]) =>
                                  attempt[d] <= 1 /\ pc[d] = "attempt"
    BY DEF MutationInv, TypeOK, AttemptsInv, MutationAtMostOnce, InFlight, Unrepeatable
<1> DEFINE Goal == pc'[d] # "idle" =>
                       /\ attempt'[d] >= 1
                       /\ Unrepeatable(tool'[d]) =>
                              attempt'[d] <= 1 /\ pc'[d] = "attempt"
<1>1. CASE pc'[d] = pc[d] /\ attempt'[d] = attempt[d] /\ tool'[d] = tool[d]
    BY <1>0, <1>1
<1>2. ASSUME NEW c \in Calls, NEW t \in Tools, Begin(c, t) PROVE Goal
    BY <1>0, <1>1, <1>2 DEF Begin
<1>3. ASSUME NEW c \in Calls, Settle(c) PROVE Goal
    BY <1>0, <1>1, <1>3 DEF Settle
<1>4. ASSUME NEW c \in Calls, pc[c] = "attempt", attempt[c] <= Retries(tool[c]),
             pc' = [pc EXCEPT ![c] = "sleep"], UNCHANGED <<attempt, tool>>
      PROVE  Goal
  <2>1. CASE c = d
    <3>1. Unrepeatable(tool[d]) => Retries(tool[d]) = 0
        BY <1>0, MutationRetries DEF Unrepeatable
    <3>2. ~Unrepeatable(tool[d])
        BY <1>0, <1>4, <2>1, <3>1
    <3> QED
        BY <1>0, <1>4, <2>1, <3>2
  <2>2. CASE c # d
      BY <1>0, <1>1, <1>4, <2>2
  <2> QED
      BY <2>1, <2>2
<1>5. ASSUME NEW c \in Calls, NEW b \in BOOLEAN, pc[c] = "attempt", RetryOrFail(c, b)
      PROVE  Goal
    BY <1>3, <1>4, <1>5, RetryCases DEF Fail
<1>6. ASSUME NEW c \in Calls, WakeUp(c) PROVE Goal
    BY <1>0, <1>1, <1>6 DEF WakeUp
<1>7. CASE resetCircuit \/ UNCHANGED callVars
    BY <1>1, <1>7 DEF resetCircuit, callVars
<1> QED
    BY <1>2, <1>3, <1>5, <1>6, <1>7
       DEF Next, CallStep, Succeed, RejectFatal, Fail, RejectTransient, TimeOut,
           getCircuitState, getGatewayStats, Clock, vars

\* A mutation without an explicit retry setting reaches the backend at most
\* once per call.
THEOREM MutationCorrect == Spec => []MutationAtMostOnce
<1>1. Init /\ TypeOK => MutationInv
    BY DEF Init, MutationInv, AttemptsInv, MutationAtMostOnce, InFlight
<1>2. MutationInv => MutationAtMostOnce
    BY DEF MutationInv
<1> QED
    BY <1>1, <1>2, MutationStep, TypeCorrect, PTL DEF Spec

-----------------------------------------------------------------------------
(* The open period. *)

LEMMA OpenStep ==
    ASSUME TypeOK, [Next]_vars, state = "open", state' = "open"
    PROVE  sinceTrip' >= sinceTrip
<1>0. sinceTrip \in Int
    BY BreakerAssumption DEF TypeOK, BreakerTypeOK, NoTrip
<1>1. recordSuccess \/ recordFailure => sinceTrip' = sinceTrip
    BY DEF recordSuccess, recordFailure
<1>2. allowCall \/ getState \/ getStats => sinceTrip' = sinceTrip
    BY DEF allowCall, getState, getStats
<1>3. ~reset
    BY DEF reset
<1>4. Tick => sinceTrip' >= sinceTrip
    BY <1>0 DEF Tick
<1>5. UNCHANGED breakerVars => sinceTrip' = sinceTrip
    BY DEF breakerVars
<1>6. ASSUME NEW c \in Calls, NEW b \in BOOLEAN, RetryOrFail(c, b)
      PROVE  sinceTrip' = sinceTrip
    BY <1>1, <1>5, <1>6, RetryCases DEF Fail
<1>7. ASSUME NEW c \in Calls, CallStep(c) PROVE sinceTrip' = sinceTrip
  <2>1. ASSUME NEW t \in Tools, Begin(c, t) PROVE sinceTrip' = sinceTrip
      BY <1>2, <2>1 DEF Begin
  <2>2. CASE Succeed(c) \/ RejectFatal(c)
      BY <1>1, <2>2 DEF Succeed, RejectFatal, Fail
  <2>3. CASE RejectTransient(c) \/ TimeOut(c)
      BY <1>6, <2>3 DEF RejectTransient, TimeOut
  <2>4. CASE WakeUp(c)
      BY <1>5, <2>4 DEF WakeUp
  <2> QED
      BY <1>7, <2>1, <2>2, <2>3, <2>4 DEF CallStep
<1>8. CASE getCircuitState \/ getGatewayStats \/ UNCHANGED vars
    BY <1>0, <1>2, <1>8 DEF getCircuitState, getGatewayStats, vars, breakerVars
<1>9. CASE Clock
    BY <1>4, <1>9 DEF Clock
<1>10. ~resetCircuit
    BY <1>3 DEF resetCircuit
<1>11. sinceTrip' = sinceTrip => sinceTrip' >= sinceTrip
    BY <1>0
<1> QED
    BY <1>7, <1>8, <1>9, <1>10, <1>11 DEF Next

\* Failures of calls admitted earlier do not postpone the probe.
THEOREM OpenPeriodCorrect == Spec => OpenPeriodNotExtended
<1>1. TypeOK /\ [Next]_vars =>
          [state = "open" /\ state' = "open" => sinceTrip' >= sinceTrip]_vars
    BY OpenStep
<1> QED
    BY <1>1, TypeCorrect, PTL DEF Spec, OpenPeriodNotExtended

-----------------------------------------------------------------------------
(***************************************************************************)
(* RateLimiter: any callers, burst, rate, turn of the queue's timer and    *)
(* timeout of the queue.                                                   *)
(*                                                                         *)
(* That no more is sent than the rate allows follows from RateInv, which   *)
(* compares the integer bucket of the code with the exact one. That a      *)
(* queued call is served while tokens come follows from TurnInv: for some  *)
(* k, the call cannot have waited too long when the timer has turned k     *)
(* more times, and then there is a token.                                  *)
(***************************************************************************)

CallRec == [pc : {"idle", "queued", "leaked", "stranded", "sent"},
            age : 0 .. QueueTicks, served : 0 .. QueueTicks, waited : BOOLEAN,
            to : {"none", "live", "lost", "closing"}]

\* The tokens and the time that counts for the next ones, in ticks, are no
\* more than one tick less than a token above the exact bucket.
RateInv ==
    /\ allowance <= Full
    /\ allowance = Full \/ tokens * TokenTicks + elapsed <= allowance + TokenTicks - 1

\* What a queued call has waited, with the time until the turn of the timer
\* that will serve someone, k turns after the next one.
Bound(s) == Period * (s + 1) + PollTicks
Served(c, k) ==
    /\ call[c].age + untilPoll + k * PollTicks <= Bound(call[c].served)
    /\ tokens >= 1 \/ elapsed + untilPoll + k * PollTicks >= TokenTicks
TurnInv ==
    link # "closing" =>
        \A c \in Callers : call[c].pc = "queued" =>
            call[c].served = QueueTicks \/ \E k \in Nat : Served(c, k)

IdleInv == \A c \in Callers : call[c].pc = "idle" => ~call[c].waited

\* Where there is no limiter nobody waits for one.
LimitedInv == limited \/ \A c \in Callers : call[c].pc # "queued"

RLIInv == RLTypeOK /\ QueueIsExact /\ NoWaiterToClosing /\ RateInv /\ TurnInv /\ IdleInv /\ LimitedInv

-----------------------------------------------------------------------------
LEMMA Constants ==
    /\ MaxTokens \in Nat /\ MaxTokens >= 1 /\ TokenTicks \in Nat /\ TokenTicks >= 1
    /\ PollTicks \in Nat /\ PollTicks >= 1 /\ QueueTicks \in Nat /\ QueueTicks >= 1
    /\ QueueLimit \in Nat /\ QueueLimit >= 1
BY RateLimiterAssumption

LEMMA Product == \A a, b \in Nat : a * b \in Nat /\ (a >= 1 => a * b >= b)
<1> SUFFICES ASSUME NEW a \in Nat, NEW b \in Nat PROVE a * b \in Nat /\ (a >= 1 => a * b >= b)
    OBVIOUS
<1>1. a * b \in Nat
    OBVIOUS
<1>2. ASSUME a >= 1 PROVE a * b >= b
    <2>1. a * b = (a - 1) * b + b /\ a - 1 \in Nat
        BY <1>2
    <2>2. (a - 1) * b \in Nat
        BY <2>1
    <2>. QED BY <2>1, <2>2
<1>. QED BY <1>1, <1>2

LEMMA Division ==
    \A a \in Nat, b \in Nat \ {0} :
        a \div b \in Nat /\ (a \div b) * b <= a /\ a < (a \div b) * b + b
OBVIOUS

LEMMA FullFacts == Full \in Nat /\ Full >= TokenTicks
BY Constants, Product DEF Full

LEMMA PeriodFacts ==
    \E K \in Nat : K >= 1 /\ Period = K * PollTicks /\ Period \in Nat /\ Period >= TokenTicks
<1> DEFINE K == (TokenTicks + PollTicks - 1) \div PollTicks
<1>1. TokenTicks + PollTicks - 1 \in Nat /\ PollTicks \in Nat \ {0}
    BY Constants
<1>2. K \in Nat /\ K * PollTicks <= TokenTicks + PollTicks - 1 /\ TokenTicks + PollTicks - 1 < K * PollTicks + PollTicks
    BY <1>1, Division
<1>3. Period = K * PollTicks
    BY DEF Period
<1> HIDE DEF K
<1>4. K * PollTicks \in Nat
    BY <1>1, <1>2, Product
<1>5. K * PollTicks >= TokenTicks
    BY <1>2, <1>4, Constants
<1>6. K # 0
    <2> SUFFICES ASSUME K = 0 PROVE FALSE
        OBVIOUS
    <2>1. K * PollTicks = 0
        BY Constants
    <2>. QED BY <2>1, <1>5, Constants
<1>. QED BY <1>2, <1>3, <1>4, <1>5, <1>6

LEMMA BoundFacts ==
    \A s, t \in Nat : Bound(s) \in Nat /\ Bound(s) >= s /\ (t > s => Bound(t) >= Bound(s) + Period)
<1>0. Period \in Nat /\ Period >= 1
    BY PeriodFacts, Constants
<1> SUFFICES ASSUME NEW s \in Nat, NEW t \in Nat
             PROVE  Bound(s) \in Nat /\ Bound(s) >= s /\ (t > s => Bound(t) >= Bound(s) + Period)
    OBVIOUS
<1>1. Bound(s) = Period * (s + 1) + PollTicks /\ Bound(t) = Period * (t + 1) + PollTicks
    BY DEF Bound
<1>2. Period * (s + 1) \in Nat /\ Period * (s + 1) >= s + 1
    BY <1>0, Product
<1>3. ASSUME t > s PROVE Bound(t) >= Bound(s) + Period
    <2>1. PICK d \in Nat : t = s + 1 + d
        <3>1. t - s - 1 \in Nat /\ t = s + 1 + (t - s - 1)
            BY <1>3
        <3>. QED BY <3>1
    <2>2. Period * (t + 1) = Period * (s + 1) + Period + Period * d
        BY <1>0, <2>1
    <2>3. Period * d \in Nat
        BY <1>0, Product
    <2>. QED BY <1>0, <1>1, <1>2, <2>2, <2>3, Constants
<1>. QED BY <1>1, <1>2, <1>3, Constants

\* refillTokens never makes more tokens than time has passed for.
LEMMA RefillFacts ==
    ASSUME NEW tok \in 0 .. MaxTokens, NEW gone \in 0 .. Full
    PROVE  LET r == Refill(tok, gone) IN
           /\ r.tokens \in 0 .. MaxTokens /\ r.elapsed \in 0 .. Full /\ r.elapsed < TokenTicks
           /\ r.tokens * TokenTicks + r.elapsed <= tok * TokenTicks + gone
           /\ r.tokens * TokenTicks + r.elapsed <= Full + TokenTicks - 1
           /\ tok >= 1 \/ gone >= TokenTicks => r.tokens >= 1
           /\ r.tokens < 1 => r.tokens = tok /\ r.elapsed = gone
<1> DEFINE r == Refill(tok, gone)
           q == gone \div TokenTicks
<1>1. /\ tok \in Nat /\ gone \in Nat /\ tok <= MaxTokens /\ gone <= Full /\ Full \in Nat /\ Full >= TokenTicks
      /\ MaxTokens * TokenTicks = Full
    BY FullFacts, Constants DEF Full
<1>2. q \in Nat /\ q * TokenTicks <= gone /\ gone < q * TokenTicks + TokenTicks
    BY <1>1, Constants, Division
<1>3. \A n \in 0 .. MaxTokens : n * TokenTicks \in Nat /\ n * TokenTicks <= Full
    <2> SUFFICES ASSUME NEW n \in 0 .. MaxTokens PROVE n * TokenTicks \in Nat /\ n * TokenTicks <= Full
        OBVIOUS
    <2>1. MaxTokens - n \in Nat /\ n \in Nat
        BY Constants
    <2>2. MaxTokens * TokenTicks = n * TokenTicks + (MaxTokens - n) * TokenTicks
        BY <2>1, Constants
    <2>3. (MaxTokens - n) * TokenTicks \in Nat /\ n * TokenTicks \in Nat
        BY <2>1, Constants, Product
    <2>. QED BY <1>1, <2>2, <2>3
<1>4. CASE gone >= TokenTicks
    <2>1. r.elapsed = 0 /\ r.tokens = AtMost(tok + q, MaxTokens)
        BY <1>4 DEF Refill
    <2>2. q >= 1
        <3> SUFFICES ASSUME q = 0 PROVE FALSE
            BY <1>2
        <3> HIDE DEF q
        <3>1. q * TokenTicks = 0
            BY Constants
        <3>. QED BY <1>2, <1>4, <3>1, Constants
    <2> HIDE DEF q, r
    <2>3. r.tokens \in 0 .. MaxTokens /\ r.tokens >= 1 /\ r.tokens <= tok + q
        BY <1>1, <1>2, <2>1, <2>2, Constants DEF AtMost
    <2>4. (tok + q) * TokenTicks = tok * TokenTicks + q * TokenTicks
        BY <1>1, <1>2, Constants
    <2>5. r.tokens * TokenTicks <= (tok + q) * TokenTicks
        <3>1. tok + q - r.tokens \in Nat /\ r.tokens \in Nat
            BY <1>1, <1>2, <2>3
        <3>2. (tok + q) * TokenTicks = r.tokens * TokenTicks + (tok + q - r.tokens) * TokenTicks
            BY <1>1, <1>2, <3>1, Constants
        <3>3. (tok + q - r.tokens) * TokenTicks \in Nat /\ r.tokens * TokenTicks \in Nat
            BY <3>1, Constants, Product
        <3>. QED BY <3>2, <3>3
    <2>6. tok * TokenTicks \in Nat /\ q * TokenTicks \in Nat /\ r.tokens * TokenTicks \in Nat /\ r.tokens * TokenTicks <= Full
        BY <1>1, <1>2, <1>3, <2>3, Constants, Product
    <2>. QED BY <1>1, <1>2, <2>1, <2>3, <2>4, <2>5, <2>6, Constants DEF r
<1>5. CASE gone < TokenTicks
    <2>1. r.elapsed = gone /\ r.tokens = tok
        BY <1>1, <1>5, Constants DEF Refill
    <2> HIDE DEF r
    <2>2. tok * TokenTicks \in Nat /\ tok * TokenTicks <= Full
        BY <1>3
    <2>. QED BY <1>1, <1>5, <2>1, <2>2, Constants DEF r
<1>. QED BY <1>1, <1>4, <1>5, Constants

-----------------------------------------------------------------------------
\* The records of the calls.
LEMMA RecordFacts ==
    /\ Idle \in CallRec /\ Idle.pc = "idle" /\ ~Idle.waited
    /\ Queued \in CallRec /\ Queued.pc = "queued" /\ Queued.age = 0 /\ Queued.served = 0
    /\ \A r \in CallRec :
          /\ r.pc \in {"idle", "queued", "leaked", "stranded", "sent"} /\ r.age \in 0 .. QueueTicks
          /\ r.served \in 0 .. QueueTicks /\ r.waited \in BOOLEAN /\ r.to \in {"none", "live", "lost", "closing"}
<1>1. 0 \in 0 .. QueueTicks
    BY Constants
<1>. QED BY <1>1 DEF Idle, Queued, CallRec

LEMMA SentFacts ==
    ASSUME call \in [Callers -> CallRec], NEW c \in Callers, NEW where \in {"live", "lost", "closing"}
    PROVE  /\ Sent(c, where) \in CallRec /\ Sent(c, where).pc = "sent"
           /\ Sent(c, where).waited = call[c].waited /\ Sent(c, where).to = where
<1> DEFINE w == call[c].waited
<1>1. w \in BOOLEAN
    BY RecordFacts
<1>2. Sent(c, where) = [pc |-> "sent", age |-> 0, served |-> 0, waited |-> w, to |-> where]
    <2>1. Sent(c, where) = [Idle EXCEPT !.pc = "sent", !.waited = w, !.to = where]
        BY DEF Sent
    <2> HIDE DEF w
    <2>. QED BY <2>1 DEF Idle
<1> HIDE DEF w
<1>3. 0 \in 0 .. QueueTicks
    BY Constants
<1>4. [pc |-> "sent", age |-> 0, served |-> 0, waited |-> w, to |-> where] \in CallRec
    BY <1>1, <1>3 DEF CallRec
<1>. QED BY <1>2, <1>4 DEF w

LEMMA OvertakenFacts ==
    ASSUME NEW f \in [Callers -> CallRec], NEW n \in Nat
    PROVE  /\ Overtaken(f, n) \in [Callers -> CallRec]
           /\ \A c \in Callers :
                 /\ Overtaken(f, n)[c].pc = f[c].pc
                 /\ f[c].pc # "queued" => Overtaken(f, n)[c] = f[c]
                 /\ f[c].pc = "queued" => /\ Overtaken(f, n)[c].age = f[c].age
                                          /\ Overtaken(f, n)[c].served = AtMost(f[c].served + n, QueueTicks)
<1>1. \A c \in Callers : Overtaken(f, n)[c] =
         IF f[c].pc = "queued" THEN [f[c] EXCEPT !.served = AtMost(f[c].served + n, QueueTicks)] ELSE f[c]
    BY DEF Overtaken
<1>2. ASSUME NEW c \in Callers, f[c].pc = "queued"
      PROVE  LET o == Overtaken(f, n)[c] IN
             /\ o \in CallRec /\ o.pc = "queued" /\ o.age = f[c].age
             /\ o.served = AtMost(f[c].served + n, QueueTicks)
    <2> DEFINE m == AtMost(f[c].served + n, QueueTicks)
    <2>1. f[c].served \in 0 .. QueueTicks
        BY RecordFacts
    <2>2. m \in 0 .. QueueTicks
        BY <2>1, Constants DEF AtMost
    <2>3. Overtaken(f, n)[c] = [f[c] EXCEPT !.served = m]
        BY <1>1, <1>2
    <2> HIDE DEF m
    <2>4. f[c] \in CallRec
        OBVIOUS
    <2>5. [f[c] EXCEPT !.served = m] \in CallRec /\ [f[c] EXCEPT !.served = m].pc = "queued"
          /\ [f[c] EXCEPT !.served = m].age = f[c].age /\ [f[c] EXCEPT !.served = m].served = m
        BY <1>2, <2>2, <2>4 DEF CallRec
    <2>. QED BY <2>3, <2>5 DEF m
<1>3. Overtaken(f, n) \in [Callers -> CallRec]
    <2>1. \A c \in Callers : Overtaken(f, n)[c] \in CallRec
        BY <1>1, <1>2
    <2>2. Overtaken(f, n) = [c \in Callers |-> Overtaken(f, n)[c]]
        BY DEF Overtaken
    <2>. QED BY <2>1, <2>2
<1>. QED BY <1>1, <1>2, <1>3

LEMMA TypeFacts ==
    RLTypeOK <=>
        /\ mode \in {"queue", "reject"} /\ link \in {"live", "lost", "closing"} /\ limited \in BOOLEAN
        /\ tokens \in 0 .. MaxTokens /\ elapsed \in 0 .. Full /\ untilPoll \in 0 .. PollTicks
        /\ queue \in Seq(Callers) /\ Len(queue) <= QueueLimit
        /\ call \in [Callers -> CallRec] /\ allowance \in Int
BY DEF RLTypeOK, CallRec

LEMMA LimiterInit == RLInit => RLIInv
<1> SUFFICES ASSUME RLInit PROVE RLIInv
    OBVIOUS
<1>1. queue = <<>> /\ Elements(queue) = {} /\ Once(queue)
    BY DEF RLInit, Elements, Once
<1>2. \A c \in Callers : call[c] = Idle
    BY DEF RLInit
<1>3. RLTypeOK
    <2>1. call \in [Callers -> CallRec]
        BY RecordFacts DEF RLInit
    <2>2. MaxTokens \in 0 .. MaxTokens /\ 0 \in 0 .. Full /\ PollTicks \in 0 .. PollTicks /\ Full \in Int /\ 0 <= QueueLimit
        BY Constants, FullFacts
    <2>. QED BY <2>1, <2>2, TypeFacts DEF RLInit
<1>4. QueueIsExact
    BY <1>1, <1>2, RecordFacts DEF QueueIsExact
<1>5. RateInv
    BY FullFacts DEF RateInv, RLInit
<1>6. NoWaiterToClosing /\ TurnInv /\ IdleInv /\ LimitedInv
    BY <1>2, RecordFacts DEF NoWaiterToClosing, TurnInv, IdleInv, LimitedInv
<1>. QED BY <1>3, <1>4, <1>5, <1>6 DEF RLIInv

LEMMA ImpliesRLInv == RLIInv => RLInv
<1> SUFFICES ASSUME RLIInv PROVE RLInv
    OBVIOUS
<1> USE DEF RLIInv
<1>1. /\ tokens \in Nat /\ elapsed \in Nat /\ allowance \in Int /\ Full \in Nat /\ untilPoll \in Nat
      /\ call \in [Callers -> CallRec]
    BY TypeFacts, Constants, FullFacts
<1>2. RateIsKept
    <2>1. tokens * TokenTicks \in Nat
        BY <1>1, Constants, Product
    <2>. QED BY <1>1, <2>1, Constants DEF RateInv, RateIsKept
<1>3. NoTokenLiesIdle
    <2> SUFFICES ASSUME link # "closing", NEW c \in Callers, call[c].pc = "queued"
                 PROVE  call[c].age <= Bound(call[c].served)
        BY DEF NoTokenLiesIdle, Bound
    <2>1. call[c].age \in 0 .. QueueTicks /\ call[c].served \in 0 .. QueueTicks
        BY <1>1, RecordFacts
    <2>2. Bound(call[c].served) \in Nat /\ Bound(call[c].served) >= call[c].served
        BY <2>1, BoundFacts
    <2>3. CASE call[c].served = QueueTicks
        BY <2>1, <2>2, <2>3, Constants
    <2>4. CASE \E k \in Nat : Served(c, k)
        <3>1. PICK k \in Nat : call[c].age + untilPoll + k * PollTicks <= Bound(call[c].served)
            BY <2>4 DEF Served
        <3>2. k * PollTicks \in Nat
            BY Constants, Product
        <3>. QED BY <1>1, <2>1, <2>2, <3>1, <3>2
    <2>. QED BY <2>3, <2>4 DEF TurnInv
<1>. QED BY <1>2, <1>3 DEF RLInv

-----------------------------------------------------------------------------
\* n tokens are taken after a refill.
LEMMA TakeTokens ==
    ASSUME RLIInv, NEW n \in Nat, n <= Refill(tokens, elapsed).tokens,
           tokens' = Refill(tokens, elapsed).tokens - n, elapsed' = Refill(tokens, elapsed).elapsed,
           allowance' = allowance - n * TokenTicks
    PROVE  /\ tokens' \in 0 .. MaxTokens /\ elapsed' \in 0 .. Full /\ allowance' \in Int
           /\ RateInv'
<1> DEFINE r == Refill(tokens, elapsed)
<1>1. tokens \in 0 .. MaxTokens /\ elapsed \in 0 .. Full /\ allowance \in Int
    BY DEF RLIInv, RLTypeOK
<1>2. /\ r.tokens \in 0 .. MaxTokens /\ r.elapsed \in 0 .. Full
      /\ r.tokens * TokenTicks + r.elapsed <= tokens * TokenTicks + elapsed
      /\ r.tokens * TokenTicks + r.elapsed <= Full + TokenTicks - 1
    BY <1>1, RefillFacts
<1> HIDE DEF r
<1>3. /\ n <= r.tokens /\ tokens' = r.tokens - n /\ elapsed' = r.elapsed
    BY DEF r
<1>4. r.tokens * TokenTicks = tokens' * TokenTicks + n * TokenTicks
    BY <1>2, <1>3, Constants
<1>5. tokens * TokenTicks \in Nat /\ r.tokens * TokenTicks \in Nat /\ tokens' * TokenTicks \in Nat /\ n * TokenTicks \in Nat
    BY <1>1, <1>2, <1>3, Constants, Product
<1>6. allowance' <= Full /\ tokens' * TokenTicks + elapsed' <= allowance' + TokenTicks - 1
    BY <1>1, <1>2, <1>3, <1>4, <1>5, Constants, FullFacts DEF RLIInv, RateInv
<1>. QED BY <1>1, <1>2, <1>3, <1>5, <1>6, Constants DEF RateInv

LEMMA Later == \A a, b, d, t \in Nat : b + d >= t => a + b + d >= t
OBVIOUS

\* A queued call that has seen a token go to another has a Period more.
LEMMA AfterGrant ==
    ASSUME RLIInv, link # "closing", NEW c \in Callers, call[c].pc = "queued",
           NEW n \in Nat, n >= 1, call'[c].age = call[c].age,
           call'[c].served = AtMost(call[c].served + n, QueueTicks),
           NEW k \in Nat, untilPoll' \in Nat, elapsed' \in Nat,
           untilPoll' + k * PollTicks <= untilPoll + Period, untilPoll' + k * PollTicks >= TokenTicks
    PROVE  call'[c].served = QueueTicks \/ Served(c, k)'
<1>1. /\ call[c].age \in Nat /\ call[c].served \in Nat /\ call[c].served <= QueueTicks /\ untilPoll \in Nat
      /\ k * PollTicks \in Nat
    <2>1. call[c] \in CallRec /\ untilPoll \in Nat
        BY TypeFacts, Constants DEF RLIInv
    <2>. QED BY <2>1, RecordFacts, Constants, Product
<1>2. CASE call[c].served = QueueTicks
    BY <1>1, <1>2, Constants DEF AtMost
<1>3. CASE \E j \in Nat : Served(c, j)
    <2>1. PICK j \in Nat : call[c].age + untilPoll + j * PollTicks <= Bound(call[c].served)
        BY <1>3 DEF Served
    <2>2. j * PollTicks \in Nat
        BY Constants, Product
    <2>3. CASE call[c].served + n < QueueTicks
        <3>1. call'[c].served = call[c].served + n
            BY <1>1, <2>3, Constants DEF AtMost
        <3>2. /\ Bound(call'[c].served) >= Bound(call[c].served) + Period
              /\ Bound(call'[c].served) \in Nat /\ Bound(call[c].served) \in Nat
            BY <1>1, <3>1, BoundFacts
        <3>3. Period \in Nat
            BY PeriodFacts
        <3>4. call'[c].age + untilPoll' + k * PollTicks <= Bound(call'[c].served)
            BY <1>1, <2>1, <2>2, <3>2, <3>3
        <3>5. elapsed' + untilPoll' + k * PollTicks >= TokenTicks
            BY <1>1, Constants, Later
        <3>. QED BY <3>4, <3>5 DEF Served, Bound
    <2>4. CASE ~(call[c].served + n < QueueTicks)
        BY <1>1, <2>4, Constants DEF AtMost
    <2>. QED BY <2>3, <2>4
<1>. QED BY <1>2, <1>3 DEF RLIInv, TurnInv

\* One call goes on and is not queued afterwards; nothing of the bucket changes.
LEMMA OneCall ==
    ASSUME RLIInv, NEW c \in Callers, NEW r \in CallRec, call' = [call EXCEPT ![c] = r], r.pc # "queued",
           r.pc = "idle" => ~r.waited, r.pc = "sent" /\ r.waited => r.to # "closing",
           queue' = Removed(queue, c), UNCHANGED <<mode, link, limited, tokens, elapsed, untilPoll, allowance>>
    PROVE  RLIInv'
<1> USE DEF RLIInv
<1>1. call \in [Callers -> CallRec] /\ queue \in Seq(Callers) /\ Len(queue) <= QueueLimit /\ Len(queue) \in Nat
    BY TypeFacts
<1>2. call' \in [Callers -> CallRec] /\ call'[c] = r /\ \A d \in Callers \ {c} : call'[d] = call[d]
    BY <1>1
<1>3. Once(queue) /\ Elements(queue) = {d \in Callers : call[d].pc = "queued"}
    BY DEF QueueIsExact
<1>4. /\ queue' \in Seq(Callers) /\ Len(queue') <= Len(queue) /\ Elements(queue') = Elements(queue) \ {c}
      /\ Once(queue')
    BY <1>1, <1>3, RemovedFacts
<1>5. Len(queue') <= QueueLimit
    BY <1>1, <1>4, Constants
<1>6. RLTypeOK'
    BY <1>2, <1>4, <1>5 DEF RLTypeOK, CallRec
<1>7. QueueIsExact'
    BY <1>2, <1>3, <1>4 DEF QueueIsExact
<1>8. RateInv'
    BY DEF RateInv
<1>9. TurnInv'
    BY <1>2 DEF TurnInv, Served
<1>10. NoWaiterToClosing' /\ IdleInv' /\ LimitedInv'
    BY <1>2 DEF NoWaiterToClosing, IdleInv, LimitedInv
<1>. QED BY <1>6, <1>7, <1>8, <1>9, <1>10

\* A call that is not queued is not in the queue.
LEMMA NotThere ==
    ASSUME RLIInv, NEW c \in Callers, call[c].pc # "queued"
    PROVE  Removed(queue, c) = queue
BY DEF RLIInv, QueueIsExact, Removed

LEMMA TimeoutStep == ASSUME RLIInv, NEW c \in Callers, timeout(c) PROVE RLIInv'
BY OneCall, RecordFacts DEF timeout

LEMMA AnswerStep == ASSUME RLIInv, NEW c \in Callers, answer(c) PROVE RLIInv'
<1>1. call[c].pc = "sent" /\ call' = [call EXCEPT ![c] = Idle]
      /\ UNCHANGED <<mode, link, limited, tokens, elapsed, untilPoll, queue, allowance>>
    BY DEF answer
<1>2. queue' = Removed(queue, c)
    BY <1>1, NotThere
<1>. QED BY <1>1, <1>2, OneCall, RecordFacts

LEMMA LeakedStep == ASSUME RLIInv, NEW c \in Callers, leakedGrant(c) PROVE RLIInv'
<1> DEFINE r == Sent(c, "lost")
<1>1. call[c].pc = "leaked" /\ call' = [call EXCEPT ![c] = r]
      /\ UNCHANGED <<mode, link, limited, tokens, elapsed, untilPoll, queue, allowance>>
    BY DEF leakedGrant
<1>2. queue' = Removed(queue, c)
    BY <1>1, NotThere
<1>3. r \in CallRec /\ r.pc = "sent" /\ r.to = "lost"
    <2>1. call \in [Callers -> CallRec]
        BY TypeFacts DEF RLIInv
    <2>. QED BY <2>1, SentFacts
<1> HIDE DEF r
<1>. QED BY <1>1, <1>2, <1>3, OneCall

LEMMA LostStep == ASSUME RLIInv, lost PROVE RLIInv'
<1>1. link = "live" /\ link' = "lost" /\ UNCHANGED <<mode, limited, tokens, elapsed, untilPoll, queue, call, allowance>>
    BY DEF lost
<1>. QED BY <1>1 DEF RLIInv, RLTypeOK, QueueIsExact, NoWaiterToClosing, RateInv, TurnInv, IdleInv, LimitedInv, Served

\* The queue is gone: no call is queued.
LEMMA EmptyQueue == <<>> \in Seq(Callers) /\ Len(<<>>) <= QueueLimit /\ Once(<<>>) /\ Elements(<<>>) = {}
BY Constants DEF Once, Elements

LEMMA DestroyStep == ASSUME RLIInv, destroy PROVE RLIInv'
<1> USE DEF RLIInv
<1>1. /\ link' = "closing" /\ queue' = <<>>
      /\ call' = [c \in Callers |-> IF call[c].pc = "queued" THEN Idle ELSE call[c]]
      /\ UNCHANGED <<mode, limited, tokens, elapsed, untilPoll, allowance>>
    BY DEF destroy
<1>2. call \in [Callers -> CallRec]
    BY TypeFacts
<1>3. /\ call' \in [Callers -> CallRec]
      /\ \A c \in Callers : call'[c] = Idle \/ (call'[c] = call[c] /\ call[c].pc # "queued")
    BY <1>1, <1>2, RecordFacts
<1>4. \A c \in Callers : call'[c].pc # "queued"
    BY <1>3, RecordFacts
<1>5. RLTypeOK'
    BY <1>1, <1>3, EmptyQueue DEF RLTypeOK, CallRec
<1>6. QueueIsExact'
    BY <1>1, <1>4, EmptyQueue DEF QueueIsExact
<1>7. NoWaiterToClosing' /\ IdleInv'
    BY <1>3, RecordFacts DEF NoWaiterToClosing, IdleInv
<1>. QED BY <1>1, <1>4, <1>5, <1>6, <1>7 DEF RateInv, TurnInv, LimitedInv

LEMMA ReopenStep == ASSUME RLIInv, reopen PROVE RLIInv'
<1> USE DEF RLIInv
<1> DEFINE next(c) == [call[c] EXCEPT !.pc = IF link = "lost" THEN "leaked" ELSE "stranded"]
<1>1. /\ link' = "live" /\ tokens' = MaxTokens /\ elapsed' = 0 /\ untilPoll' = PollTicks /\ queue' = <<>>
      /\ call' = [c \in Callers |-> IF call[c].pc = "queued" THEN next(c) ELSE call[c]]
      /\ allowance' = Full /\ mode' = mode /\ limited' \in BOOLEAN
    BY DEF reopen, NextLimited
<1>2. call \in [Callers -> CallRec]
    BY TypeFacts
<1>3. \A c \in Callers : next(c) \in CallRec /\ next(c).pc \in {"leaked", "stranded"}
    BY <1>2 DEF CallRec
<1> HIDE DEF next
<1>4. /\ call' \in [Callers -> CallRec]
      /\ \A c \in Callers : call'[c].pc \in {"leaked", "stranded"} \/ (call'[c] = call[c] /\ call[c].pc # "queued")
    BY <1>1, <1>2, <1>3
<1>5. \A c \in Callers : call'[c].pc # "queued"
    BY <1>4
<1>6. RLTypeOK'
    <2>1. MaxTokens \in 0 .. MaxTokens /\ 0 \in 0 .. Full /\ PollTicks \in 0 .. PollTicks /\ Full \in Int
        BY Constants, FullFacts
    <2>2. mode \in {"queue", "reject"}
        BY DEF RLTypeOK
    <2>. QED BY <1>1, <1>4, <2>1, <2>2, EmptyQueue DEF RLTypeOK, CallRec, Full
<1>7. QueueIsExact'
    BY <1>1, <1>5, EmptyQueue DEF QueueIsExact
<1>8. NoWaiterToClosing' /\ IdleInv'
    BY <1>4 DEF NoWaiterToClosing, IdleInv
<1>9. RateInv'
    BY <1>1, FullFacts DEF RateInv, Full
<1>. QED BY <1>5, <1>6, <1>7, <1>8, <1>9 DEF TurnInv, LimitedInv

\* The time a call has waited and the time that is left grow against each other.
LEMMA TickArithmetic ==
    ASSUME NEW a \in Nat, NEW u \in Nat, NEW x \in Nat, NEW b \in Nat, NEW e \in Nat, u > 0
    PROVE  /\ a + u + x <= b => (a + 1) + (u - 1) + x <= b
           /\ e + u + x >= TokenTicks => AtMost(e + 1, Full) + (u - 1) + x >= TokenTicks
BY Constants, FullFacts DEF AtMost

LEMMA TickStep == ASSUME RLIInv, tick PROVE RLIInv'
<1> USE DEF RLIInv
<1> DEFINE older(c) == [call[c] EXCEPT !.age = @ + 1]
<1>1. /\ limited /\ link # "closing" => untilPoll > 0
      /\ \A c \in Callers : call[c].pc \in {"queued", "leaked", "stranded"} => call[c].age < QueueTicks
      /\ elapsed' = IF limited THEN AtMost(elapsed + 1, Full) ELSE elapsed
      /\ untilPoll' = IF limited /\ link # "closing" THEN untilPoll - 1 ELSE untilPoll
      /\ call' = [c \in Callers |-> IF call[c].pc \in {"queued", "leaked", "stranded"} THEN older(c) ELSE call[c]]
      /\ allowance' = AtMost(allowance + 1, Full)
      /\ UNCHANGED <<mode, link, limited, tokens, queue>>
    BY DEF tick
<1>2. /\ call \in [Callers -> CallRec] /\ tokens \in 0 .. MaxTokens /\ elapsed \in 0 .. Full
      /\ untilPoll \in 0 .. PollTicks /\ allowance \in Int
    BY TypeFacts
<1>3. \A c \in Callers : call[c].pc \in {"queued", "leaked", "stranded"} =>
         /\ older(c) \in CallRec /\ older(c).pc = call[c].pc /\ older(c).age = call[c].age + 1
         /\ older(c).served = call[c].served
    <2> SUFFICES ASSUME NEW c \in Callers, call[c].pc \in {"queued", "leaked", "stranded"}
                 PROVE  /\ older(c) \in CallRec /\ older(c).pc = call[c].pc /\ older(c).age = call[c].age + 1
                        /\ older(c).served = call[c].served
        OBVIOUS
    <2>1. call[c].age + 1 \in 0 .. QueueTicks
        BY <1>1, <1>2, RecordFacts, Constants
    <2>2. call[c] \in CallRec
        BY <1>2
    <2>. QED BY <2>1, <2>2 DEF CallRec
<1> HIDE DEF older
<1>4. /\ call' \in [Callers -> CallRec]
      /\ \A c \in Callers : \/ call'[c] = call[c] /\ call[c].pc \notin {"queued", "leaked", "stranded"}
                            \/ /\ call[c].pc \in {"queued", "leaked", "stranded"}
                               /\ call'[c].pc = call[c].pc /\ call'[c].age = call[c].age + 1
                               /\ call'[c].served = call[c].served
    BY <1>1, <1>2, <1>3
<1>5. RLTypeOK'
    <2>1. elapsed' \in 0 .. Full /\ untilPoll' \in 0 .. PollTicks /\ allowance' \in Int
        BY <1>1, <1>2, Constants, FullFacts DEF AtMost
    <2>. QED BY <1>1, <1>4, <2>1 DEF RLTypeOK, CallRec, Full
<1>6. QueueIsExact'
    <2>1. \A c \in Callers : call'[c].pc = "queued" <=> call[c].pc = "queued"
        BY <1>4
    <2>. QED BY <1>1, <2>1 DEF QueueIsExact
<1>7. NoWaiterToClosing' /\ IdleInv' /\ LimitedInv'
    BY <1>1, <1>4 DEF NoWaiterToClosing, IdleInv, LimitedInv
<1>8. RateInv'
    <2> DEFINE v == tokens * TokenTicks
    <2>1. v \in Nat
        BY <1>2, Constants, Product
    <2>2. allowance <= Full /\ (allowance = Full \/ v + elapsed <= allowance + TokenTicks - 1)
        BY DEF RateInv
    <2> HIDE DEF v
    <2>3. allowance' <= Full /\ (allowance' = Full \/ v + elapsed' <= allowance' + TokenTicks - 1)
        BY <1>1, <1>2, <2>1, <2>2, Constants, FullFacts DEF AtMost
    <2>4. tokens' = tokens
        BY <1>1
    <2>. QED BY <2>3, <2>4 DEF RateInv, Full, v
<1>9. TurnInv'
    <2> SUFFICES ASSUME link' # "closing", NEW c \in Callers, call'[c].pc = "queued"
                 PROVE  call'[c].served = QueueTicks \/ \E k \in Nat : Served(c, k)'
        BY DEF TurnInv
    <2>0. limited
        BY <1>4 DEF LimitedInv
    <2>1. /\ link # "closing" /\ call[c].pc = "queued" /\ untilPoll > 0 /\ untilPoll' = untilPoll - 1
          /\ call'[c].age = call[c].age + 1 /\ call'[c].served = call[c].served
        BY <1>1, <1>4, <2>0
    <2>2. CASE call[c].served = QueueTicks
        BY <2>1, <2>2
    <2>3. CASE \E k \in Nat : Served(c, k)
        <3>1. PICK k \in Nat : Served(c, k)
            BY <2>3
        <3> DEFINE x == k * PollTicks
                   b == Bound(call[c].served)
        <3>2. x \in Nat /\ b \in Nat /\ call[c].age \in Nat /\ untilPoll \in Nat /\ elapsed \in Nat
            BY <1>2, RecordFacts, BoundFacts, Constants, FullFacts, Product
        <3>3. call[c].age + untilPoll + x <= b /\ (tokens >= 1 \/ elapsed + untilPoll + x >= TokenTicks)
            BY <3>1 DEF Served
        <3> HIDE DEF x, b
        <3>4. /\ (call[c].age + 1) + (untilPoll - 1) + x <= b
              /\ tokens >= 1 \/ AtMost(elapsed + 1, Full) + (untilPoll - 1) + x >= TokenTicks
            BY <2>1, <3>2, <3>3, TickArithmetic
        <3>5. call'[c].age + untilPoll' + x <= b /\ (tokens' >= 1 \/ elapsed' + untilPoll' + x >= TokenTicks)
            BY <1>1, <2>0, <2>1, <3>4
        <3>6. b = Bound(call'[c].served)
            BY <2>1 DEF b
        <3>7. Served(c, k)'
            BY <3>5, <3>6 DEF Served, Bound, Period, x
        <3>. QED BY <3>7
    <2>. QED BY <2>1, <2>2, <2>3 DEF TurnInv
<1>. QED BY <1>5, <1>6, <1>7, <1>8, <1>9

\* A call is served at once: those in the queue see it.
LEMMA GrantStep ==
    ASSUME RLIInv, NEW c \in Callers, call[c].pc = "idle", link \in {"live", "closing"}, limited,
           Refill(tokens, elapsed).tokens >= 1, tokens' = Refill(tokens, elapsed).tokens - 1,
           elapsed' = Refill(tokens, elapsed).elapsed,
           call' = Overtaken([call EXCEPT ![c] = Sent(c, link)], 1),
           allowance' = allowance - TokenTicks, UNCHANGED <<mode, link, limited, untilPoll, queue>>
    PROVE  RLIInv'
<1> USE DEF RLIInv
<1> DEFINE r == Sent(c, link)
           f == [call EXCEPT ![c] = r]
<1>1. call \in [Callers -> CallRec] /\ untilPoll \in Nat /\ Refill(tokens, elapsed).tokens \in Nat
    <2>1. call \in [Callers -> CallRec] /\ untilPoll \in 0 .. PollTicks /\ tokens \in 0 .. MaxTokens /\ elapsed \in 0 .. Full
        BY TypeFacts
    <2>2. Refill(tokens, elapsed).tokens \in 0 .. MaxTokens
        BY <2>1, RefillFacts
    <2>. QED BY <2>1, <2>2, Constants
<1>2. r \in CallRec /\ r.pc = "sent" /\ ~r.waited
    BY <1>1, SentFacts DEF IdleInv
<1> HIDE DEF r
<1>3. f \in [Callers -> CallRec] /\ f[c] = r /\ \A d \in Callers \ {c} : f[d] = call[d]
    BY <1>1, <1>2
<1>4. call' = Overtaken(f, 1)
    BY DEF r
<1> HIDE DEF f
<1>5. /\ call' \in [Callers -> CallRec]
      /\ \A d \in Callers :
            /\ call'[d].pc = f[d].pc
            /\ f[d].pc # "queued" => call'[d] = f[d]
            /\ f[d].pc = "queued" => call'[d].age = f[d].age /\ call'[d].served = AtMost(f[d].served + 1, QueueTicks)
    <2>1. 1 \in Nat
        OBVIOUS
    <2> DEFINE o == Overtaken(f, 1)
    <2>2. /\ o \in [Callers -> CallRec]
          /\ \A d \in Callers :
                /\ o[d].pc = f[d].pc
                /\ f[d].pc # "queued" => o[d] = f[d]
                /\ f[d].pc = "queued" => o[d].age = f[d].age /\ o[d].served = AtMost(f[d].served + 1, QueueTicks)
        BY <1>3, <2>1, OvertakenFacts
    <2>. QED BY <1>4, <2>2
<1>6. call'[c] = r /\ \A d \in Callers \ {c} :
         /\ call'[d].pc = call[d].pc
         /\ call[d].pc # "queued" => call'[d] = call[d]
         /\ call[d].pc = "queued" => call'[d].age = call[d].age /\ call'[d].served = AtMost(call[d].served + 1, QueueTicks)
    BY <1>2, <1>3, <1>5
<1>7. tokens' \in 0 .. MaxTokens /\ elapsed' \in 0 .. Full /\ allowance' \in Int /\ RateInv'
    <2>1. allowance' = allowance - 1 * TokenTicks
        BY Constants
    <2>. QED BY <1>1, <2>1, TakeTokens
<1>8. RLTypeOK'
    BY <1>5, <1>7 DEF RLTypeOK, CallRec, Full
<1>9. QueueIsExact'
    <2>1. \A d \in Callers : call'[d].pc = "queued" <=> call[d].pc = "queued"
        BY <1>2, <1>6
    <2>. QED BY <2>1 DEF QueueIsExact
<1>10. NoWaiterToClosing' /\ IdleInv' /\ LimitedInv'
    BY <1>2, <1>6 DEF NoWaiterToClosing, IdleInv, LimitedInv
<1>11. TurnInv'
    <2> SUFFICES ASSUME link' # "closing", NEW d \in Callers, call'[d].pc = "queued"
                 PROVE  call'[d].served = QueueTicks \/ \E k \in Nat : Served(d, k)'
        BY DEF TurnInv
    <2>1. /\ link # "closing" /\ call[d].pc = "queued" /\ call'[d].age = call[d].age
          /\ call'[d].served = AtMost(call[d].served + 1, QueueTicks)
        BY <1>2, <1>6
    <2>2. PICK K \in Nat : Period = K * PollTicks /\ Period \in Nat /\ Period >= TokenTicks
        BY PeriodFacts
    <2>3. /\ untilPoll' \in Nat /\ elapsed' \in Nat
          /\ untilPoll' + K * PollTicks <= untilPoll + Period /\ untilPoll' + K * PollTicks >= TokenTicks
        BY <1>1, <1>7, <2>2, Constants, FullFacts
    <2>4. call'[d].served = QueueTicks \/ Served(d, K)'
        <3>1. 1 \in Nat /\ 1 >= 1
            OBVIOUS
        <3>. QED BY <2>1, <2>3, <3>1, AfterGrant
    <2>. QED BY <2>4
<1>. QED BY <1>7, <1>8, <1>9, <1>10, <1>11

\* A call is queued, when there is no token.
LEMMA QueuedStep ==
    ASSUME RLIInv, NEW c \in Callers, call[c].pc = "idle", limited, Refill(tokens, elapsed).tokens < 1,
           tokens' = Refill(tokens, elapsed).tokens, elapsed' = Refill(tokens, elapsed).elapsed,
           Len(queue) < QueueLimit, queue' = Append(queue, c), call' = [call EXCEPT ![c] = Queued],
           UNCHANGED <<mode, link, limited, untilPoll, allowance>>
    PROVE  RLIInv'
<1> USE DEF RLIInv
<1>1. /\ call \in [Callers -> CallRec] /\ untilPoll \in Nat /\ untilPoll <= PollTicks /\ elapsed \in Nat
      /\ tokens \in 0 .. MaxTokens /\ elapsed \in 0 .. Full /\ queue \in Seq(Callers) /\ Len(queue) \in Nat
    BY TypeFacts, Constants, FullFacts
<1>2. tokens' = tokens /\ elapsed' = elapsed
    BY <1>1, RefillFacts
<1>3. call' \in [Callers -> CallRec] /\ call'[c] = Queued /\ \A d \in Callers \ {c} : call'[d] = call[d]
    BY <1>1, RecordFacts
<1>4. Once(queue) /\ Elements(queue) = {d \in Callers : call[d].pc = "queued"} /\ c \notin Elements(queue)
    BY DEF QueueIsExact
<1>5. /\ queue' \in Seq(Callers) /\ Len(queue') = Len(queue) + 1 /\ Once(queue')
      /\ Elements(queue') = Elements(queue) \cup {c}
    BY <1>1, <1>4, AppendFacts
<1>6. RLTypeOK'
    <2>1. Len(queue') <= QueueLimit
        BY <1>1, <1>5, Constants
    <2>. QED BY <1>2, <1>3, <1>5, <2>1 DEF RLTypeOK, CallRec
<1>7. QueueIsExact'
    BY <1>3, <1>4, <1>5, RecordFacts DEF QueueIsExact
<1>8. NoWaiterToClosing' /\ IdleInv' /\ RateInv'
    BY <1>2, <1>3, RecordFacts DEF NoWaiterToClosing, IdleInv, RateInv
<1>9. TurnInv'
    <2> SUFFICES ASSUME link' # "closing", NEW d \in Callers, call'[d].pc = "queued"
                 PROVE  call'[d].served = QueueTicks \/ \E k \in Nat : Served(d, k)'
        BY DEF TurnInv
    <2>1. CASE d # c
        BY <1>2, <1>3, <2>1 DEF TurnInv, Served
    <2>2. CASE d = c
        <3>1. call'[d].age = 0 /\ call'[d].served = 0
            BY <1>3, <2>2, RecordFacts
        <3>2. PICK K \in Nat : Period = K * PollTicks /\ Period \in Nat /\ Period >= TokenTicks
            BY PeriodFacts
        <3>3. 0 + untilPoll + K * PollTicks <= Period * (0 + 1) + PollTicks
            BY <1>1, <3>2, Constants
        <3>4. elapsed + untilPoll + K * PollTicks >= TokenTicks
            BY <1>1, <3>2, Constants
        <3>5. Served(d, K)'
            BY <1>2, <3>1, <3>3, <3>4 DEF Served, Bound
        <3>. QED BY <3>5
    <2>. QED BY <2>1, <2>2
<1>10. LimitedInv'
    BY DEF LimitedInv
<1>. QED BY <1>6, <1>7, <1>8, <1>9, <1>10

LEMMA CallToolStep == ASSUME RLIInv, NEW c \in Callers, callTool(c) PROVE RLIInv'
<1> DEFINE r == Refill(tokens, elapsed)
<1>1. /\ call[c].pc = "idle" /\ link \in {"live", "closing"} /\ limited
      /\ tokens' = IF r.tokens >= 1 THEN r.tokens - 1 ELSE r.tokens
      /\ elapsed' = r.elapsed /\ UNCHANGED <<mode, link, limited, untilPoll>>
    BY DEF callTool
<1>2. /\ tokens \in 0 .. MaxTokens /\ elapsed \in 0 .. Full /\ r.tokens \in Nat
      /\ r.tokens < 1 => r.tokens = tokens /\ r.elapsed = elapsed
    <2>1. tokens \in 0 .. MaxTokens /\ elapsed \in 0 .. Full
        BY TypeFacts DEF RLIInv
    <2>2. r.tokens \in 0 .. MaxTokens /\ (r.tokens < 1 => r.tokens = tokens /\ r.elapsed = elapsed)
        BY <2>1, RefillFacts
    <2>. QED BY <2>1, <2>2, Constants
<1>3. CASE /\ r.tokens >= 1 /\ call' = Overtaken([call EXCEPT ![c] = Sent(c, link)], 1)
           /\ allowance' = allowance - TokenTicks /\ queue' = queue
    BY <1>1, <1>3, GrantStep
<1>4. CASE /\ r.tokens < 1 /\ Len(queue) < QueueLimit /\ queue' = Append(queue, c)
           /\ call' = [call EXCEPT ![c] = Queued] /\ allowance' = allowance
    <2>1. tokens' = r.tokens
        BY <1>1, <1>2, <1>4
    <2> HIDE DEF r
    <2>2. r = Refill(tokens, elapsed)
        BY DEF r
    <2>. QED BY <1>1, <1>4, <2>1, <2>2, QueuedStep
<1>5. CASE r.tokens < 1 /\ UNCHANGED <<queue, call, allowance>>
    <2>1. tokens' = tokens /\ elapsed' = elapsed
        BY <1>1, <1>2, <1>5
    <2>. QED BY <1>1, <1>5, <2>1 DEF RLIInv, RLTypeOK, QueueIsExact, NoWaiterToClosing, RateInv, TurnInv, IdleInv, LimitedInv, Served
<1>. QED BY <1>3, <1>4, <1>5 DEF callTool

LEMMA UnlimitedStep == ASSUME RLIInv, NEW c \in Callers, callUnlimited(c) PROVE RLIInv'
<1> DEFINE r == Sent(c, link)
<1>1. /\ call[c].pc = "idle" /\ link \in {"live", "closing"} /\ call' = [call EXCEPT ![c] = r]
      /\ UNCHANGED <<mode, link, limited, tokens, elapsed, untilPoll, queue, allowance>>
    BY DEF callUnlimited
<1>2. queue' = Removed(queue, c)
    BY <1>1, NotThere
<1>3. r \in CallRec /\ r.pc = "sent" /\ ~r.waited
    <2>1. call \in [Callers -> CallRec]
        BY TypeFacts DEF RLIInv
    <2>. QED BY <1>1, <2>1, SentFacts DEF RLIInv, IdleInv
<1> HIDE DEF r
<1>. QED BY <1>1, <1>2, <1>3, OneCall

LEMMA PollStep == ASSUME RLIInv, poll PROVE RLIInv'
<1> USE DEF RLIInv
<1> DEFINE r == Refill(tokens, elapsed)
           n == AtMost(r.tokens, Len(queue))
           granted == {queue[i] : i \in 1 .. n}
           f == [c \in Callers |-> IF c \in granted THEN Sent(c, link) ELSE call[c]]
<1>1. /\ limited /\ link # "closing" /\ untilPoll = 0 /\ untilPoll' = PollTicks /\ tokens' = r.tokens - n /\ elapsed' = r.elapsed
      /\ queue' = SubSeq(queue, n + 1, Len(queue)) /\ call' = Overtaken(f, n)
      /\ allowance' = allowance - n * TokenTicks /\ UNCHANGED <<mode, link, limited>>
    BY DEF poll
<1>2. /\ call \in [Callers -> CallRec] /\ tokens \in 0 .. MaxTokens /\ elapsed \in 0 .. Full /\ link \in {"live", "lost"}
      /\ queue \in Seq(Callers) /\ Len(queue) \in Nat /\ Len(queue) <= QueueLimit
    BY <1>1, TypeFacts
<1>3. /\ r.tokens \in 0 .. MaxTokens /\ r.elapsed \in 0 .. Full
      /\ tokens >= 1 \/ elapsed >= TokenTicks => r.tokens >= 1
      /\ r.tokens < 1 => r.tokens = tokens /\ r.elapsed = elapsed
    BY <1>2, RefillFacts
<1>4. n \in Nat /\ n <= r.tokens /\ n <= Len(queue) /\ (n = r.tokens \/ n = Len(queue))
    BY <1>2, <1>3, Constants DEF AtMost
<1>5. tokens' \in 0 .. MaxTokens /\ elapsed' \in 0 .. Full /\ allowance' \in Int /\ RateInv'
    <2> HIDE DEF n
    <2>. QED BY <1>1, <1>4, TakeTokens
<1>6. f \in [Callers -> CallRec] /\ \A c \in Callers : f[c] = IF c \in granted THEN Sent(c, link) ELSE call[c]
    <2> HIDE DEF granted
    <2>. QED BY <1>2, SentFacts
<1>7. \A c \in granted : c \in Callers => f[c].pc = "sent" /\ f[c].to = link
    <2> HIDE DEF granted, f
    <2>. QED BY <1>2, <1>6, SentFacts
<1>8. Once(queue) /\ Elements(queue) = {d \in Callers : call[d].pc = "queued"}
    BY DEF QueueIsExact
<1>9. /\ queue' \in Seq(Callers) /\ Len(queue') = Len(queue) - n /\ Elements(queue') = Elements(queue) \ granted
      /\ Once(queue')
    <2>1. n \in 0 .. Len(queue)
        BY <1>2, <1>4
    <2> HIDE DEF n
    <2>. QED BY <1>1, <1>2, <1>8, <2>1, DropFacts
<1> HIDE DEF n, granted, f, r
<1>10. /\ call' \in [Callers -> CallRec]
       /\ \A d \in Callers :
             /\ call'[d].pc = f[d].pc
             /\ f[d].pc # "queued" => call'[d] = f[d]
             /\ f[d].pc = "queued" => call'[d].age = f[d].age /\ call'[d].served = AtMost(f[d].served + n, QueueTicks)
    <2> DEFINE o == Overtaken(f, n)
    <2>1. /\ o \in [Callers -> CallRec]
          /\ \A d \in Callers :
                /\ o[d].pc = f[d].pc
                /\ f[d].pc # "queued" => o[d] = f[d]
                /\ f[d].pc = "queued" => o[d].age = f[d].age /\ o[d].served = AtMost(f[d].served + n, QueueTicks)
        BY <1>4, <1>6, OvertakenFacts
    <2>. QED BY <1>1, <2>1
<1>11. \A d \in Callers :
          \/ d \in granted /\ call'[d].pc = "sent" /\ call'[d].to = link
          \/ d \notin granted /\ call[d].pc # "queued" /\ call'[d] = call[d]
          \/ /\ d \notin granted /\ call[d].pc = "queued" /\ call'[d].pc = "queued"
             /\ call'[d].age = call[d].age /\ call'[d].served = AtMost(call[d].served + n, QueueTicks)
    BY <1>6, <1>7, <1>10
<1>12. RLTypeOK'
    <2>1. untilPoll' \in 0 .. PollTicks /\ Len(queue') <= QueueLimit
        BY <1>1, <1>2, <1>4, <1>9, Constants
    <2>. QED BY <1>1, <1>5, <1>9, <1>10, <2>1 DEF RLTypeOK, CallRec, Full
<1>13. QueueIsExact'
    <2>1. \A d \in Callers : call'[d].pc = "queued" <=> call[d].pc = "queued" /\ d \notin granted
        BY <1>11
    <2>. QED BY <1>8, <1>9, <2>1 DEF QueueIsExact
<1>14. NoWaiterToClosing' /\ IdleInv' /\ LimitedInv'
    BY <1>1, <1>11 DEF NoWaiterToClosing, IdleInv, LimitedInv
<1>15. TurnInv'
    <2> SUFFICES ASSUME NEW d \in Callers, call'[d].pc = "queued"
                 PROVE  call'[d].served = QueueTicks \/ \E k \in Nat : Served(d, k)'
        BY DEF TurnInv
    <2>1. /\ call[d].pc = "queued" /\ d \notin granted /\ call'[d].age = call[d].age
          /\ call'[d].served = AtMost(call[d].served + n, QueueTicks)
        BY <1>11
    <2>2. Len(queue') # 0
        <3>1. d \in Elements(queue')
            BY <1>8, <1>9, <2>1
        <3>. QED BY <1>9, <3>1 DEF Elements
    <2>3. n = r.tokens
        BY <1>2, <1>4, <1>9, <2>2
    <2>4. PollTicks \in Nat /\ elapsed' \in Nat /\ call[d].age \in Nat /\ call[d].served \in Nat /\ call[d].served <= QueueTicks
        BY <1>2, <1>5, RecordFacts, Constants, FullFacts
    <2>5. CASE n >= 1
        <3>1. PICK K \in Nat : K >= 1 /\ Period = K * PollTicks /\ Period \in Nat /\ Period >= TokenTicks
            BY PeriodFacts
        <3>2. K - 1 \in Nat /\ (K - 1) * PollTicks = K * PollTicks - PollTicks
            BY <3>1, Constants
        <3>3. /\ untilPoll' \in Nat /\ untilPoll' + (K - 1) * PollTicks <= untilPoll + Period
              /\ untilPoll' + (K - 1) * PollTicks >= TokenTicks
            BY <1>1, <2>4, <3>1, <3>2, Constants
        <3> DEFINE k == K - 1
        <3>4. k \in Nat /\ untilPoll' + k * PollTicks <= untilPoll + Period /\ untilPoll' + k * PollTicks >= TokenTicks
            BY <3>2, <3>3
        <3> HIDE DEF k
        <3>5. call'[d].served = QueueTicks \/ Served(d, k)'
            BY <1>1, <1>4, <2>1, <2>4, <2>5, <3>3, <3>4, AfterGrant
        <3>. QED BY <3>4, <3>5
    <2>6. CASE n = 0
        <3>1. call'[d].served = call[d].served
            BY <2>1, <2>4, <2>6, Constants DEF AtMost
        <3>2. tokens < 1 /\ elapsed < TokenTicks /\ elapsed' = elapsed /\ tokens' = tokens
            BY <1>1, <1>2, <1>3, <2>3, <2>6, Constants, FullFacts
        <3>3. CASE call[d].served = QueueTicks
            BY <3>1, <3>3
        <3>4. CASE \E k \in Nat : Served(d, k)
            <4>1. PICK k \in Nat : Served(d, k)
                BY <3>4
            <4>2. /\ call[d].age + 0 + k * PollTicks <= Bound(call[d].served)
                  /\ elapsed + 0 + k * PollTicks >= TokenTicks
                BY <1>1, <1>2, <3>2, <4>1, Constants DEF Served
            <4>3. k # 0
                <5> SUFFICES ASSUME k = 0 PROVE FALSE
                    OBVIOUS
                <5>1. k * PollTicks = 0
                    BY Constants
                <5>. QED BY <1>2, <3>2, <4>2, <5>1, Constants, FullFacts
            <4> DEFINE m == k - 1
                       x == k * PollTicks
                       b == Bound(call[d].served)
            <4>4. m \in Nat /\ m * PollTicks = x - PollTicks /\ x \in Nat /\ b \in Nat
                BY <2>4, <4>3, BoundFacts, Constants, Product
            <4>5. call[d].age + 0 + x <= b /\ elapsed + 0 + x >= TokenTicks
                BY <4>2
            <4> HIDE DEF m, x, b
            <4>6. call'[d].age + untilPoll' + m * PollTicks <= b /\ elapsed' + untilPoll' + m * PollTicks >= TokenTicks
                <5>1. call[d].age + PollTicks + (x - PollTicks) <= b /\ elapsed + PollTicks + (x - PollTicks) >= TokenTicks
                    BY <2>4, <3>2, <4>4, <4>5, Constants
                <5>. QED BY <1>1, <2>1, <3>2, <4>4, <5>1
            <4>7. b = Bound(call'[d].served)
                BY <3>1 DEF b
            <4>8. Served(d, m)'
                BY <4>6, <4>7 DEF Served, Bound, Period
            <4>. QED BY <4>4, <4>8
        <3>. QED BY <1>1, <2>1, <3>3, <3>4 DEF TurnInv
    <2>. QED BY <1>4, <2>5, <2>6
<1>. QED BY <1>5, <1>12, <1>13, <1>14, <1>15

-----------------------------------------------------------------------------
(***************************************************************************)
(* src/utils/rate-limiter.ts and callTool(): for any number of callers and *)
(* any rate, burst, timer and time limit, the limiter of a connection      *)
(* never lets through more than the burst and the rate allow, less than    *)
(* one token over; no token lies idle while someone waits; the queue is    *)
(* exact; and nobody who has waited is sent to a connection that is being  *)
(* closed.  A connection the reconnect timer made has no limiter, and the  *)
(* theorem says nothing about its rate.                                    *)
(***************************************************************************)
THEOREM LimiterCorrect == RLSpec => []RLInv
<1>1. RLIInv /\ [RLNext]_rlVars => RLIInv'
    <2> SUFFICES ASSUME RLIInv, [RLNext]_rlVars PROVE RLIInv'
        OBVIOUS
    <2>1. CASE UNCHANGED rlVars
        BY <2>1 DEF rlVars, RLIInv, RLTypeOK, QueueIsExact, NoWaiterToClosing, RateInv, TurnInv, IdleInv, LimitedInv, Served
    <2>2. CASE \E c \in Callers : callTool(c) \/ callUnlimited(c) \/ timeout(c) \/ leakedGrant(c) \/ answer(c)
        BY <2>2, CallToolStep, UnlimitedStep, TimeoutStep, LeakedStep, AnswerStep
    <2>3. CASE poll
        BY <2>3, PollStep
    <2>4. CASE lost \/ destroy \/ reopen \/ tick
        BY <2>4, LostStep, DestroyStep, ReopenStep, TickStep
    <2>. QED BY <2>1, <2>2, <2>3, <2>4 DEF RLNext
<1>. QED BY <1>1, LimiterInit, ImpliesRLInv, PTL DEF RLSpec

-----------------------------------------------------------------------------
(***************************************************************************)
(* Executor: any executions and limit of processes.                        *)
(*                                                                         *)
(* ActiveInv ties the map the limit is checked on to the processes that    *)
(* live, WaitingInv the signals a process was given to what its execution  *)
(* knows of them.                                                          *)
(***************************************************************************)

ExecRec == [pc : {"idle", "checking", "running", "returned"},
            outcome : Outcomes \cup {"none"}, killed : BOOLEAN, cancelled : BOOLEAN,
            aborted : BOOLEAN, escalation : BOOLEAN]
ProcRec == [state : {"none", "alive", "term", "exited", "closed"},
            printed : {"nothing", "success", "failure", "syntax", "runtime"}]

\* The map of processes is within its limit and has everything that lives.
ActiveInv ==
    /\ IsFiniteSet(activeProcesses)
    /\ Cardinality(activeProcesses) <= MaxConcurrentProcesses
    /\ Living \subseteq activeProcesses

\* Who has a process that has not closed is waiting for it, and knows of the
\* signal that was given while it waits.
WaitingInv ==
    \A e \in Executions :
        /\ process[e].state \in {"alive", "term", "exited"} => exec[e].pc = "running"
        /\ exec[e].pc = "running" /\ exec[e].aborted => exec[e].cancelled

ExecutorInv ==
    EXTypeOK /\ ActiveInv /\ WaitingInv /\ NoneOutlivesShutdown /\ CancellationIsReported

LEMMA ExecutorTyped ==
    EXTypeOK <=> /\ exec \in [Executions -> ExecRec]
                 /\ process \in [Executions -> ProcRec]
                 /\ activeProcesses \subseteq Executions
                 /\ denoAvailable \in {"unknown", "yes", "no"}
                 /\ shutting \in {"up", "killing", "down"}
BY DEF EXTypeOK, ExecRec, ProcRec

LEMMA LivingWithinLimit ==
    ASSUME ActiveInv
    PROVE  LivingAreActive
<1>1. IsFiniteSet(Living) /\ Cardinality(Living) <= Cardinality(activeProcesses)
    BY FS_Subset DEF ActiveInv
<1>2. Cardinality(Living) \in Nat /\ Cardinality(activeProcesses) \in Nat
    BY <1>1, FS_CardinalityType DEF ActiveInv
<1>. QED BY <1>1, <1>2, ExecutorAssumption DEF ActiveInv, LivingAreActive

LEMMA ExecutorInit == EXInit => ExecutorInv
<1> SUFFICES ASSUME EXInit PROVE ExecutorInv
    OBVIOUS
<1>1. EXTypeOK
    BY DEF EXInit, EXTypeOK, NotStarted, NoProcess
<1>2. Living = {}
    BY DEF EXInit, NoProcess, Living
<1>3. ActiveInv
    BY <1>2, FS_EmptySet, ExecutorAssumption DEF EXInit, ActiveInv
<1>4. WaitingInv /\ NoneOutlivesShutdown /\ CancellationIsReported
    BY <1>2 DEF EXInit, WaitingInv, NoneOutlivesShutdown, CancellationIsReported, NotStarted, NoProcess
<1>. QED BY <1>1, <1>3, <1>4 DEF ExecutorInv

\* A step that spawns nothing and takes from the map only what is dead keeps
\* the accounting.
LEMMA NothingSpawned ==
    ASSUME ExecutorInv,
           activeProcesses' \subseteq activeProcesses,
           Living' \subseteq Living,
           Living' \subseteq activeProcesses'
    PROVE  ActiveInv' 
<1>1. /\ IsFiniteSet(activeProcesses')
      /\ Cardinality(activeProcesses') <= Cardinality(activeProcesses)
    BY FS_Subset DEF ExecutorInv, ActiveInv
<1>2. Cardinality(activeProcesses') \in Nat /\ Cardinality(activeProcesses) \in Nat
    BY <1>1, FS_CardinalityType DEF ExecutorInv, ActiveInv
<1>. QED BY <1>1, <1>2, ExecutorAssumption DEF ExecutorInv, ActiveInv

\* runDeno(), from execute() and from checkDeno().
LEMMA RunDenoStep ==
    ASSUME ExecutorInv, NEW e \in Executions, exec[e].pc \in {"idle", "checking"},
           runDeno(e), denoAvailable' \in {"unknown", "yes", "no"}, UNCHANGED shutting
    PROVE  ExecutorInv'
<1>0. /\ exec \in [Executions -> ExecRec] /\ process \in [Executions -> ProcRec]
      /\ activeProcesses \subseteq Executions /\ shutting \in {"up", "killing", "down"}
    BY ExecutorTyped DEF ExecutorInv
<1>1. CASE NotSpawned(e, Refused(MaxConcurrentProcesses))
    <2>1. PICK o \in {"threw", "refused"} :
            /\ exec' = [exec EXCEPT ![e] = Returned(e, o)]
            /\ UNCHANGED <<process, activeProcesses>>
        BY <1>1 DEF NotSpawned
    <2>2. Living' = Living
        BY <2>1 DEF Living
    <2>3. EXTypeOK'
        <3>1. Returned(e, o) \in ExecRec
            BY <1>0, <2>1 DEF Returned, ExecRec, Outcomes
        <3>2. exec' \in [Executions -> ExecRec] /\ process' \in [Executions -> ProcRec]
            BY <1>0, <2>1, <3>1
        <3>. QED BY <1>0, <2>1, <3>2 DEF EXTypeOK, ExecRec, ProcRec
    <2>4. ActiveInv'
        BY <2>1, <2>2, NothingSpawned DEF ExecutorInv, ActiveInv
    <2>5. WaitingInv' /\ CancellationIsReported' /\ NoneOutlivesShutdown'
        BY <1>0, <2>1, <2>2 DEF ExecutorInv, WaitingInv, CancellationIsReported, NoneOutlivesShutdown,
           Returned, ExecRec
    <2>. QED BY <2>3, <2>4, <2>5 DEF ExecutorInv
<1>2. CASE ~Refused(MaxConcurrentProcesses) /\ Spawned(e, exec[e].aborted)
    <2> DEFINE a == exec[e].aborted
               r == [exec[e] EXCEPT !.pc = "running", !.killed = a, !.cancelled = a, !.escalation = a]
    <2>0. /\ a \in BOOLEAN /\ r \in ExecRec
          /\ r.pc = "running" /\ r.cancelled = a /\ r.aborted = a
        BY <1>0 DEF ExecRec
    <2>1. /\ activeProcesses' = activeProcesses \cup {e}
          /\ process' = [process EXCEPT ![e] = [state |-> IF a THEN "term" ELSE "alive", printed |-> "nothing"]]
          /\ exec' = [exec EXCEPT ![e] = r]
        <3>1. activeProcesses' = activeProcesses \cup {e}
            BY <1>2 DEF Spawned
        <3>2. process' = [process EXCEPT ![e] = [state |-> IF a THEN "term" ELSE "alive", printed |-> "nothing"]]
            <4>1. \A x : [NoProcess EXCEPT !.state = x] = [state |-> x, printed |-> "nothing"]
                BY DEF NoProcess
            <4>2. process' = [process EXCEPT ![e] = [NoProcess EXCEPT !.state = IF a THEN "term" ELSE "alive"]]
                BY <1>2 DEF Spawned
            <4>. QED BY <4>1, <4>2
        <3>3. exec' = [exec EXCEPT ![e].pc = "running", ![e].killed = a, ![e].cancelled = a, ![e].escalation = a]
            BY <1>2 DEF Spawned
        <3>4. exec' = [exec EXCEPT ![e] = r]
            BY <1>0, <3>3
        <3>. QED BY <3>1, <3>2, <3>4
    <2>2. shutting = "up" /\ ~(Cardinality(activeProcesses) >= MaxConcurrentProcesses)
        BY <1>2 DEF Refused
    <2>3. EXTypeOK'
        <3>1. exec' \in [Executions -> ExecRec]
            BY <1>0, <2>0, <2>1
        <3>2. process' \in [Executions -> ProcRec]
            BY <1>0, <2>0, <2>1 DEF ProcRec
        <3>. QED BY <1>0, <2>1, <3>1, <3>2 DEF EXTypeOK, ExecRec, ProcRec
    <2>4. ActiveInv'
        <3>1. Living' \subseteq activeProcesses'
            BY <1>0, <2>1 DEF Living, ExecutorInv, ActiveInv
        <3>2. Cardinality(activeProcesses) \in Nat /\ IsFiniteSet(activeProcesses)
            BY FS_CardinalityType DEF ExecutorInv, ActiveInv
        <3>3. IsFiniteSet(activeProcesses') /\ Cardinality(activeProcesses') <= Cardinality(activeProcesses) + 1
            BY <2>1, <3>2, FS_AddElement
        <3>4. Cardinality(activeProcesses') \in Nat
            BY <3>3, FS_CardinalityType
        <3>. QED BY <2>2, <3>1, <3>2, <3>3, <3>4, ExecutorAssumption DEF ActiveInv
    <2>5. WaitingInv' /\ CancellationIsReported'
        <3> HIDE DEF r
        <3>. QED BY <1>0, <2>0, <2>1 DEF ExecutorInv, WaitingInv, CancellationIsReported, ExecRec, ProcRec
    <2>6. NoneOutlivesShutdown'
        BY <2>2 DEF NoneOutlivesShutdown
    <2>. QED BY <2>3, <2>4, <2>5, <2>6 DEF ExecutorInv
<1>. QED BY <1>1, <1>2 DEF runDeno

\* A step that only changes what a call knows or is told.
LEMMA ExecutionStep ==
    ASSUME ExecutorInv, NEW e \in Executions, NEW r \in ExecRec,
           exec' = [exec EXCEPT ![e] = r], UNCHANGED <<process, activeProcesses, shutting>>,
           denoAvailable' \in {"unknown", "yes", "no"},
           process[e].state \in {"alive", "term", "exited"} => r.pc = "running",
           r.pc = "running" /\ r.aborted => r.cancelled,
           r.pc = "returned" /\ r.aborted => r.outcome \in {"cancelled", "notStarted", "noDeno", "refused", "spawnFailed", "threw"}
    PROVE  ExecutorInv'
<1>0. exec \in [Executions -> ExecRec]
    BY ExecutorTyped DEF ExecutorInv
<1>1. Living' = Living
    BY DEF Living
<1>2. EXTypeOK'
    BY <1>0 DEF ExecutorInv, EXTypeOK, ExecRec
<1>3. ActiveInv'
    BY <1>1, NothingSpawned DEF ExecutorInv, ActiveInv
<1>4. WaitingInv' /\ CancellationIsReported' /\ NoneOutlivesShutdown'
    BY <1>0, <1>1 DEF ExecutorInv, WaitingInv, CancellationIsReported, NoneOutlivesShutdown
<1>. QED BY <1>2, <1>3, <1>4 DEF ExecutorInv

\* A step that signals, ends or prints in processes, and what the call of one
\* of them notes about it.
LEMMA ProcessStep ==
    ASSUME ExecutorInv, NEW e \in Executions, NEW r \in ExecRec,
           exec' = [exec EXCEPT ![e] = r], process' \in [Executions -> ProcRec],
           UNCHANGED <<activeProcesses, shutting>>, denoAvailable' \in {"unknown", "yes", "no"},
           r.pc = exec[e].pc, r.outcome = exec[e].outcome,
           r.pc = "running" /\ r.aborted => r.cancelled,
           r.pc = "returned" => r.aborted = exec[e].aborted,
           \A x \in Executions :
              /\ process'[x].state \in {"alive", "term"} => process[x].state \in {"alive", "term"}
              /\ process'[x].state = "exited" => process[x].state \in {"alive", "term", "exited"}
    PROVE  ExecutorInv'
<1>0. exec \in [Executions -> ExecRec]
    BY ExecutorTyped DEF ExecutorInv
<1>1. Living' \subseteq Living
    BY DEF Living
<1>2. EXTypeOK'
    <2>1. exec' \in [Executions -> ExecRec]
        BY <1>0
    <2>. QED BY <2>1, ExecutorTyped DEF ExecutorInv, EXTypeOK, ExecRec, ProcRec
<1>3. ActiveInv'
    BY <1>1, NothingSpawned DEF ExecutorInv, ActiveInv
<1>4. WaitingInv'
    BY <1>0 DEF ExecutorInv, WaitingInv
<1>5. CancellationIsReported' /\ NoneOutlivesShutdown'
    BY <1>0, <1>1 DEF ExecutorInv, CancellationIsReported, NoneOutlivesShutdown
<1>. QED BY <1>2, <1>3, <1>4, <1>5 DEF ExecutorInv

\* proc.on('close') and proc.on('error').
LEMMA EndStep ==
    ASSUME ExecutorInv, NEW e \in Executions, NEW o \in Outcomes,
           process[e].state \in {"alive", "term", "exited"},
           process' = [process EXCEPT ![e].state = "closed"],
           activeProcesses' = activeProcesses \ {e},
           exec' = [exec EXCEPT ![e] = Returned(e, o)],
           exec[e].cancelled => o \in {"cancelled", "spawnFailed"},
           denoAvailable' \in {"unknown", "yes", "no"}, UNCHANGED shutting
    PROVE  ExecutorInv'
<1>0. /\ exec \in [Executions -> ExecRec] /\ process \in [Executions -> ProcRec]
      /\ activeProcesses \subseteq Executions /\ shutting \in {"up", "killing", "down"}
    BY ExecutorTyped DEF ExecutorInv
<1>1. Living' \subseteq Living /\ e \notin Living'
    BY <1>0 DEF Living, ProcRec
<1>2. EXTypeOK'
    <2>1. Returned(e, o) \in ExecRec
        BY <1>0 DEF Returned, ExecRec
    <2>2. exec' \in [Executions -> ExecRec]
        BY <1>0, <2>1
    <2>3. process' \in [Executions -> ProcRec]
        BY <1>0 DEF ProcRec
    <2>. QED BY <1>0, <2>2, <2>3 DEF EXTypeOK, ExecRec, ProcRec
<1>3. ActiveInv'
    BY <1>1, NothingSpawned DEF ExecutorInv, ActiveInv
<1>4. WaitingInv' /\ CancellationIsReported'
    BY <1>0 DEF ExecutorInv, WaitingInv, CancellationIsReported, Returned, ExecRec, ProcRec
<1>5. NoneOutlivesShutdown'
    BY <1>1 DEF ExecutorInv, NoneOutlivesShutdown
<1>. QED BY <1>2, <1>3, <1>4, <1>5 DEF ExecutorInv

LEMMA SignalledType ==
    ASSUME NEW p \in ProcRec, NEW to \in {"term", "exited"}
    PROVE  /\ Signalled(p, to) \in ProcRec
           /\ Signalled(p, to).state \in {"alive", "term"} => p.state \in {"alive", "term"}
           /\ Signalled(p, to).state = "exited" => p.state \in {"alive", "term", "exited"}
           /\ to = "exited" => Signalled(p, to).state \notin {"alive", "term"}
BY DEF Signalled, ProcRec

LEMMA ExecutorStep ==
    ASSUME ExecutorInv, [EXNext]_exVars
    PROVE  ExecutorInv'
<1>0. /\ exec \in [Executions -> ExecRec] /\ process \in [Executions -> ProcRec]
      /\ activeProcesses \subseteq Executions /\ shutting \in {"up", "killing", "down"}
      /\ denoAvailable \in {"unknown", "yes", "no"}
    BY ExecutorTyped DEF ExecutorInv
<1>1. ASSUME NEW e \in Executions, execute(e) PROVE ExecutorInv'
    <2>0. exec[e] \in ExecRec /\ exec[e].pc = "idle" /\ process[e].state \in {"none", "closed"}
        BY <1>0, <1>1 DEF execute, ExecutorInv, WaitingInv, ProcRec
    <2>1. CASE denoAvailable = "yes" /\ runDeno(e)
        BY <1>0, <1>1, <2>0, <2>1, RunDenoStep DEF execute
    <2>2. CASE /\ \/ exec' = [exec EXCEPT ![e] = Returned(e, "notStarted")]
                  \/ exec' = [exec EXCEPT ![e] = Returned(e, "noDeno")]
               /\ UNCHANGED <<process, activeProcesses>>
        <3>1. PICK o \in {"notStarted", "noDeno"} : exec' = [exec EXCEPT ![e] = Returned(e, o)]
            BY <2>2
        <3>2. Returned(e, o) \in ExecRec /\ Returned(e, o).pc = "returned" /\ Returned(e, o).outcome = o
            BY <2>0, <3>1 DEF Returned, ExecRec, Outcomes
        <3>. QED BY <1>0, <1>1, <2>0, <2>2, <3>1, <3>2, ExecutionStep DEF execute
    <2>3. CASE /\ exec' = [exec EXCEPT ![e].pc = "checking"]
               /\ UNCHANGED <<process, activeProcesses>>
        <3> DEFINE r == [exec[e] EXCEPT !.pc = "checking"]
        <3>1. r \in ExecRec /\ r.pc = "checking" /\ exec' = [exec EXCEPT ![e] = r]
            BY <1>0, <2>0, <2>3 DEF ExecRec
        <3> HIDE DEF r
        <3>. QED BY <1>0, <1>1, <2>0, <2>3, <3>1, ExecutionStep DEF execute
    <2>. QED BY <1>1, <2>1, <2>2, <2>3 DEF execute
<1>2. ASSUME NEW e \in Executions, checkDeno(e) PROVE ExecutorInv'
    <2>0. exec[e] \in ExecRec /\ exec[e].pc = "checking" /\ process[e].state \in {"none", "closed"}
        BY <1>0, <1>2 DEF checkDeno, ExecutorInv, WaitingInv, ProcRec
    <2>1. CASE denoAvailable' = "yes" /\ runDeno(e)
        BY <1>0, <1>2, <2>0, <2>1, RunDenoStep DEF checkDeno
    <2>2. CASE /\ denoAvailable' = "no"
               /\ exec' = [exec EXCEPT ![e] = Returned(e, "noDeno")]
               /\ UNCHANGED <<process, activeProcesses>>
        <3>1. /\ Returned(e, "noDeno") \in ExecRec /\ Returned(e, "noDeno").pc = "returned"
              /\ Returned(e, "noDeno").outcome = "noDeno"
            BY <2>0 DEF Returned, ExecRec, Outcomes
        <3>. QED BY <1>0, <1>2, <2>0, <2>2, <3>1, ExecutionStep DEF checkDeno
    <2>. QED BY <1>2, <2>1, <2>2 DEF checkDeno
<1>3. ASSUME NEW e \in Executions, abort(e) PROVE ExecutorInv'
    <2>0. exec[e] \in ExecRec /\ process[e] \in ProcRec
        BY <1>0
    <2>1. CASE exec[e].pc = "running"
        <3> DEFINE r == [exec[e] EXCEPT !.aborted = TRUE, !.killed = TRUE, !.cancelled = TRUE, !.escalation = TRUE]
        <3>1. exec' = [exec EXCEPT ![e] = r] /\ process' = [process EXCEPT ![e] = Signalled(process[e], "term")]
            BY <1>0, <1>3, <2>1 DEF abort, ExecRec
        <3>2. r \in ExecRec /\ r.pc = exec[e].pc /\ r.outcome = exec[e].outcome /\ r.cancelled
            BY <2>0 DEF ExecRec
        <3>3. UNCHANGED <<activeProcesses, denoAvailable, shutting>>
            BY <1>3 DEF abort
        <3> HIDE DEF r
        <3>4. process' \in [Executions -> ProcRec]
            BY <1>0, <3>1, SignalledType
        <3>5. \A x \in Executions :
                /\ process'[x].state \in {"alive", "term"} => process[x].state \in {"alive", "term"}
                /\ process'[x].state = "exited" => process[x].state \in {"alive", "term", "exited"}
            BY <1>0, <3>1, SignalledType
        <3>. QED BY <1>0, <2>1, <3>1, <3>2, <3>3, <3>4, <3>5, ProcessStep
    <2>2. CASE exec[e].pc # "running"
        <3> DEFINE r == [exec[e] EXCEPT !.aborted = TRUE]
        <3>1. exec' = [exec EXCEPT ![e] = r] /\ exec[e].pc # "returned"
              /\ UNCHANGED <<process, activeProcesses, denoAvailable, shutting>>
            BY <1>0, <1>3, <2>2 DEF abort, ExecRec
        <3>2. r \in ExecRec /\ r.pc = exec[e].pc
            BY <2>0 DEF ExecRec
        <3> HIDE DEF r
        <3>3. process[e].state \notin {"alive", "term", "exited"}
            BY <2>2 DEF ExecutorInv, WaitingInv
        <3>. QED BY <1>0, <2>2, <3>1, <3>2, <3>3, ExecutionStep
    <2>. QED BY <2>1, <2>2
<1>4. ASSUME NEW e \in Executions, escalate(e) \/ timeLimit(e) PROVE ExecutorInv'
    <2>0. exec[e] \in ExecRec /\ process[e] \in ProcRec
        BY <1>0
    <2>1. PICK r \in ExecRec :
            /\ exec' = [exec EXCEPT ![e] = r]
            /\ r.pc = exec[e].pc /\ r.outcome = exec[e].outcome /\ r.aborted = exec[e].aborted
            /\ r.cancelled = exec[e].cancelled
        <3>1. CASE escalate(e)
            <4> DEFINE r == [exec[e] EXCEPT !.escalation = FALSE]
            <4>1. exec' = [exec EXCEPT ![e] = r] /\ r \in ExecRec
                BY <1>0, <2>0, <3>1 DEF escalate, ExecRec
            <4>. QED BY <2>0, <4>1 DEF ExecRec
        <3>2. CASE timeLimit(e)
            <4> DEFINE r == [exec[e] EXCEPT !.killed = TRUE]
            <4>1. exec' = [exec EXCEPT ![e] = r] /\ r \in ExecRec
                BY <1>0, <2>0, <3>2 DEF timeLimit, ExecRec
            <4>. QED BY <2>0, <4>1 DEF ExecRec
        <3>. QED BY <1>4, <3>1, <3>2
    <2>2. /\ process' = process \/ process' = [process EXCEPT ![e] = Signalled(process[e], "exited")]
          /\ UNCHANGED <<activeProcesses, denoAvailable, shutting>>
        BY <1>4 DEF escalate, timeLimit
    <2>3. process' \in [Executions -> ProcRec]
        BY <1>0, <2>2, SignalledType
    <2>4. \A x \in Executions :
                /\ process'[x].state \in {"alive", "term"} => process[x].state \in {"alive", "term"}
                /\ process'[x].state = "exited" => process[x].state \in {"alive", "term", "exited"}
        BY <1>0, <2>2, SignalledType
    <2>5. r.pc = "running" /\ r.aborted => r.cancelled
        BY <2>1 DEF ExecutorInv, WaitingInv
    <2>. QED BY <1>0, <2>1, <2>2, <2>3, <2>4, <2>5, ProcessStep
<1>5. ASSUME NEW e \in Executions, prints(e) \/ exits(e) \/ forceKill(e) PROVE ExecutorInv'
    <2>1. exec' = [exec EXCEPT ![e] = exec[e]] /\ UNCHANGED <<activeProcesses, denoAvailable, shutting>>
        BY <1>0, <1>5 DEF prints, exits, forceKill
    <2>2. /\ process' \in [Executions -> ProcRec]
          /\ \A x \in Executions :
                /\ process'[x].state \in {"alive", "term"} => process[x].state \in {"alive", "term"}
                /\ process'[x].state = "exited" => process[x].state \in {"alive", "term", "exited"}
        <3>1. CASE prints(e)
            BY <1>0, <3>1 DEF prints, ProcRec
        <3>2. CASE exits(e)
            BY <1>0, <3>2 DEF exits, ProcRec
        <3>3. CASE forceKill(e)
            BY <1>0, <3>3, SignalledType DEF forceKill
        <3>. QED BY <1>5, <3>1, <3>2, <3>3
    <2>3. exec[e] \in ExecRec /\ (exec[e].pc = "running" /\ exec[e].aborted => exec[e].cancelled)
        BY <1>0 DEF ExecutorInv, WaitingInv
    <2>. QED BY <1>0, <2>1, <2>2, <2>3, ProcessStep
<1>6. ASSUME NEW e \in Executions, close(e) PROVE ExecutorInv'
    <2>1. exec[e] \in ExecRec /\ process[e] \in ProcRec
        BY <1>0
    <2>2. Verdict(e) \in Outcomes /\ (exec[e].cancelled => Verdict(e) = "cancelled")
        BY <2>1 DEF Verdict, Outcomes, ProcRec
    <2>. QED BY <1>0, <1>6, <2>2, EndStep DEF close
<1>7. ASSUME NEW e \in Executions, spawnError(e) PROVE ExecutorInv'
    <2>1. "spawnFailed" \in Outcomes
        BY DEF Outcomes
    <2>2. denoAvailable' \in {"unknown", "yes", "no"}
        BY <1>0, <1>7 DEF spawnError
    <2>. QED BY <1>7, <2>1, <2>2, EndStep DEF spawnError
<1>8. CASE executorShutdown
    <2>1. process' \in [Executions -> ProcRec]
        BY <1>0, <1>8, SignalledType DEF executorShutdown
    <2>2. \A x \in Executions :
            /\ process'[x].state \in {"alive", "term"} => process[x].state \in {"alive", "term"}
            /\ process'[x].state = "exited" => process[x].state \in {"alive", "term", "exited"}
        BY <1>0, <1>8, SignalledType DEF executorShutdown
    <2>3. Living' \subseteq Living
        BY <2>2 DEF Living
    <2>4. EXTypeOK'
        <3>1. /\ shutting' \in {"up", "killing", "down"}
              /\ UNCHANGED <<exec, activeProcesses, denoAvailable>>
            BY <1>8 DEF executorShutdown
        <3>. QED BY <1>0, <2>1, <3>1 DEF EXTypeOK, ProcRec, ExecRec
    <2>5. ActiveInv'
        BY <1>8, <2>3, NothingSpawned DEF executorShutdown, ExecutorInv, ActiveInv
    <2>6. WaitingInv' /\ CancellationIsReported'
        BY <1>8, <2>2 DEF executorShutdown, ExecutorInv, WaitingInv, CancellationIsReported
    <2>7. NoneOutlivesShutdown'
        BY <1>8, <2>3 DEF executorShutdown, ExecutorInv, ActiveInv, NoneOutlivesShutdown
    <2>. QED BY <2>4, <2>5, <2>6, <2>7 DEF ExecutorInv
<1>9. CASE shutdownDone
    <2>1. Living' = {}
        BY <1>9 DEF shutdownDone, Living, ExecutorInv, ActiveInv
    <2>2. EXTypeOK'
        BY <1>0, <1>9 DEF shutdownDone, EXTypeOK, ProcRec, ExecRec
    <2>3. ActiveInv'
        BY <1>9, <2>1, NothingSpawned DEF shutdownDone, ExecutorInv, ActiveInv
    <2>4. WaitingInv' /\ CancellationIsReported'
        BY <1>9 DEF shutdownDone, ExecutorInv, WaitingInv, CancellationIsReported
    <2>. QED BY <2>1, <2>2, <2>3, <2>4 DEF ExecutorInv, NoneOutlivesShutdown
<1>10. CASE UNCHANGED exVars
    <2>1. Living' = Living
        BY <1>10 DEF exVars, Living
    <2>. QED BY <1>10, <2>1 DEF exVars, ExecutorInv, EXTypeOK, ActiveInv, WaitingInv, CancellationIsReported,
         NoneOutlivesShutdown
<1>. QED BY <1>1, <1>2, <1>3, <1>4, <1>5, <1>6, <1>7, <1>8, <1>9, <1>10 DEF EXNext

\* There are never more living processes than the limit, shutdown() knows each
\* of them and leaves none, and who cancelled is told so (EXInv).
THEOREM ExecutorCorrect == EXSpec => []EXInv
<1>1. ExecutorInv => EXInv
    BY LivingWithinLimit DEF ExecutorInv, EXInv
<1>2. EXInit => ExecutorInv
    BY ExecutorInit
<1>3. ExecutorInv /\ [EXNext]_exVars => ExecutorInv'
    BY ExecutorStep
<1>. QED BY <1>1, <1>2, <1>3, PTL DEF EXSpec

-----------------------------------------------------------------------------
(***************************************************************************)
(* Sandbox: any number of calls in a batch, any servers.                   *)
(*                                                                         *)
(* What a batch returns depends on where each of its calls is: in flight,  *)
(* answered, limited, or not yet sent in the repetition, which takes them  *)
(* in order.                                                               *)
(***************************************************************************)

\* What is in flight: between batches nothing; in the repetition only the
\* first call that is left; in the parallel attempt every call was sent once,
\* and to no server that is known to limit the rate.
FlightInv ==
    /\ batchPhase \in {"code", "finished"} => \A i \in CallIds : flight[i] # "sent"
    /\ batchPhase = "serial" =>
          \A i \in CallIds : flight[i] = "sent" => i \in todo /\ i = First(todo)
    /\ batchPhase = "parallel" /\ ~plain => \A i \in CallIds : target[i] \notin limitedServers
    /\ batchPhase = "parallel" => \A i \in CallIds : target[i] \in Servers

\* How often a call was sent, and what is known of its first answer.
SentInv ==
    /\ batchPhase = "parallel" =>
          \A i \in CallIds : sent[i] = 1 /\ (flight[i] = "limited" => firstAnswer[i] = "limited")
    /\ batchPhase = "serial" =>
          \A i \in todo : flight[i] = "idle" => sent[i] = 0 \/ (sent[i] = 1 /\ firstAnswer[i] = "limited")

\* The results that are there, in their places.
PlacedInv == batchPhase = "serial" => todo # {} /\ \A i \in CallIds \ todo : results[i] = i

SandboxInv == SBInv /\ FlightInv /\ SentInv /\ PlacedInv

LEMMA CallIdFacts == CallIds \subseteq Nat /\ CallIds # {} /\ 0 \notin CallIds
BY SandboxAssumption DEF CallIds

\* The least call of those that are left.
LEMMA FirstIsLeast ==
    ASSUME NEW T, T \subseteq Nat, T # {}
    PROVE  First(T) \in T
<1> DEFINE Less == {ss \in Nat \X Nat : ss[1] < ss[2]}
<1>1. IsWellFoundedOn(Less, Nat)
    BY NatLessThanWellFounded DEF OpToRel
<1>2. \A x, y \in Nat : x < y => <<x, y>> \in Less
    OBVIOUS
<1> HIDE DEF Less
<1>3. PICK x \in T : \A y \in T : <<y, x>> \notin Less
    BY <1>1, WFMin
<1>4. \A y \in T : x <= y
    <2>1. \A y \in T : ~(y < x)
        BY <1>2, <1>3
    <2>. QED BY <1>3, <2>1
<1>. QED BY <1>3, <1>4 DEF First

LEMMA SandboxInit == SBInit => SandboxInv
<1> SUFFICES ASSUME SBInit PROVE SandboxInv
    OBVIOUS
<1>1. batches \in 0 .. MaxBatches /\ sent \in [CallIds -> 0 .. 2]
    BY SandboxAssumption DEF SBInit
<1>2. SBTypeOK
    BY <1>1 DEF SBInit, SBTypeOK
<1>3. SBInv
    BY <1>2 DEF SBInit, SBInv, ResultsInPlace, RepeatsOnlyLimited, KnownLimitIsRespected
<1>. QED BY <1>3 DEF SBInit, SandboxInv, FlightInv, SentInv, PlacedInv

\* KnownLimitIsRespected follows from what is in flight.
LEMMA InFlightNext ==
    ASSUME SBTypeOK', FlightInv'
    PROVE  KnownLimitIsRespected'
BY DEF SBTypeOK, FlightInv, KnownLimitIsRespected

\* mcp.batch() up to its first await.
LEMMA BatchStep ==
    ASSUME SandboxInv, NEW tgt \in [CallIds -> Servers], NEW callbacks \in BOOLEAN,
           NEW forceParallel \in BOOLEAN, batch(tgt, callbacks, forceParallel)
    PROVE  SandboxInv'
<1> DEFINE serial == ~callbacks /\ ~forceParallel /\ HasKnownRateLimit(tgt)
<1>1. /\ batches > 0 /\ batches' = batches - 1 /\ target' = tgt /\ plain' = callbacks
      /\ limitedServers' = IF forceParallel /\ ~callbacks THEN limitedServers \ {tgt[i] : i \in CallIds}
                           ELSE limitedServers
      /\ batchPhase' = IF serial THEN "serial" ELSE "parallel"
      /\ todo' = IF serial THEN CallIds ELSE {}
      /\ flight' = [i \in CallIds |-> IF serial THEN "idle" ELSE "sent"]
      /\ sent' = [i \in CallIds |-> IF serial THEN 0 ELSE 1]
      /\ firstAnswer' = [i \in CallIds |-> "none"]
      /\ results' = [i \in CallIds |-> 0] /\ returned' = FALSE
    BY DEF batch
<1>2. SBTypeOK'
    <2>1. batches' \in 0 .. MaxBatches
        BY <1>1, SandboxAssumption DEF SandboxInv, SBInv, SBTypeOK
    <2>2. sent' \in [CallIds -> 0 .. 2]
        BY <1>1
    <2>. QED BY <1>1, <2>1, <2>2 DEF SandboxInv, SBInv, SBTypeOK
<1>3. FlightInv'
    <2>1. CASE serial
        BY <1>1, <2>1 DEF FlightInv
    <2>2. CASE ~serial /\ plain'
        BY <1>1, <2>2 DEF FlightInv
    <2>3. CASE ~serial /\ ~plain'
        <3>1. \A i \in CallIds : tgt[i] \notin limitedServers'
            BY <1>1, <2>3 DEF HasKnownRateLimit
        <3>. QED BY <1>1, <2>3, <3>1 DEF FlightInv
    <2>. QED BY <2>1, <2>2, <2>3
<1>4. SentInv' /\ PlacedInv'
    BY <1>1, CallIdFacts DEF SentInv, PlacedInv
<1>5. ResultsInPlace' /\ RepeatsOnlyLimited'
    BY <1>1 DEF ResultsInPlace, RepeatsOnlyLimited
<1>. QED BY <1>2, <1>3, <1>4, <1>5, InFlightNext DEF SandboxInv, SBInv

\* An answer.
LEMMA RespondStep ==
    ASSUME SandboxInv, NEW i \in CallIds, NEW said \in {"ok", "limited", "failed"}, respond(i, said)
    PROVE  SandboxInv'
<1>1. SBTypeOK'
    BY DEF SandboxInv, SBInv, SBTypeOK, respond
<1>2. FlightInv'
    BY DEF SandboxInv, SBInv, SBTypeOK, FlightInv, respond
<1>3. SentInv'
    BY DEF SandboxInv, SBInv, SBTypeOK, SentInv, respond
<1>4. PlacedInv' /\ ResultsInPlace'
    BY DEF SandboxInv, SBInv, PlacedInv, ResultsInPlace, respond
<1>5. RepeatsOnlyLimited'
    BY DEF SandboxInv, SBInv, SBTypeOK, RepeatsOnlyLimited, respond
<1>. QED BY <1>1, <1>2, <1>3, <1>4, <1>5, InFlightNext DEF SandboxInv, SBInv

\* A batch that throws leaves nothing in flight.
LEMMA ThrowStep ==
    ASSUME SandboxInv, throws
    PROVE  SandboxInv'
<1>1. SBTypeOK'
    BY DEF SandboxInv, SBInv, SBTypeOK, throws
<1>2. FlightInv' /\ SentInv' /\ PlacedInv'
    BY DEF FlightInv, SentInv, PlacedInv, throws
<1>3. ResultsInPlace' /\ RepeatsOnlyLimited'
    BY DEF SandboxInv, SBInv, ResultsInPlace, RepeatsOnlyLimited, throws
<1>. QED BY <1>1, <1>2, <1>3, InFlightNext DEF SandboxInv, SBInv

\* The end of the parallel attempt.
LEMMA AnsweredStep ==
    ASSUME SandboxInv, allAnswered
    PROVE  SandboxInv'
<1>1. ToRepeat \subseteq CallIds /\ \A i \in ToRepeat : ~plain /\ flight[i] = "limited"
    BY DEF ToRepeat
<1>2. SBTypeOK'
    <2>1. limitedServers' \subseteq Servers
        BY <1>1 DEF allAnswered, SandboxInv, SBInv, SBTypeOK, FlightInv
    <2>. QED BY <1>1, <2>1 DEF allAnswered, SandboxInv, SBInv, SBTypeOK
<1>3. FlightInv' /\ PlacedInv'
    BY <1>1 DEF FlightInv, PlacedInv, allAnswered
<1>4. SentInv'
    BY <1>1 DEF SandboxInv, SentInv, allAnswered
<1>5. ResultsInPlace' /\ RepeatsOnlyLimited'
    BY DEF SandboxInv, SBInv, ResultsInPlace, RepeatsOnlyLimited, allAnswered
<1>. QED BY <1>2, <1>3, <1>4, <1>5, InFlightNext DEF SandboxInv, SBInv

\* The next call of the repetition is sent.
LEMMA SendStep ==
    ASSUME SandboxInv, sendNext
    PROVE  SandboxInv'
<1> DEFINE f == First(todo)
<1>1. /\ batchPhase = "serial" /\ todo # {} /\ flight[f] = "idle"
      /\ flight' = [flight EXCEPT ![f] = "sent"] /\ sent' = [sent EXCEPT ![f] = sent[f] + 1]
      /\ UNCHANGED <<batchPhase, target, plain, firstAnswer, results, todo, batches, returned,
                     limitedServers>>
    BY DEF sendNext
<1>2. f \in todo /\ todo \subseteq CallIds
    BY <1>1, FirstIsLeast, CallIdFacts DEF SandboxInv, SBInv, SBTypeOK
<1> HIDE DEF f
<1>3. sent[f] = 0 \/ (sent[f] = 1 /\ firstAnswer[f] = "limited")
    BY <1>1, <1>2 DEF SandboxInv, SentInv
<1>4. SBTypeOK'
    BY <1>1, <1>2, <1>3 DEF SandboxInv, SBInv, SBTypeOK
<1>5. FlightInv'
    BY <1>1, <1>2 DEF SandboxInv, SBInv, SBTypeOK, FlightInv, f
<1>6. SentInv' /\ PlacedInv'
    BY <1>1, <1>2 DEF SandboxInv, SBInv, SBTypeOK, SentInv, PlacedInv
<1>7. ResultsInPlace' /\ RepeatsOnlyLimited'
    BY <1>1, <1>2, <1>3 DEF SandboxInv, SBInv, SBTypeOK, ResultsInPlace, RepeatsOnlyLimited
<1>. QED BY <1>4, <1>5, <1>6, <1>7, InFlightNext DEF SandboxInv, SBInv

\* Its answer is taken.
LEMMA TakeStep ==
    ASSUME SandboxInv, takeNext
    PROVE  SandboxInv'
<1> DEFINE f == First(todo)
<1>1. /\ batchPhase = "serial" /\ todo # {} /\ flight[f] \in {"ok", "limited"}
      /\ results' = [results EXCEPT ![f] = f] /\ todo' = todo \ {f}
      /\ batchPhase' = IF todo' = {} THEN "code" ELSE "serial"
      /\ returned' = (todo' = {})
      /\ UNCHANGED <<target, plain, flight, sent, firstAnswer, batches, limitedServers>>
    BY DEF takeNext, Placed
<1>2. f \in todo /\ todo \subseteq CallIds
    BY <1>1, FirstIsLeast, CallIdFacts DEF SandboxInv, SBInv, SBTypeOK
<1>3. \A i \in CallIds : flight[i] # "sent"
    BY <1>1 DEF SandboxInv, FlightInv
<1> HIDE DEF f
<1>4. SBTypeOK'
    BY <1>1, <1>2 DEF SandboxInv, SBInv, SBTypeOK
<1>5. FlightInv'
    BY <1>1, <1>3 DEF FlightInv
<1>6. SentInv'
    BY <1>1 DEF SandboxInv, SentInv
<1>7. PlacedInv' /\ ResultsInPlace'
    BY <1>1, <1>2 DEF SandboxInv, SBInv, SBTypeOK, PlacedInv, ResultsInPlace
<1>8. RepeatsOnlyLimited'
    BY <1>1 DEF SandboxInv, SBInv, RepeatsOnlyLimited
<1>. QED BY <1>4, <1>5, <1>6, <1>7, <1>8, InFlightNext DEF SandboxInv, SBInv

\* A batch returns its answers in the order of its calls, repeats only what a
\* rate limit refused, and sends nothing in parallel to a server that is known
\* to limit the rate.
THEOREM SandboxCorrect == SBSpec => []SBInv
<1>1. SandboxInv => SBInv
    BY DEF SandboxInv
<1>2. SandboxInv /\ [SBNext]_sbVars => SandboxInv'
    <2> SUFFICES ASSUME SandboxInv, [SBNext]_sbVars PROVE SandboxInv'
        OBVIOUS
    <2>1. CASE finish
        <3>1. SBTypeOK' /\ FlightInv'
            BY <2>1 DEF finish, SandboxInv, SBInv, SBTypeOK, FlightInv
        <3>2. SentInv' /\ PlacedInv' /\ ResultsInPlace' /\ RepeatsOnlyLimited'
            BY <2>1 DEF finish, SandboxInv, SBInv, SentInv, PlacedInv, ResultsInPlace, RepeatsOnlyLimited
        <3>. QED BY <3>1, <3>2, InFlightNext DEF SandboxInv, SBInv
    <2>2. CASE UNCHANGED sbVars
        BY <2>2 DEF sbVars, SandboxInv, SBInv, SBTypeOK, FlightInv, SentInv, PlacedInv, ResultsInPlace,
           RepeatsOnlyLimited, KnownLimitIsRespected
    <2>. QED BY <2>1, <2>2, BatchStep, RespondStep, ThrowStep, AnsweredStep, SendStep, TakeStep DEF SBNext
<1>. QED BY <1>1, <1>2, SandboxInit, PTL DEF SBSpec

-----------------------------------------------------------------------------
(***************************************************************************)
(* ExecutionStream: any streams, clients and number of reports.  The two promises *)
(* about connections are inductive together with the types: whatever takes *)
(* a stream off the list cuts its connections in the same step, and a      *)
(* client that comes after complete() is not one of the early ones.        *)
(***************************************************************************)

Stream == [state : {"none", "running", "completed", "error"}, listed : BOOLEAN,
           held : BOOLEAN, age : 0 .. 4, left : 0 .. MaxReports,
           progress : 0 .. 100, early : SUBSET Clients, closing : BOOLEAN]

ConnInv == NoOrphanConnection /\ ClosedAfterComplete

LEMMA NoStreamType == NoStream \in Stream
<1>1. MaxReports \in 0 .. MaxReports
  BY ESAssumption
<1>. QED BY <1>1 DEF NoStream, Stream

LEMMA StreamInit == ESInit => ESInv
<1>. SUFFICES ASSUME ESInit PROVE ESInv
  OBVIOUS
<1>1. ESTypeOK
  BY NoStreamType DEF ESInit, ESTypeOK, Stream
<1>2. NoOrphanConnection /\ ClosedAfterComplete
  BY DEF ESInit, NoOrphanConnection, ClosedAfterComplete, NoStream
<1>. QED BY <1>1, <1>2 DEF ESInv

LEMMA CutType ==
    ASSUME follows \in [Clients -> Streams \cup {None_}], NEW S
    PROVE  /\ Cut(S) \in [Clients -> Streams \cup {None_}]
           /\ \A k \in Clients : /\ follows[k] \in S => Cut(S)[k] = None_
                                 /\ follows[k] \notin S => Cut(S)[k] = follows[k]
BY DEF Cut

Typed == /\ stream \in [Streams -> Stream]
         /\ follows \in [Clients -> Streams \cup {None_}]
         /\ managerUp \in BOOLEAN
         /\ stopping \in BOOLEAN

LEMMA TypedIsTypeOK == Typed <=> ESTypeOK
BY DEF Typed, ESTypeOK, Stream

\* The records that the handlers put together.
LEMMA StreamTypes ==
    ASSUME NEW r \in Stream
    PROVE  /\ [r EXCEPT !.held = FALSE] \in Stream
           /\ [r EXCEPT !.closing = FALSE] \in Stream
           /\ [r EXCEPT !.listed = FALSE] \in Stream
           /\ \A S \in SUBSET Clients : [r EXCEPT !.early = S] \in Stream
           /\ r.early \in SUBSET Clients
           /\ r.age < 4 => [r EXCEPT !.age = @ + 1] \in Stream
           /\ r.left > 0 => [r EXCEPT !.left = @ - 1] \in Stream
           /\ r.left > 0 => \A percent \in {0, 100} : Reported(r, percent) \in Stream
<1>1. r.left > 0 => r.left - 1 \in 0 .. MaxReports
  <2>1. r.left \in 0 .. MaxReports
    BY DEF Stream
  <2>. QED BY <2>1, ESAssumption
<1>2. r.age < 4 => r.age + 1 \in 0 .. 4
  BY DEF Stream
<1>3. [r EXCEPT !.held = FALSE] \in Stream /\ [r EXCEPT !.closing = FALSE] \in Stream
      /\ [r EXCEPT !.listed = FALSE] \in Stream
  BY DEF Stream
<1>4. (\A S \in SUBSET Clients : [r EXCEPT !.early = S] \in Stream) /\ r.early \in SUBSET Clients
  BY DEF Stream
<1>5. r.age < 4 => [r EXCEPT !.age = @ + 1] \in Stream
  BY <1>2 DEF Stream
<1>6. r.left > 0 => [r EXCEPT !.left = @ - 1] \in Stream
  BY <1>1 DEF Stream
<1>7. r.left > 0 => \A percent \in {0, 100} : Reported(r, percent) \in Stream
  <2>. SUFFICES ASSUME r.left > 0, NEW percent \in {0, 100}
                PROVE  Reported(r, percent) \in Stream
    OBVIOUS
  <2>. DEFINE one == [r EXCEPT !.left = @ - 1]
  <2>1. one \in Stream
    BY <1>6
  <2>2. percent \in 0 .. 100
    OBVIOUS
  <2>. HIDE DEF one
  <2>. DEFINE young == [one EXCEPT !.age = 0]
  <2>3. young \in Stream
    BY <2>1 DEF Stream
  <2>. HIDE DEF young
  <2>4. [young EXCEPT !.progress = percent] \in Stream
    BY <2>2, <2>3 DEF Stream
  <2>. QED BY <2>4 DEF young, one, Reported
<1>. QED BY <1>3, <1>4, <1>5, <1>6, <1>7

LEMMA EndedType ==
    ASSUME NEW r \in Stream, NEW ending \in {"completed", "error"}, NEW S \in SUBSET Clients
    PROVE  [r EXCEPT !.state = ending, !.held = FALSE, !.progress = 100, !.age = 0,
                     !.early = S, !.closing = TRUE] \in Stream
<1>. DEFINE over == [r EXCEPT !.state = ending, !.held = FALSE]
            full == [over EXCEPT !.progress = 100]
            fresh == [full EXCEPT !.age = 0]
<1>1. over \in Stream
  BY DEF Stream
<1>. HIDE DEF over
<1>2. full \in Stream
  BY <1>1 DEF Stream
<1>. HIDE DEF full
<1>3. fresh \in Stream
  BY <1>2 DEF Stream
<1>. HIDE DEF fresh
<1>4. [fresh EXCEPT !.early = S, !.closing = TRUE] \in Stream
  BY <1>3 DEF Stream
<1>. QED BY <1>4 DEF fresh, full, over

\* Every step leaves the streams streams.
LEMMA StreamTypeStep ==
    ASSUME Typed, [ESNext]_esVars
    PROVE  Typed'
<1>. USE DEF Typed
<1>2. CASE UNCHANGED esVars
  BY <1>2 DEF esVars
<1>3. ASSUME NEW s \in Streams, createStream(s) PROVE Typed'
  <2>1. [NoStream EXCEPT !.state = "running", !.listed = TRUE, !.held = TRUE] \in Stream
    BY NoStreamType DEF Stream
  <2>. QED BY <1>3, <2>1 DEF createStream, getStreamManager
<1>4. ASSUME NEW s \in Streams, abandon(s) PROVE Typed'
  BY <1>4, StreamTypes DEF abandon
<1>5. ASSUME NEW s \in Streams, closeAllConnections(s) PROVE Typed'
  BY <1>5, StreamTypes, CutType DEF closeAllConnections
<1>6. ASSUME NEW s \in Streams, NEW success \in BOOLEAN, complete(s, success) PROVE Typed'
  <2>1. Connections(s) \in SUBSET Clients
    BY DEF Connections
  <2>2. PICK ending \in {"completed", "error"} :
            stream' = [stream EXCEPT ![s] = [@ EXCEPT !.state = ending, !.held = FALSE,
                          !.progress = 100, !.age = 0, !.early = Connections(s), !.closing = TRUE]]
    <3>1. CASE success
      BY <1>6, <3>1 DEF complete
    <3>2. CASE ~success
      BY <1>6, <3>2 DEF complete
    <3>. QED BY <3>1, <3>2
  <2>3. [stream[s] EXCEPT !.state = ending, !.held = FALSE, !.progress = 100, !.age = 0,
                          !.early = Connections(s), !.closing = TRUE] \in Stream
    BY <2>1, EndedType
  <2>. QED BY <1>6, <2>2, <2>3 DEF complete
<1>7. ASSUME NEW s \in Streams, NEW percent \in {0, 100}, report(s, percent) PROVE Typed'
  <2>0. stream[s] \in Stream /\ stream[s].left > 0
    BY <1>7 DEF report
  <2>1. Reported(stream[s], percent) \in Stream /\ [stream[s] EXCEPT !.left = @ - 1] \in Stream
    BY <2>0, StreamTypes
  <2>2. stream' \in [Streams -> Stream]
    <3>1. CASE stream[s].listed
      BY <1>7, <2>1, <3>1 DEF report
    <3>2. CASE ~stream[s].listed
      BY <1>7, <2>1, <3>2 DEF report
    <3>. QED BY <3>1, <3>2
  <2>. QED BY <1>7, <2>2 DEF report, getStreamManager
<1>8. ASSUME NEW k \in Clients, NEW s \in Streams, handleStreamConnect(k, s) PROVE Typed'
  BY <1>8, StreamTypes DEF handleStreamConnect, getStreamManager, addConnection
<1>9. ASSUME NEW k \in Clients, disconnect(k) PROVE Typed'
  BY <1>9 DEF disconnect
<1>10. CASE cleanupStaleStreams
  BY <1>10, StreamTypes, CutType DEF cleanupStaleStreams
<1>11. CASE shutdownStreamManager
  BY <1>11, StreamTypes, CutType DEF shutdownStreamManager
<1>12. CASE age
  BY <1>12, StreamTypes DEF age
<1>. QED BY <1>2, <1>3, <1>4, <1>5, <1>6, <1>7, <1>8, <1>9, <1>10, <1>11, <1>12 DEF ESNext

\* Every step keeps the promises about the connections.
LEMMA ConnStep ==
    ASSUME Typed, ConnInv, [ESNext]_esVars
    PROVE  ConnInv'
<1>0. stream \in [Streams -> Stream] /\ follows \in [Clients -> Streams \cup {None_}]
      /\ None_ \notin Streams
  BY ESAssumption DEF Typed, None_
<1>. USE DEF ConnInv, NoOrphanConnection, ClosedAfterComplete, Stream
<1>2. CASE UNCHANGED esVars
  BY <1>2 DEF esVars
<1>3. ASSUME NEW s \in Streams, createStream(s) PROVE ConnInv'
  BY <1>0, <1>3 DEF createStream, NoStream
<1>4. ASSUME NEW s \in Streams, abandon(s) PROVE ConnInv'
  BY <1>0, <1>4 DEF abandon
<1>5. ASSUME NEW s \in Streams, closeAllConnections(s) PROVE ConnInv'
  BY <1>0, <1>5, CutType DEF closeAllConnections
<1>6. ASSUME NEW s \in Streams, NEW success \in BOOLEAN, complete(s, success) PROVE ConnInv'
  BY <1>0, <1>6 DEF complete
<1>7. ASSUME NEW s \in Streams, NEW percent \in {0, 100}, report(s, percent) PROVE ConnInv'
  BY <1>0, <1>7 DEF report, Reported
<1>8. ASSUME NEW k \in Clients, NEW s \in Streams, handleStreamConnect(k, s) PROVE ConnInv'
  BY <1>0, <1>8 DEF handleStreamConnect, addConnection
<1>9. ASSUME NEW k \in Clients, disconnect(k) PROVE ConnInv'
  BY <1>0, <1>9 DEF disconnect
<1>10. CASE cleanupStaleStreams
  BY <1>0, <1>10, CutType DEF cleanupStaleStreams
<1>11. CASE shutdownStreamManager
  BY <1>0, <1>11, CutType DEF shutdownStreamManager
<1>12. CASE age
  BY <1>0, <1>12 DEF age
<1>. QED BY <1>2, <1>3, <1>4, <1>5, <1>6, <1>7, <1>8, <1>9, <1>10, <1>11, <1>12 DEF ESNext

(***************************************************************************)
(* The response of a connected client belongs to a stream that can still   *)
(* be found and ended, and those who were connected when the execution     *)
(* completed are cut off with the grace time (execution-stream.ts).        *)
(***************************************************************************)
THEOREM StreamsCorrect == ESSpec => []ESInv
<1>1. ESInv /\ [ESNext]_esVars => ESInv'
  <2>. SUFFICES ASSUME ESInv, [ESNext]_esVars PROVE ESInv'
    OBVIOUS
  <2>1. Typed'
    BY StreamTypeStep, TypedIsTypeOK DEF ESInv
  <2>2. ESTypeOK'
    BY <2>1 DEF Typed, ESTypeOK, Stream
  <2>3. ConnInv'
    BY ConnStep, TypedIsTypeOK DEF ESInv, ConnInv
  <2>. QED BY <2>2, <2>3 DEF ESInv, ConnInv
<1>. QED BY <1>1, StreamInit, PTL DEF ESSpec
=============================================================================
