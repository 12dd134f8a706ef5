------------------------- MODULE ReliabilityGateway -------------------------
(***************************************************************************)
(* ReliabilityGateway.call for one backend server: the circuit breaker in  *)
(* front of a retry loop whose attempts race a timeout                     *)
(* (src/reliability/gateway.ts, retry.ts, timeout.ts).                     *)
(*                                                                         *)
(* Several calls are in flight at once.  JavaScript runs one callback at a *)
(* time, so an action is the code between two awaits: the synchronous head *)
(* of call() up to the first attempt, the settling of an attempt with all  *)
(* the bookkeeping that follows it, and the end of a back-off sleep.       *)
(*                                                                         *)
(* The timeout timer may fire at any moment of an attempt.  What the       *)
(* backend answers after that is dropped by Promise.race and has no action.*)
(***************************************************************************)
EXTENDS CircuitBreaker, ReliabilityProfile, FiniteSets

CONSTANTS
    Calls,    \* concurrent invocations of call(); a settled one is reused
    MaxCalls  \* bound on the invocations of call()

ASSUME GatewayAssumption ==
    IsFiniteSet(Calls) /\ MaxCalls \in Nat /\ Tools # {}

VARIABLES
    pc,       \* "idle", "attempt" (fn is running) or "sleep" (back-off)
    tool,     \* the tool of a call in flight
    attempt,  \* attemptCount: how often fn was started
    stats,    \* MutableStats of the server
    rejected, \* history: calls refused by the breaker
    role      \* history: how the breaker admitted a call

callVars == <<pc, tool, attempt, stats, rejected, role>>
vars == <<breakerVars, callVars>>

\* A call admitted in half-open is a "probe"; it is an "oldProbe" once the
\* breaker has left that half-open period although the probe has not settled.
Roles == {"none", "normal", "probe", "oldProbe"}

StatNames == {"totalCalls", "successes", "failures", "timeouts", "retries"}

\* What `tool' holds for a call that is not in flight.
AnyTool == CHOOSE t \in Tools : TRUE

InFlight == {c \in Calls : pc[c] # "idle"}
CurrentProbes == {c \in Calls : role[c] = "probe"}

-----------------------------------------------------------------------------
Init ==
    /\ BreakerInit
    /\ pc = [c \in Calls |-> "idle"]
    /\ tool = [c \in Calls |-> AnyTool]
    /\ attempt = [c \in Calls |-> 0]
    /\ stats = [s \in StatNames |-> 0]
    /\ rejected = 0
    /\ role = [c \in Calls |-> "none"]

Count(names) == [s \in StatNames |-> IF s \in names THEN stats[s] + 1 ELSE stats[s]]

\* The probes that are still out when the breaker leaves half-open.
Outdated(roles) ==
    [c \in Calls |-> IF roles[c] = "probe" /\ state' # "half-open"
                     THEN "oldProbe" ELSE roles[c]]

\* _breaker: the server's breaker is built once, from the profile of the
\* first tool that is called.
_breaker(t) ==
    minCalls' = IF minCalls = NotBuilt
                THEN _resolveProfile(t)["circuitBreakerMinCalls"] ELSE minCalls

\* call() up to the start of the first attempt.
Begin(c, t) ==
    /\ pc[c] = "idle"
    /\ stats["totalCalls"] < MaxCalls
    /\ _breaker(t)
    /\ allowCall
    /\ stats' = Count({"totalCalls"})
    /\ IF CallAllowed
       THEN /\ pc' = [pc EXCEPT ![c] = "attempt"]
            /\ tool' = [tool EXCEPT ![c] = t]
            /\ attempt' = [attempt EXCEPT ![c] = 1]
            /\ role' = [role EXCEPT ![c] =
                          IF StateSeen = "half-open" THEN "probe" ELSE "normal"]
            /\ UNCHANGED rejected
       ELSE /\ rejected' = rejected + 1
            /\ UNCHANGED <<pc, tool, attempt, role>>

\* call() is over: the caller has its result or its error.
Settle(c) ==
    /\ pc' = [pc EXCEPT ![c] = "idle"]
    /\ attempt' = [attempt EXCEPT ![c] = 0]
    /\ tool' = [tool EXCEPT ![c] = AnyTool]
    /\ role' = Outdated([role EXCEPT ![c] = "none"])
    /\ UNCHANGED <<rejected, minCalls>>

Succeed(c) ==
    /\ pc[c] = "attempt"
    /\ recordSuccess
    /\ stats' = Count({"successes"})
    /\ Settle(c)

\* The catch block; a timeout is counted when the last error was one.
Fail(c, timedOut) ==
    /\ recordFailure
    /\ stats' = Count({"failures"} \cup (IF timedOut THEN {"timeouts"} ELSE {}))
    /\ Settle(c)

\* Mutant: a timeout is counted when it happens, not when it ends the call.
RetryOrFail_CountsEveryTimeout(c, timedOut) ==
    IF attempt[c] <= Retries(tool[c])
    THEN /\ pc' = [pc EXCEPT ![c] = "sleep"]
         /\ stats' = Count(IF timedOut THEN {"timeouts"} ELSE {})
         /\ UNCHANGED <<breakerVars, tool, attempt, rejected, role>>
    ELSE Fail(c, timedOut)

\* withRetry: a retryable error sleeps before the next attempt, the last one
\* ends the call.
RetryOrFail(c, timedOut) ==
    IF attempt[c] <= Retries(tool[c])
    THEN /\ pc' = [pc EXCEPT ![c] = "sleep"]
         /\ UNCHANGED <<breakerVars, tool, attempt, stats, rejected, role>>
    ELSE Fail(c, timedOut)

\* An MCPToolError, or any error isRetryable does not know.
RejectFatal(c) == pc[c] = "attempt" /\ Fail(c, FALSE)

\* A network-level error.
RejectTransient(c) == pc[c] = "attempt" /\ RetryOrFail(c, FALSE)

\* The timer of withTimeout fires first.
TimeOut(c) == pc[c] = "attempt" /\ RetryOrFail(c, TRUE)

\* Mutant: every round of the loop starts from attempt 1.
WakeUp_ForgetsAttempt(c) ==
    /\ pc[c] = "sleep"
    /\ pc' = [pc EXCEPT ![c] = "attempt"]
    /\ UNCHANGED <<breakerVars, tool, attempt, stats, rejected, role>>

\* The back-off is over: wrappedFn runs again.
WakeUp(c) ==
    /\ pc[c] = "sleep"
    /\ pc' = [pc EXCEPT ![c] = "attempt"]
    /\ attempt' = [attempt EXCEPT ![c] = @ + 1]
    /\ stats' = Count({"retries"})
    /\ UNCHANGED <<breakerVars, tool, rejected, role>>

\* resetCircuit gives up the probe that is out, if any: it is a plain call
\* from now on.
resetCircuit ==
    /\ reset
    /\ role' = [c \in Calls |-> IF role[c] = "probe" THEN "normal" ELSE role[c]]
    /\ UNCHANGED <<minCalls, pc, tool, attempt, stats, rejected>>

getCircuitState == getState /\ UNCHANGED <<minCalls, callVars>>

getGatewayStats == getStats /\ UNCHANGED <<minCalls, callVars>>

Clock == Tick /\ UNCHANGED <<minCalls, callVars>>

CallStep(c) ==
    \/ \E t \in Tools : Begin(c, t)
    \/ Succeed(c)
    \/ RejectFatal(c)
    \/ RejectTransient(c)
    \/ TimeOut(c)
    \/ WakeUp(c)

Next ==
    \/ \E c \in Calls : CallStep(c)
    \/ resetCircuit
    \/ getCircuitState
    \/ getGatewayStats
    \/ Clock

Spec == Init /\ [][Next]_vars

\* The timers: the clock advances, a running attempt is ended at the latest
\* by its timeout, and a sleep ends.
Fairness ==
    /\ WF_vars(Clock)
    /\ \A c \in Calls : WF_vars(TimeOut(c)) /\ WF_vars(WakeUp(c))

FairSpec == Spec /\ Fairness

-----------------------------------------------------------------------------
TypeOK ==
    /\ BreakerTypeOK
    /\ pc \in [Calls -> {"idle", "attempt", "sleep"}]
    /\ tool \in [Calls -> Tools]
    /\ attempt \in [Calls -> Nat]
    /\ stats \in [StatNames -> Nat]
    /\ rejected \in Nat
    /\ role \in [Calls -> Roles]

(***************************************************************************)
(* The flag of the breaker tells the truth about the calls: it is raised   *)
(* exactly while one call admitted in the current half-open period is in   *)
(* flight, so half-open can neither let a second one in nor get stuck on a *)
(* probe that is gone.                                                     *)
(***************************************************************************)
ProbeFlagSound ==
    /\ probeInFlight <=> CurrentProbes # {}
    /\ \A c, d \in CurrentProbes : c = d
    /\ CurrentProbes \subseteq InFlight
    /\ probeInFlight => state = "half-open"

(***************************************************************************)
(* No call is counted twice or lost by the statistics, whatever path it    *)
(* leaves call() by: those that began are those that succeeded, failed,    *)
(* were refused or are still in flight; and a timeout is a failure.        *)
(***************************************************************************)
StatsBalance ==
    /\ stats["totalCalls"] = stats["successes"] + stats["failures"]
                             + rejected + Cardinality(InFlight)
    /\ stats["timeouts"] <= stats["failures"]

(***************************************************************************)
(* A mutation whose retries no server, registry or tool profile sets is    *)
(* sent to the backend at most once per call, even when the answer is lost *)
(* to a timeout and the global default profile asks for retries.           *)
(***************************************************************************)
MutationAtMostOnce ==
    \A c \in InFlight :
        /\ isMutation(tool[c])
        /\ \A o \in {ServerOverride, RegistryOverride[tool[c]], ToolOverride[tool[c]]} :
               o["retries"] = Unset
        => attempt[c] <= 1 /\ pc[c] = "attempt"

(***************************************************************************)
(* While the circuit is open the failures of calls admitted earlier do not *)
(* postpone the probe: the time since the trip never shrinks.              *)
(***************************************************************************)
OpenPeriodNotExtended ==
    [][state = "open" /\ state' = "open" => sinceTrip' >= sinceTrip]_vars

(***************************************************************************)
(* A server is never shut out for good: whatever happens to the calls in   *)
(* flight, the breaker comes to admit a call again and again.              *)
(***************************************************************************)
AdmitsAgain == []<>CallAllowed

(***************************************************************************)
(* Every call that is let in returns or throws, whatever the backend does. *)
(***************************************************************************)
EveryCallSettles == \A c \in Calls : pc[c] # "idle" ~> pc[c] = "idle"

-----------------------------------------------------------------------------
(***************************************************************************)
(* breaker.ts: "In HALF-OPEN allows exactly one concurrent probe call":    *)
(* of the calls let in while half-open, at most one is in flight.          *)
(***************************************************************************)
OneConcurrentProbe ==
    state = "half-open" =>
        \A c, d \in Calls : role[c] \in {"probe", "oldProbe"}
                            /\ role[d] \in {"probe", "oldProbe"} => c = d
=============================================================================
