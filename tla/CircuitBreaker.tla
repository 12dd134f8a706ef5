--------------------------- MODULE CircuitBreaker ---------------------------
(***************************************************************************)
(* The circuit breaker of one backend server (src/reliability/breaker.ts): *)
(* closed / open / half-open with a rolling window of outcomes.            *)
(*                                                                         *)
(* The code compares timestamps with Date.now(); the model keeps the age   *)
(* of everything instead of an absolute clock, saturated at the largest    *)
(* age the code can tell apart, so time may pass for ever in a finite      *)
(* model.  A window record of age WindowMs + 1 is one the code would prune *)
(* (ts < now - windowMs).                                                  *)
(*                                                                         *)
(* The operations leave minCalls alone: only the constructor, run lazily   *)
(* by the gateway, sets it.                                                *)
(***************************************************************************)
EXTENDS Integers, Functions

CONSTANTS
    ThresholdNum, ThresholdDen, \* circuitBreakerThreshold as a fraction
    WindowMs,                   \* circuitBreakerWindowMs, in ticks
    HalfOpenIntervalMs          \* halfOpenProbeIntervalMs, in ticks

ASSUME BreakerAssumption ==
    /\ ThresholdNum \in Nat
    /\ ThresholdDen \in Nat \ {0}
    /\ WindowMs \in Nat
    /\ HalfOpenIntervalMs \in Nat

VARIABLES
    state,         \* CircuitState
    oks, fails,    \* the window: number of successes / failures of each age
    sinceTrip,     \* Date.now() - lastTrip, or NoTrip when lastTrip is undefined
    probeInFlight,
    minCalls       \* set by the constructor, or NotBuilt before it ran

breakerVars == <<state, oks, fails, sinceTrip, probeInFlight, minCalls>>

NoTrip == -1
NotBuilt == -1
Age == 0 .. WindowMs + 1
Expired == WindowMs + 1

BreakerTypeOK ==
    /\ state \in {"closed", "open", "half-open"}
    /\ oks \in [Age -> Nat]
    /\ fails \in [Age -> Nat]
    /\ sinceTrip \in (0 .. HalfOpenIntervalMs) \cup {NoTrip}
    /\ probeInFlight \in BOOLEAN
    /\ minCalls \in Nat \cup {NotBuilt}

EmptyWindow == [a \in Age |-> 0]

BreakerInit ==
    /\ state = "closed"
    /\ oks = EmptyWindow
    /\ fails = EmptyWindow
    /\ sinceTrip = NoTrip
    /\ probeInFlight = FALSE
    /\ minCalls = NotBuilt

-----------------------------------------------------------------------------
Total(records) == FoldFunction(LAMBDA x, y : x + y, 0, records)

\* _pruneWindow, and the push of a record stamped Date.now().
_pruneWindow(records) == [records EXCEPT ![Expired] = 0]
Push(records) == [records EXCEPT ![0] = @ + 1]

\* _maybeTrip's condition on the pruned window.
ShouldTrip(okRecords, failRecords) ==
    LET failures == Total(failRecords)
        length   == Total(okRecords) + failures
    IN /\ length >= minCalls
       /\ failures * ThresholdDen > ThresholdNum * length

\* _maybeTransitionToHalfOpen's condition, and what the breaker looks like
\* to a reader after it ran.
ProbeDue == /\ state = "open"
            /\ sinceTrip # NoTrip
            /\ sinceTrip >= HalfOpenIntervalMs
\* Mutant: the new state is misspelt.
StateSeen_Misspelt == IF ProbeDue THEN "halfopen" ELSE state
StateSeen == IF ProbeDue THEN "half-open" ELSE state
ProbeSeen == IF ProbeDue THEN FALSE ELSE probeInFlight

\* allowCall throws CircuitOpenError in exactly the other case.
CallAllowed == \/ StateSeen = "closed"
               \/ StateSeen = "half-open" /\ ~ProbeSeen

-----------------------------------------------------------------------------
\* getState: only the lazy transition.
getState ==
    /\ state' = StateSeen
    /\ probeInFlight' = ProbeSeen
    /\ UNCHANGED <<oks, fails, sinceTrip>>

\* allowCall: the lazy transition happens whether or not the call is let in;
\* an admitted half-open call becomes the probe.
allowCall ==
    /\ state' = StateSeen
    /\ probeInFlight' = (ProbeSeen \/ StateSeen = "half-open")
    /\ UNCHANGED <<oks, fails, sinceTrip>>

\* Mutant: the flag is not lowered when the circuit closes.
recordSuccess_FlagStays ==
    IF state = "half-open"
    THEN /\ state' = "closed"
         /\ oks' = EmptyWindow
         /\ fails' = EmptyWindow
         /\ UNCHANGED <<sinceTrip, probeInFlight>>
    ELSE /\ oks' = Push(_pruneWindow(oks))
         /\ fails' = _pruneWindow(fails)
         /\ UNCHANGED <<state, sinceTrip, probeInFlight>>

\* The record pushed first is thrown away with the window on recovery.
recordSuccess ==
    IF state = "half-open"
    THEN /\ state' = "closed"
         /\ probeInFlight' = FALSE
         /\ oks' = EmptyWindow
         /\ fails' = EmptyWindow
         /\ UNCHANGED sinceTrip
    ELSE /\ oks' = Push(_pruneWindow(oks))
         /\ fails' = _pruneWindow(fails)
         /\ UNCHANGED <<state, sinceTrip, probeInFlight>>

\* Mutant: lastTrip is not set when the ratio trips the circuit.
_maybeTrip_NoLastTrip ==
    /\ state' = IF ShouldTrip(oks', fails') THEN "open" ELSE state
    /\ UNCHANGED sinceTrip

\* _maybeTrip, run by recordFailure in the closed state after its push.
_maybeTrip ==
    IF ShouldTrip(oks', fails')
    THEN state' = "open" /\ sinceTrip' = 0
    ELSE UNCHANGED <<state, sinceTrip>>

\* Mutant: a failure that arrives while the circuit is open trips it anew.
recordFailure_Retrips ==
    /\ oks' = _pruneWindow(oks)
    /\ fails' = Push(_pruneWindow(fails))
    /\ IF state = "closed"
       THEN _maybeTrip /\ UNCHANGED probeInFlight
       ELSE state' = "open" /\ sinceTrip' = 0 /\ probeInFlight' = FALSE

recordFailure ==
    /\ oks' = _pruneWindow(oks)
    /\ fails' = Push(_pruneWindow(fails))
    /\ \/ /\ state = "half-open"
          /\ probeInFlight' = FALSE
          /\ state' = "open"
          /\ sinceTrip' = 0
       \/ /\ state = "closed"
          /\ _maybeTrip
          /\ UNCHANGED probeInFlight
       \/ /\ state = "open"
          /\ UNCHANGED <<state, sinceTrip, probeInFlight>>

reset ==
    /\ state' = "closed"
    /\ oks' = EmptyWindow
    /\ fails' = EmptyWindow
    /\ sinceTrip' = NoTrip
    /\ probeInFlight' = FALSE

\* getStats prunes, and reads the state through getState.
getStats ==
    /\ oks' = _pruneWindow(oks)
    /\ fails' = _pruneWindow(fails)
    /\ state' = StateSeen
    /\ probeInFlight' = ProbeSeen
    /\ UNCHANGED sinceTrip

\* One tick of Date.now(): every age grows.
Older(records) ==
    [a \in Age |-> IF a = 0 THEN 0
                   ELSE IF a = Expired THEN records[a - 1] + records[a]
                   ELSE records[a - 1]]

Tick ==
    /\ oks' = Older(oks)
    /\ fails' = Older(fails)
    /\ sinceTrip' = IF sinceTrip \in {NoTrip, HalfOpenIntervalMs}
                    THEN sinceTrip ELSE sinceTrip + 1
    /\ UNCHANGED <<state, probeInFlight>>
=============================================================================
