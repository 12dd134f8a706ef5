----------------------------- MODULE MCToolCall -----------------------------
(***************************************************************************)
(* What a tool call passes through, part by part: the process the user's   *)
(* code runs in, the runtime inside it, the stream it reports to, the rate *)
(* limiter of a backend, and the reliability gateway.  The parts share no  *)
(* variable, so one run checks them next to each other: a behaviour moves  *)
(* the part it has chosen in the beginning, and the state spaces add up    *)
(* instead of multiplying.                                                 *)
(***************************************************************************)
EXTENDS MCReliabilityGateway, RateLimiter, ExecutionStream, Executor, Sandbox

VARIABLE focus

groupVars == <<focus, vars, rlVars, esVars, exVars, sbVars>>

MCInit ==
    /\ focus \in {"gateway", "limiter", "stream", "executor", "sandbox"}
    /\ Init /\ RLInit /\ ESInit /\ EXInit /\ SBInit
    /\ focus # "limiter" => mode = "queue"

MCNext ==
    \/ focus = "gateway" /\ Next /\ UNCHANGED <<focus, rlVars, esVars, exVars, sbVars>>
    \/ focus = "limiter" /\ RLNext /\ UNCHANGED <<focus, vars, esVars, exVars, sbVars>>
    \/ focus = "stream" /\ ESNext /\ UNCHANGED <<focus, vars, rlVars, exVars, sbVars>>
    \/ focus = "executor" /\ EXNext /\ UNCHANGED <<focus, vars, rlVars, esVars, sbVars>>
    \/ focus = "sandbox" /\ SBNext /\ UNCHANGED <<focus, vars, rlVars, esVars, exVars>>

\* What fairness asks for is not enabled in a part that does not move, but for
\* the clocks of the gateway and of the rate limiter.
MCFairness ==
    /\ WF_vars(focus = "gateway" /\ Clock)
    /\ \A c \in Calls : WF_vars(TimeOut(c)) /\ WF_vars(WakeUp(c))
    /\ WF_rlVars(focus = "limiter" /\ tick) /\ RLTimers
    /\ ESFairness /\ EXFairness

MCSpec == MCInit /\ [][MCNext]_groupVars /\ MCFairness

(***************************************************************************)
(* Every call of callTool(), every stream and every execution comes to its *)
(* end (rate-limiter.ts, execution-stream.ts, executor.ts).                *)
(***************************************************************************)
PartsSettle == CallSettles /\ StreamForgotten /\ ExecutionReturns
=============================================================================
