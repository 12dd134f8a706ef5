----------------------------- MODULE ToolServer -----------------------------
(***************************************************************************)
(* The tool calls of src/src/server/mcp-server.ts that are in progress at  *)
(* the same time, the switches they read, and what is kept about them: the *)
(* stored executions of metrics-collector.ts and the counters of           *)
(* mode-handler.ts.                                                        *)
(*                                                                         *)
(* A handler runs without interruption between its awaits: the run of the  *)
(* code (executor.ts), the call of the backend (mcp-hub.ts) and, in        *)
(* compare mode, a second run of the same call.  The switches may change   *)
(* at each of them.  Numbers of tokens, bytes and milliseconds are left    *)
(* out, so are the tools that only read, and "verbose", which is a layout.  *)
(***************************************************************************)
EXTENDS FiniteSets, Naturals, Sequences

CONSTANTS
    ToolCalls,
    MaxStoredExecutions,  \* maxStoredExecutions
    GatewayAttempts       \* retries + 1 of the tool's profile

ASSUME ToolServerAssumption == {MaxStoredExecutions, GatewayAttempts} \subseteq Nat \ {0}

VARIABLES
    toolCall,      \* the calls
    executions,    \* the collector's list: which call, and did it succeed
    modeMetrics,   \* executionCalls and passthroughCalls of the mode handler
    currentMode,   \* the server's
    handlerMode,   \* the mode handler's
    compareMode,
    diagMode,
    requests,      \* history: what reached the backend for each direct call
    sinceReset     \* history: the recorded calls since the last reset

tsVars == <<toolCall, executions, modeMetrics, currentMode, handlerMode, compareMode, diagMode,
            requests, sinceReset>>

Modes == {"execution", "passthrough", "hybrid"}
Kinds == {"execute_code", "passthrough_call", "passthroughTool", "brave_web_search"}

\* at: "idle", "calling", "comparing" or "answered".  success: what the answer
\* says.  stream: that of the execution.  wasOn: history, compare mode was on
\* at some time since the call began.
Unused == [kind |-> "none", at |-> "idle", success |-> FALSE, stats |-> FALSE, trailer |-> FALSE,
           stream |-> "none", wasOn |-> FALSE]

TSInit ==
    /\ toolCall = [c \in ToolCalls |-> Unused]
    /\ executions = <<>>
    /\ modeMetrics = [execution |-> 0, passthrough |-> 0]
    /\ currentMode = "execution" /\ handlerMode = "execution"
    /\ compareMode = FALSE /\ diagMode = "off"
    /\ requests = [c \in ToolCalls |-> 0]
    /\ sinceReset = <<>>

settings == <<currentMode, handlerMode, compareMode, diagMode>>

-----------------------------------------------------------------------------
\* recordExecution(): the list keeps the last executions.
recordExecution(c, ok) ==
    LET all == Append(executions, [call |-> c, success |-> ok])
    IN  /\ executions' = SubSeq(all, IF Len(all) > MaxStoredExecutions
                                     THEN Len(all) - MaxStoredExecutions + 1 ELSE 1, Len(all))
        /\ sinceReset' = Append(sinceReset, [call |-> c, success |-> ok])

NotRecorded == UNCHANGED <<executions, modeMetrics, sinceReset>>

\* recordExecutionCall() and recordPassthroughCall().
recordCall(which) == modeMetrics' = [modeMetrics EXCEPT ![which] = @ + 1]

Answer(c, ok, withStats) ==
    toolCall' = [toolCall EXCEPT ![c].at = "answered", ![c].success = ok, ![c].stats = withStats,
                                 ![c].trailer = diagMode # "off"]

Begin(c, kind, streamed) ==
    /\ toolCall[c].at = "idle"
    /\ toolCall' = [toolCall EXCEPT ![c] = [Unused EXCEPT !.kind = kind, !.at = "calling",
                        !.stream = IF streamed THEN "running" ELSE "none", !.wasOn = compareMode]]
    /\ UNCHANGED <<settings, requests>> /\ NotRecorded

\* execute_code up to execute(): with stream, or with a progress token, the
\* stream is made first.
execute_code(c) == \E streamed \in BOOLEAN : Begin(c, "execute_code", streamed)

\* finaliseExecuteCodeResult, and the finally block after it.
finaliseExecuteCodeResult(c) ==
    /\ toolCall[c].kind = "execute_code" /\ toolCall[c].at = "calling"
    /\ \E ok \in BOOLEAN :
          /\ recordExecution(c, ok)
          /\ recordCall("execution")
          /\ toolCall' = [toolCall EXCEPT ![c].at = "answered", ![c].success = ok,
                            ![c].stats = compareMode, ![c].trailer = diagMode # "off",
                            ![c].stream = IF @ = "running" THEN "complete" ELSE @]
    /\ UNCHANGED <<settings, requests>>

\* execute() threw: nothing is recorded, the stream is left to its time limit.
executeThrows(c) ==
    /\ toolCall[c].kind = "execute_code" /\ toolCall[c].at = "calling"
    /\ toolCall' = [toolCall EXCEPT ![c].at = "answered"]
    /\ UNCHANGED <<settings, requests>> /\ NotRecorded

\* passthrough_call, unless its params are a string that is no JSON object.
passthrough_call(c) == Begin(c, "passthrough_call", FALSE)
passthroughRefused(c) ==
    /\ toolCall[c].at = "idle"
    /\ toolCall' = [toolCall EXCEPT ![c] = [Unused EXCEPT !.kind = "passthrough_call", !.at = "answered",
                                                          !.wasOn = compareMode]]
    /\ UNCHANGED <<settings, requests>> /\ NotRecorded

\* Mutant: whether to compare was decided when the call began.
passthroughReturns_DecidedEarly(c) ==
    /\ toolCall[c].kind = "passthrough_call" /\ toolCall[c].at = "calling"
    /\ requests' = [requests EXCEPT ![c] = @ + 1]
    /\ recordExecution(c, TRUE)
    /\ IF compareMode
       THEN toolCall' = [toolCall EXCEPT ![c].at = "comparing", ![c].success = TRUE]
       ELSE Answer(c, TRUE, FALSE) /\ recordCall("passthrough")
    /\ UNCHANGED <<settings, modeMetrics>>

\* The backend has answered it: it is recorded, and in compare mode the same
\* call is run as code.
passthroughReturns(c) ==
    /\ toolCall[c].kind = "passthrough_call" /\ toolCall[c].at = "calling"
    /\ requests' = [requests EXCEPT ![c] = @ + 1]
    /\ recordExecution(c, TRUE)
    /\ recordCall("passthrough")
    /\ IF compareMode
       THEN toolCall' = [toolCall EXCEPT ![c].at = "comparing", ![c].success = TRUE]
       ELSE Answer(c, TRUE, FALSE)
    /\ UNCHANGED settings

\* callTool() threw, before or after the request had reached the backend.
passthroughFails(c) ==
    /\ toolCall[c].kind = "passthrough_call" /\ toolCall[c].at = "calling"
    /\ \E reached \in {0, 1} : requests' = [requests EXCEPT ![c] = @ + reached]
    /\ recordExecution(c, FALSE)
    /\ recordCall("passthrough")
    /\ toolCall' = [toolCall EXCEPT ![c].at = "answered"]
    /\ UNCHANGED settings

\* A tool registered as <server>__<tool>: the same without records.
passthroughTool(c) == Begin(c, "passthroughTool", FALSE)
passthroughToolReturns(c) ==
    /\ toolCall[c].kind = "passthroughTool" /\ toolCall[c].at = "calling"
    /\ requests' = [requests EXCEPT ![c] = @ + 1]
    /\ IF compareMode
       THEN toolCall' = [toolCall EXCEPT ![c].at = "comparing", ![c].success = TRUE]
       ELSE Answer(c, TRUE, FALSE)
    /\ UNCHANGED settings /\ NotRecorded

brave_web_search(c) == Begin(c, "brave_web_search", FALSE)
braveReturns(c) ==
    /\ toolCall[c].kind = "brave_web_search" /\ toolCall[c].at = "calling"
    /\ requests' = [requests EXCEPT ![c] = @ + 1]
    /\ toolCall' = [toolCall EXCEPT ![c].at = "answered", ![c].success = TRUE]
    /\ UNCHANGED settings /\ NotRecorded

\* callTool() threw in one of these two: answered with an error.
hubCallFails(c) ==
    /\ toolCall[c].kind \in {"passthroughTool", "brave_web_search"} /\ toolCall[c].at = "calling"
    /\ \E reached \in {0, 1} : requests' = [requests EXCEPT ![c] = @ + reached]
    /\ toolCall' = [toolCall EXCEPT ![c].at = "answered"]
    /\ UNCHANGED settings /\ NotRecorded

\* runCompareExecuteCode and buildPassthroughCompareStats: the code's call
\* comes through the bridge and may end at the cache, at the sandbox or at the
\* gateway, which repeats what timed out; whatever it does, the answer is the
\* one of the direct call.  What a refresh of the cache sends later counts here.
runCompareExecuteCode(c) ==
    /\ toolCall[c].at = "comparing"
    /\ \E reached \in 0 .. GatewayAttempts : requests' = [requests EXCEPT ![c] = @ + reached]
    /\ Answer(c, toolCall[c].success, TRUE)
    /\ UNCHANGED settings /\ NotRecorded

\* Mutant: only the server's own field is set.
set_mode_ServerOnly(m) ==
    /\ currentMode' = m
    /\ UNCHANGED <<toolCall, handlerMode, compareMode, diagMode, requests>> /\ NotRecorded

set_mode(m) ==
    /\ currentMode' = m /\ handlerMode' = m
    /\ UNCHANGED <<toolCall, compareMode, diagMode, requests>> /\ NotRecorded

set_compare_mode(on) ==
    /\ compareMode' = on
    /\ toolCall' = [c \in ToolCalls |-> IF toolCall[c].at \in {"calling", "comparing"}
                        THEN [toolCall[c] EXCEPT !.wasOn = @ \/ on] ELSE toolCall[c]]
    /\ UNCHANGED <<currentMode, handlerMode, diagMode, requests>> /\ NotRecorded

set_diag_mode(m) ==
    /\ diagMode' = m
    /\ UNCHANGED <<toolCall, currentMode, handlerMode, compareMode, requests>> /\ NotRecorded

\* get_metrics with reset: the collector forgets, the mode handler does not.
get_metrics_reset ==
    /\ executions' = <<>> /\ sinceReset' = <<>>
    /\ UNCHANGED <<toolCall, settings, modeMetrics, requests>>

TSNext ==
    \/ \E c \in ToolCalls :
          \/ execute_code(c) \/ finaliseExecuteCodeResult(c) \/ executeThrows(c)
          \/ passthrough_call(c) \/ passthroughRefused(c) \/ passthroughReturns(c) \/ passthroughFails(c)
          \/ passthroughTool(c) \/ passthroughToolReturns(c)
          \/ brave_web_search(c) \/ braveReturns(c) \/ hubCallFails(c)
          \/ runCompareExecuteCode(c)
    \/ \E m \in Modes : set_mode(m)
    \/ \E on \in BOOLEAN : set_compare_mode(on)
    \/ \E m \in {"off", "summary"} : set_diag_mode(m)
    \/ get_metrics_reset

TSSpec == TSInit /\ [][TSNext]_tsVars

-----------------------------------------------------------------------------
\* getSessionMetrics(): its totals are over the stored executions.
totalExecutions == Len(executions)
passthroughModeCount == Cardinality({i \in DOMAIN executions : toolCall[executions[i].call].kind = "passthrough_call"})

Recorded(c) == \E i \in DOMAIN sinceReset : sinceReset[i].call = c

(***************************************************************************)
(* The answer of every call agrees with the books: whatever the switches   *)
(* did while it ran, a call is stored at most once, with the success its   *)
(* answer reports, the newest executions are the stored ones, and the mode *)
(* handler has counted what the collector stored since the last reset.     *)
(***************************************************************************)
BooksAgree ==
    /\ \A i, j \in DOMAIN executions : executions[i].call = executions[j].call => i = j
    /\ \A i \in DOMAIN executions :
          /\ toolCall[executions[i].call].at \in {"comparing", "answered"}
          /\ executions[i].success = toolCall[executions[i].call].success
    /\ executions = SubSeq(sinceReset, Len(sinceReset) - totalExecutions + 1, Len(sinceReset))
    /\ totalExecutions = MaxStoredExecutions \/ executions = sinceReset
    /\ modeMetrics.execution + modeMetrics.passthrough >= Len(sinceReset)
    /\ modeMetrics.passthrough >= passthroughModeCount
    /\ currentMode = handlerMode

\* The direct call, and the attempts of the gateway for its comparison.
MaxReach == 1 + GatewayAttempts

(***************************************************************************)
(* A direct call reaches the backend at most once: only where compare mode *)
(* was switched on before the call had its answer is it sent again, as     *)
(* often as the gateway tries.  A success did reach it, and an answer with *)
(* statistics was compared.                                                *)
(***************************************************************************)
ReachBounded ==
    \A c \in ToolCalls :
        /\ requests[c] <= (IF toolCall[c].wasOn THEN MaxReach ELSE 1)
        /\ toolCall[c].at = "answered" /\ toolCall[c].success /\ toolCall[c].kind # "execute_code"
              => requests[c] >= 1
        /\ toolCall[c].stats => toolCall[c].wasOn

TSTypeOK ==
    /\ \A c \in ToolCalls : toolCall[c].kind \in Kinds \cup {"none"}
    /\ Len(executions) <= MaxStoredExecutions
    /\ {currentMode, handlerMode} \subseteq Modes
    /\ compareMode \in BOOLEAN
    /\ diagMode \in {"off", "summary"}
    /\ requests \in [ToolCalls -> 0 .. MaxReach]

TSInv == TSTypeOK /\ BooksAgree /\ ReachBounded
=============================================================================
