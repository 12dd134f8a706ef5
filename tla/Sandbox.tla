------------------------------ MODULE Sandbox ------------------------------
(***************************************************************************)
(* What runs inside the Deno process: the runtime that generateSandboxCode *)
(* (src/runtime/executor.ts) wraps around the user's code.  The user's     *)
(* code is a sequence of batches of tool calls (a single call is a batch   *)
(* of one) and ends when it likes; a batch that fails throws, and its      *)
(* other calls run on.                                                     *)
(***************************************************************************)
EXTENDS Integers

CONSTANTS
    Servers,      \* backend servers
    BatchSize,    \* bound: calls of a batch
    MaxBatches    \* bound: batches of an execution

ASSUME SandboxAssumption == BatchSize \in Nat \ {0} /\ MaxBatches \in Nat

VARIABLES
    batchPhase,   \* "code" (between batches), "parallel", "serial", "finished"
    target,       \* the server of every call of the batch
    plain,        \* the batch was given as callbacks
    flight,       \* its calls
    sent,         \* history: how often each call was sent
    firstAnswer,  \* history: what its first answer was
    results,      \* for every call of the batch the call whose answer is returned
    todo,         \* the calls left to be made one by one, in order
    batches,      \* batches left
    returned,     \* the last batch has returned, and not thrown
    limitedServers \* __rateLimits

sbVars == <<batchPhase, target, plain, flight, sent, firstAnswer, results, todo, batches, returned,
            limitedServers>>

CallIds == 1 .. BatchSize
First(S) == CHOOSE i \in S : \A j \in S : i <= j

SBInit ==
    /\ batchPhase = "code"
    /\ target = [i \in CallIds |-> "none"]
    /\ plain = FALSE
    /\ flight = [i \in CallIds |-> "idle"]
    /\ sent = [i \in CallIds |-> 0]
    /\ firstAnswer = [i \in CallIds |-> "none"]
    /\ results = [i \in CallIds |-> 0]
    /\ todo = {}
    /\ batches = MaxBatches
    /\ returned = FALSE
    /\ limitedServers = {}

-----------------------------------------------------------------------------
\* hasKnownRateLimit
HasKnownRateLimit(tgt) == \E i \in CallIds : tgt[i] \in limitedServers

\* mcp.batch() up to its first await.
batch(tgt, callbacks, forceParallel) ==
    LET serial == ~callbacks /\ ~forceParallel /\ HasKnownRateLimit(tgt)
        nothing(x) == [i \in CallIds |-> x]
    IN
    /\ batchPhase = "code"
    /\ batches > 0
    /\ batches' = batches - 1
    /\ target' = tgt
    /\ plain' = callbacks
    /\ limitedServers' = IF forceParallel /\ ~callbacks THEN limitedServers \ {tgt[i] : i \in CallIds}
                         ELSE limitedServers
    /\ batchPhase' = IF serial THEN "serial" ELSE "parallel"
    /\ todo' = IF serial THEN CallIds ELSE {}
    /\ flight' = nothing(IF serial THEN "idle" ELSE "sent")
    /\ sent' = nothing(IF serial THEN 0 ELSE 1)
    /\ firstAnswer' = nothing("none")
    /\ results' = nothing(0)
    /\ returned' = FALSE

\* MCPServerClient.call(): a result, a text that __isRateLimitError takes for
\* the answer of a rate limit, or an error.
respond(i, answer) ==
    /\ batchPhase \in {"parallel", "serial"}
    /\ flight[i] = "sent"
    /\ flight' = [flight EXCEPT ![i] = answer]
    /\ firstAnswer' = [firstAnswer EXCEPT ![i] = IF sent[i] = 1 THEN answer ELSE @]
    /\ UNCHANGED <<batchPhase, target, plain, sent, results, todo, batches, returned, limitedServers>>

\* One call failed: the batch throws.  What the calls still in flight answer is
\* lost.
throws ==
    /\ batchPhase \in {"parallel", "serial"}
    /\ \E i \in CallIds : flight[i] = "failed"
    /\ batchPhase' = "code"
    /\ flight' = [i \in CallIds |-> "idle"]
    /\ todo' = {}
    /\ UNCHANGED <<target, plain, sent, firstAnswer, results, batches, returned, limitedServers>>

\* Mutant: if one call was limited all are repeated.
ToRepeat_All == IF plain \/ \A i \in CallIds : flight[i] # "limited" THEN {} ELSE CallIds

\* rateLimitedIndices
ToRepeat == IF plain THEN {} ELSE {i \in CallIds : flight[i] = "limited"}

\* Every call of the parallel attempt has its answer.
allAnswered ==
    /\ batchPhase = "parallel"
    /\ \A i \in CallIds : flight[i] \in {"ok", "limited"}
    /\ results' = [i \in CallIds |-> IF i \in ToRepeat THEN 0 ELSE i]
    /\ limitedServers' = limitedServers \cup {target[i] : i \in ToRepeat}
    /\ todo' = ToRepeat
    /\ batchPhase' = IF ToRepeat = {} THEN "code" ELSE "serial"
    /\ returned' = (ToRepeat = {})
    /\ flight' = [i \in CallIds |-> "idle"]
    /\ UNCHANGED <<target, plain, sent, firstAnswer, batches>>

\* The next call, after the delay.
sendNext ==
    /\ batchPhase = "serial"
    /\ todo # {}
    /\ flight[First(todo)] = "idle"
    /\ flight' = [flight EXCEPT ![First(todo)] = "sent"]
    /\ sent' = [sent EXCEPT ![First(todo)] = @ + 1]
    /\ UNCHANGED <<batchPhase, target, plain, firstAnswer, results, todo, batches, returned,
                   limitedServers>>

\* results[idx] = ...
Placed(i) == [results EXCEPT ![i] = i]

\* Its answer, whatever it is, is the result.
takeNext ==
    /\ batchPhase = "serial"
    /\ todo # {}
    /\ flight[First(todo)] \in {"ok", "limited"}
    /\ results' = Placed(First(todo))
    /\ todo' = todo \ {First(todo)}
    /\ batchPhase' = IF todo' = {} THEN "code" ELSE "serial"
    /\ returned' = (todo' = {})
    /\ UNCHANGED <<target, plain, flight, sent, firstAnswer, batches, limitedServers>>

\* The user's code ends or throws: the result is printed and the process ends.
finish ==
    /\ batchPhase = "code"
    /\ batchPhase' = "finished"
    /\ UNCHANGED <<target, plain, flight, sent, firstAnswer, results, todo, batches, returned,
                   limitedServers>>

SBNext ==
    \/ \E tgt \in [CallIds -> Servers], callbacks, forceParallel \in BOOLEAN :
          batch(tgt, callbacks, forceParallel)
    \/ \E i \in CallIds, answer \in {"ok", "limited", "failed"} : respond(i, answer)
    \/ throws \/ allAnswered \/ sendNext \/ takeNext \/ finish

SBSpec == SBInit /\ [][SBNext]_sbVars

-----------------------------------------------------------------------------
SBTypeOK ==
    /\ batchPhase \in {"code", "parallel", "serial", "finished"}
    /\ target \in [CallIds -> Servers \cup {"none"}]
    /\ {plain, returned} \subseteq BOOLEAN
    /\ flight \in [CallIds -> {"idle", "sent", "ok", "limited", "failed"}]
    /\ sent \in [CallIds -> 0 .. 2]
    /\ firstAnswer \in [CallIds -> {"none", "ok", "limited", "failed"}]
    /\ results \in [CallIds -> CallIds \cup {0}]
    /\ todo \subseteq CallIds
    /\ batches \in 0 .. MaxBatches
    /\ limitedServers \subseteq Servers

(***************************************************************************)
(* "Array of results in same order as calls" (executor.ts:372): a batch    *)
(* that returns has an answer for every call, in its place, from the       *)
(* parallel attempt or from the repetition.                                *)
(***************************************************************************)
ResultsInPlace == returned => \A i \in CallIds : results[i] = i

(***************************************************************************)
(* A call is repeated only if its first answer was that of a rate limit:   *)
(* a call that had its effect is not made twice.                           *)
(***************************************************************************)
RepeatsOnlyLimited == \A i \in CallIds : sent[i] > 1 => firstAnswer[i] = "limited"

(***************************************************************************)
(* A batch that has a call for a server known to limit the rate is made    *)
(* one call at a time, unless its calls were given as callbacks.           *)
(***************************************************************************)
KnownLimitIsRespected ==
    \A i, j \in CallIds : i # j /\ flight[i] = "sent" /\ flight[j] = "sent" /\ ~plain
        => target[i] \notin limitedServers

(***************************************************************************)
(* What a batch promises.                                                  *)
(***************************************************************************)
SBInv == SBTypeOK /\ ResultsInPlace /\ RepeatsOnlyLimited /\ KnownLimitIsRespected
=============================================================================
