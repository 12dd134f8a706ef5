------------------------------ MODULE Executor ------------------------------
(***************************************************************************)
(* DenoExecutor (src/runtime/executor.ts): executions of user code in a    *)
(* Deno process each, with a time limit, cancellation by the client, and   *)
(* shutdown.  The abort signal is the client's; processes belong to the    *)
(* operating system.                                                       *)
(***************************************************************************)
EXTENDS Integers, FiniteSets

CONSTANTS
    Executions,               \* calls of execute()
    MaxConcurrentProcesses    \* maxConcurrentProcesses

ASSUME ExecutorAssumption == MaxConcurrentProcesses \in Nat \ {0}

VARIABLES
    exec,             \* the calls
    process,          \* the process of every call
    activeProcesses,  \* its keys
    denoAvailable,    \* "unknown", "yes" or "no"
    shutting          \* "up"; "killing" (shutdown() awaits); "down"

exVars == <<exec, process, activeProcesses, denoAvailable, shutting>>

\* pc: "idle"; "checking" (checkDeno spawned `deno --version'); "running"
\* (runDeno awaits); "returned" with outcome.  killed, cancelled: the variables
\* of runDeno.  aborted: the signal.  escalation: the timer that follows a SIGTERM.
NotStarted == [pc |-> "idle", outcome |-> "none", killed |-> FALSE, cancelled |-> FALSE,
               aborted |-> FALSE, escalation |-> FALSE]

\* state: "none"; "alive"; "term" (got SIGTERM and may ignore it); "exited" (it is
\* dead, the close event is on its way); "closed".  printed: what stdout holds.
NoProcess == [state |-> "none", printed |-> "nothing"]

Outcomes == {"success", "failure", "syntax", "runtime", "noResult", "timeout", "cancelled",
             "notStarted", "noDeno", "refused", "spawnFailed", "threw"}

EXInit ==
    /\ exec = [e \in Executions |-> NotStarted]
    /\ process = [e \in Executions |-> NoProcess]
    /\ activeProcesses = {}
    /\ denoAvailable = "unknown"
    /\ shutting = "up"

Returned(e, o) == [exec[e] EXCEPT !.pc = "returned", !.outcome = o]
Signalled(p, to) == IF p.state \in {"alive", "term"} THEN [p EXCEPT !.state = to] ELSE p

-----------------------------------------------------------------------------
Refused(limit) == shutting # "up" \/ Cardinality(activeProcesses) >= limit

\* A call is refused, or its file cannot be written and the call throws.
NotSpawned(e, refused) ==
    /\ \E o \in {"threw"} \cup (IF refused THEN {"refused"} ELSE {}) :
          exec' = [exec EXCEPT ![e] = Returned(e, o)]
    /\ UNCHANGED <<process, activeProcesses>>

\* The process is spawned; `a' is the signal, which kills it at once.
Spawned(e, a) ==
    /\ activeProcesses' = activeProcesses \cup {e}
    /\ process' = [process EXCEPT ![e] = [NoProcess EXCEPT !.state = IF a THEN "term" ELSE "alive"]]
    /\ exec' = [exec EXCEPT ![e].pc = "running", ![e].killed = a, ![e].cancelled = a,
                            ![e].escalation = a]

\* Mutant: a signal that is set already is only listened to.
runDeno_ListensOnly(e) ==
    \/ NotSpawned(e, Refused(MaxConcurrentProcesses))
    \/ ~Refused(MaxConcurrentProcesses) /\ Spawned(e, FALSE)

\* The rest of execute() once Deno is known to be there, and runDeno up to its
\* promise.
runDeno(e) ==
    \/ NotSpawned(e, Refused(MaxConcurrentProcesses))
    \/ ~Refused(MaxConcurrentProcesses) /\ Spawned(e, exec[e].aborted)

\* execute() up to its first await.
execute(e) ==
    /\ exec[e].pc = "idle"
    /\ \/ /\ exec[e].aborted
          /\ exec' = [exec EXCEPT ![e] = Returned(e, "notStarted")]
          /\ UNCHANGED <<process, activeProcesses>>
       \/ /\ ~exec[e].aborted
          /\ denoAvailable = "unknown"
          /\ exec' = [exec EXCEPT ![e].pc = "checking"]
          /\ UNCHANGED <<process, activeProcesses>>
       \/ /\ ~exec[e].aborted
          /\ denoAvailable = "no"
          /\ exec' = [exec EXCEPT ![e] = Returned(e, "noDeno")]
          /\ UNCHANGED <<process, activeProcesses>>
       \/ /\ ~exec[e].aborted
          /\ denoAvailable = "yes"
          /\ runDeno(e)
    /\ UNCHANGED <<denoAvailable, shutting>>

\* checkDeno() has its answer, which the next calls take from the cache.
checkDeno(e) ==
    /\ exec[e].pc = "checking"
    /\ \/ /\ denoAvailable' = "yes"
          /\ runDeno(e)
       \/ /\ denoAvailable' = "no"
          /\ exec' = [exec EXCEPT ![e] = Returned(e, "noDeno")]
          /\ UNCHANGED <<process, activeProcesses>>
    /\ UNCHANGED shutting

\* The client cancels: onAbort, if the process is being listened for.
abort(e) ==
    /\ ~exec[e].aborted
    /\ exec[e].pc # "returned"
    /\ IF exec[e].pc = "running"
       THEN /\ exec' = [exec EXCEPT ![e].aborted = TRUE, ![e].killed = TRUE, ![e].cancelled = TRUE,
                                    ![e].escalation = TRUE]
            /\ process' = [process EXCEPT ![e] = Signalled(@, "term")]
       ELSE /\ exec' = [exec EXCEPT ![e].aborted = TRUE]
            /\ UNCHANGED process
    /\ UNCHANGED <<activeProcesses, denoAvailable, shutting>>

\* The grace period of onAbort is over.
escalate(e) ==
    /\ exec[e].escalation
    /\ exec' = [exec EXCEPT ![e].escalation = FALSE]
    /\ process' = IF e \in activeProcesses THEN [process EXCEPT ![e] = Signalled(@, "exited")] ELSE process
    /\ UNCHANGED <<activeProcesses, denoAvailable, shutting>>

\* Mutant: the time limit is announced with SIGTERM.
timeLimit_Polite(e) ==
    /\ exec[e].pc = "running"
    /\ exec' = [exec EXCEPT ![e].killed = TRUE]
    /\ process' = [process EXCEPT ![e] = Signalled(@, "term")]
    /\ UNCHANGED <<activeProcesses, denoAvailable, shutting>>

\* The time limit: SIGKILL.
timeLimit(e) ==
    /\ exec[e].pc = "running"
    /\ exec' = [exec EXCEPT ![e].killed = TRUE]
    /\ process' = [process EXCEPT ![e] = Signalled(@, "exited")]
    /\ UNCHANGED <<activeProcesses, denoAvailable, shutting>>

-----------------------------------------------------------------------------
\* The process prints its result or part of it (beyond maxOutputBytes the rest
\* is cut off), or an error.  It prints a result only once.
prints(e) ==
    /\ process[e].state \in {"alive", "term"}
    /\ process[e].printed = "nothing"
    /\ \E what \in {"success", "failure", "syntax", "runtime"} :
          process' = [process EXCEPT ![e].printed = what]
    /\ UNCHANGED <<exec, activeProcesses, denoAvailable, shutting>>

\* It ends by itself, or on SIGTERM.
exits(e) ==
    /\ process[e].state \in {"alive", "term"}
    /\ process' = [process EXCEPT ![e].state = "exited"]
    /\ UNCHANGED <<exec, activeProcesses, denoAvailable, shutting>>

\* What the close handler makes of it.
Verdict(e) ==
    IF exec[e].cancelled THEN "cancelled"
    ELSE IF exec[e].killed THEN "timeout"
    ELSE IF process[e].printed = "nothing" THEN "noResult"
    ELSE process[e].printed

\* proc.on('close'), and the finally of execute().
close(e) ==
    /\ process[e].state = "exited"
    /\ process' = [process EXCEPT ![e].state = "closed"]
    /\ activeProcesses' = activeProcesses \ {e}
    /\ exec' = [exec EXCEPT ![e] = Returned(e, Verdict(e))]
    /\ UNCHANGED <<denoAvailable, shutting>>

\* proc.on('error'): the process could not be spawned.  If Deno is gone it is
\* looked for again the next time.
spawnError(e) ==
    /\ process[e].state \in {"alive", "term"}
    /\ process[e].printed = "nothing"
    /\ process' = [process EXCEPT ![e].state = "closed"]
    /\ activeProcesses' = activeProcesses \ {e}
    /\ exec' = [exec EXCEPT ![e] = Returned(e, "spawnFailed")]
    /\ denoAvailable' \in {denoAvailable, "unknown"}
    /\ UNCHANGED shutting

-----------------------------------------------------------------------------
\* shutdown() up to its await: SIGTERM for every process.
executorShutdown ==
    /\ shutting = "up"
    /\ shutting' = IF activeProcesses = {} THEN "down" ELSE "killing"
    /\ process' = [e \in Executions |-> IF e \in activeProcesses THEN Signalled(process[e], "term")
                                        ELSE process[e]]
    /\ UNCHANGED <<exec, activeProcesses, denoAvailable>>

\* Its grace period is over for some: SIGKILL.
forceKill(e) ==
    /\ shutting = "killing"
    /\ process' = [process EXCEPT ![e] = Signalled(@, "exited")]
    /\ process' # process
    /\ UNCHANGED <<exec, activeProcesses, denoAvailable, shutting>>

\* Every process is closed or was killed.
shutdownDone ==
    /\ shutting = "killing"
    /\ \A e \in activeProcesses : process[e].state \in {"exited", "closed"}
    /\ shutting' = "down"
    /\ activeProcesses' = {}
    /\ UNCHANGED <<exec, process, denoAvailable>>

EXNext ==
    \/ \E e \in Executions : \/ execute(e) \/ checkDeno(e) \/ abort(e) \/ escalate(e) \/ timeLimit(e)
                             \/ prints(e) \/ exits(e) \/ close(e) \/ spawnError(e) \/ forceKill(e)
    \/ executorShutdown \/ shutdownDone

EXSpec == EXInit /\ [][EXNext]_exVars

\* Timers fire, events of processes arrive.  User code need not end, nor heed
\* SIGTERM.  In every execution with a time limit SIGKILL ends it.
EXFairness ==
    /\ \A e \in Executions : /\ WF_exVars(checkDeno(e)) /\ WF_exVars(escalate(e))
                             /\ WF_exVars(timeLimit(e)) /\ WF_exVars(close(e))
                             /\ WF_exVars(forceKill(e))
    /\ WF_exVars(shutdownDone)

-----------------------------------------------------------------------------
EXTypeOK ==
    /\ exec \in [Executions -> [pc : {"idle", "checking", "running", "returned"},
                                outcome : Outcomes \cup {"none"}, killed : BOOLEAN, cancelled : BOOLEAN,
                                aborted : BOOLEAN, escalation : BOOLEAN]]
    /\ process \in [Executions -> [state : {"none", "alive", "term", "exited", "closed"},
                                   printed : {"nothing", "success", "failure", "syntax", "runtime"}]]
    /\ activeProcesses \subseteq Executions
    /\ denoAvailable \in {"unknown", "yes", "no"}
    /\ shutting \in {"up", "killing", "down"}

Living == {e \in Executions : process[e].state \in {"alive", "term"}}

(***************************************************************************)
(* There are never more living processes than the limit, and each of them  *)
(* is known to shutdown().                                                 *)
(***************************************************************************)
LivingAreActive == Living \subseteq activeProcesses /\ Cardinality(Living) <= MaxConcurrentProcesses

(***************************************************************************)
(* When shutdown() has returned no process lives, also if an execution was *)
(* under way between its checks at that moment.                            *)
(***************************************************************************)
NoneOutlivesShutdown == shutting = "down" => Living = {}

(***************************************************************************)
(* A client that cancelled while its code was about to run or running is   *)
(* told so: whatever the process printed, and whether or not the time      *)
(* limit struck too.                                                       *)
(***************************************************************************)
CancellationIsReported ==
    \A e \in Executions : exec[e].pc = "returned" /\ exec[e].aborted
        => exec[e].outcome \in {"cancelled", "notStarted", "noDeno", "refused", "spawnFailed", "threw"}

(***************************************************************************)
(* Every execution returns, whatever the user's code does, and so does     *)
(* shutdown().                                                             *)
(***************************************************************************)
ExecutionReturns ==
    /\ \A e \in Executions : exec[e].pc \in {"checking", "running"} ~> exec[e].pc = "returned"
    /\ shutting = "killing" ~> shutting = "down"

(***************************************************************************)
(* The types and the accounting of processes and outcomes.                 *)
(***************************************************************************)
EXInv == EXTypeOK /\ LivingAreActive /\ NoneOutlivesShutdown /\ CancellationIsReported
=============================================================================
