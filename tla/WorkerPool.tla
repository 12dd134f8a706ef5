----------------------------- MODULE WorkerPool -----------------------------
(***************************************************************************)
(* The pool of warm Deno workers (src/runtime/pool/worker-pool.ts,         *)
(* worker.ts, recycle.ts): jobs are run by idle workers or queued, workers *)
(* are replaced when they are old, worn or broken.                         *)
(*                                                                         *)
(* Events (output of a worker, its exit, timers, calls from outside) run   *)
(* one at a time, each followed by the continuations it made ready, which  *)
(* `micro' lists in order.  A continuation is a "check" (the code of       *)
(* _runOnWorker after its await, up to _maybeRecycle), a "drain"           *)
(* (_drainQueue), or a "remove" (the catch of a failed start()).           *)
(*                                                                         *)
(* Workers are numbered as they are made: 1 .. Size by warmUp(), the others*)
(* as replacements, at most one for every job.                             *)
(***************************************************************************)
EXTENDS Integers, Sequences, FiniteSets, Queues

CONSTANTS
    Size,             \* options.size
    MaxJobsPerWorker,
    Jobs              \* the jobs ever submitted

ASSUME PoolAssumption ==
    Size \in Nat \ {0} /\ MaxJobsPerWorker \in Nat \ {0} /\ IsFiniteSet(Jobs)

VARIABLES
    \* of a PooledWorker
    state,     \* "none", "starting", "idle", "busy", "recycling" or "dead"
    proc,      \* its process: "none", "alive", "killed" or "gone" (closed)
    booting,   \* start() is in its pause
    jobsRun,
    aged,      \* it is older than maxAgeMs
    pending,   \* this.pending: the jobs whose promise it has to settle
    sent,      \* the jobs the process has been sent and not answered
    \* of the WorkerPool
    workers,   \* this.workers, an array of worker numbers
    made,      \* how many workers were made
    queue,     \* this.queue
    phase,     \* "up", "draining" (isShuttingDown) or "down"
    draining,  \* the workers shutdown(true) waits for
    \* of the callers
    jst,       \* "new", "queued", "running", "done" or "failed"
    aborted,   \* the jobs whose AbortSignal has fired
    micro      \* continuations that are ready to run

workerVars == <<state, proc, booting, jobsRun, aged, pending, sent>>
poolVars == <<workers, made, queue, phase, draining>>
vars == <<workerVars, poolVars, jst, aborted, micro>>

Worker == 1 .. Size + Cardinality(Jobs)

Quiet == micro = <<>>

\* The promise of warmUp() has settled: its callers wait for that.
WarmedUp == \A w \in 1 .. Size : ~booting[w]

Idle == {i \in DOMAIN workers : state[workers[i]] = "idle"}

\* _findIdle: the first idle one of the array.
_findIdle == workers[CHOOSE i \in Idle : \A h \in Idle : i <= h]

\* why: the job got a "result", ended in an "error" or by "abort".
Check(w, why) == [kind |-> "check", worker |-> w, why |-> why]
Drain == [kind |-> "drain", worker |-> 0, why |-> "none"]
Remove(w) == [kind |-> "remove", worker |-> w, why |-> "none"]

\* The pool right after the constructor and the synchronous part of warmUp().
\* A worker whose start() has thrown will not join the array.
Init ==
    /\ state = [w \in Worker |-> IF w <= Size THEN "starting" ELSE "none"]
    /\ \E up \in SUBSET (1 .. Size) : booting = [w \in Worker |-> w \in up]
    /\ proc = [w \in Worker |-> IF booting[w] THEN "alive" ELSE "none"]
    /\ jobsRun = [w \in Worker |-> 0]
    /\ aged = [w \in Worker |-> FALSE]
    /\ pending = [w \in Worker |-> {}]
    /\ sent = [w \in Worker |-> <<>>]
    /\ workers = <<>>
    /\ made = Size
    /\ queue = <<>>
    /\ phase = "up"
    /\ draining = {}
    /\ jst = [j \in Jobs |-> "new"]
    /\ aborted = {}
    /\ micro = <<>>

-----------------------------------------------------------------------------
\* start() after its pause: idle, whatever happened in between.  A worker of
\* warmUp() joins the array now, a replacement drains the queue.
started(w) ==
    /\ Quiet
    /\ booting[w]
    /\ booting' = [booting EXCEPT ![w] = FALSE]
    /\ state' = [state EXCEPT ![w] = "idle"]
    /\ workers' = IF w <= Size THEN Append(workers, w) ELSE workers
    /\ micro' = IF w <= Size THEN micro ELSE <<Drain>>
    /\ UNCHANGED <<proc, jobsRun, aged, pending, sent, made, queue, phase, draining, jst, aborted>>

\* _runOnWorker up to its await, on an idle worker: the job is sent, unless
\* the process is gone or the signal has fired already, in which case
\* worker.execute() rejects and the check follows.
Run(w, j, later) ==
    IF proc[w] = "gone" \/ j \in aborted
    THEN /\ jst' = [jst EXCEPT ![j] = "failed"]
         /\ micro' = Append(later, Check(w, "error"))
         /\ UNCHANGED <<state, jobsRun, pending, sent>>
    ELSE /\ state' = [state EXCEPT ![w] = "busy"]
         /\ jobsRun' = [jobsRun EXCEPT ![w] = @ + 1]
         /\ pending' = [pending EXCEPT ![w] = @ \cup {j}]
         /\ sent' = [sent EXCEPT ![w] = Append(@, j)]
         /\ jst' = [jst EXCEPT ![j] = "running"]
         /\ micro' = later

\* execute(), after warmUp().  It is called by an event, or by the code that
\* has just aborted a job, before that job's check has run.
CallersTurn == Quiet \/ (Len(micro) = 1 /\ micro[1].why = "abort")

execute(j) ==
    /\ CallersTurn
    /\ jst[j] = "new"
    /\ WarmedUp
    /\ \/ /\ phase # "up"
          /\ jst' = [jst EXCEPT ![j] = "failed"]
          /\ UNCHANGED <<workerVars, poolVars, micro>>
       \/ /\ phase = "up"
          /\ Idle # {}
          /\ Run(_findIdle, j, micro)
          /\ UNCHANGED <<proc, booting, aged, poolVars>>
       \/ /\ phase = "up"
          /\ Idle = {}
          /\ queue' = Append(queue, j)
          /\ jst' = [jst EXCEPT ![j] = "queued"]
          /\ UNCHANGED <<workerVars, workers, made, phase, draining, micro>>
    /\ UNCHANGED aborted

\* Mutant: the job is refused and stays in the queue.
acquireTimeout_Kept(j) ==
    /\ Quiet
    /\ jst[j] = "queued"
    /\ jst' = [jst EXCEPT ![j] = "failed"]
    /\ UNCHANGED <<workerVars, poolVars, aborted, micro>>

\* The acquire timeout of a queued job.
acquireTimeout(j) ==
    /\ Quiet
    /\ jst[j] = "queued"
    /\ queue' = Removed(queue, j)
    /\ jst' = [jst EXCEPT ![j] = "failed"]
    /\ UNCHANGED <<workerVars, workers, made, phase, draining, aborted, micro>>

\* The caller's AbortSignal fires.  A running job is given up and its worker
\* is idle again, although the process is still at it; a job that has not
\* started will find the signal fired when it does.
abort(j) ==
    /\ Quiet
    /\ jst[j] \in {"new", "queued", "running"}
    /\ j \notin aborted
    /\ aborted' = aborted \cup {j}
    /\ \/ /\ jst[j] # "running"
          /\ UNCHANGED <<workerVars, jst, micro>>
       \/ \E w \in Worker :
             /\ j \in pending[w]
             /\ pending' = [pending EXCEPT ![w] = @ \ {j}]
             /\ state' = [state EXCEPT ![w] = "idle"]
             /\ jst' = [jst EXCEPT ![j] = "failed"]
             /\ micro' = <<Check(w, "abort")>>
             /\ UNCHANGED <<proc, booting, jobsRun, aged, sent>>
    /\ UNCHANGED poolVars

\* _handleLine: the process answers the oldest job it was sent.  The answer to
\* a job that was given up is dropped.
_handleLine(w) ==
    LET j == Head(sent[w]) IN
    /\ Quiet
    /\ proc[w] \in {"alive", "killed"}
    /\ sent[w] # <<>>
    /\ sent' = [sent EXCEPT ![w] = Tail(@)]
    /\ IF j \in pending[w]
       THEN /\ pending' = [pending EXCEPT ![w] = @ \ {j}]
            /\ state' = [state EXCEPT ![w] = "idle"]
            /\ jst' = [jst EXCEPT ![j] = "done"]
            /\ micro' = <<Check(w, "result")>>
       ELSE UNCHANGED <<pending, state, jst, micro>>
    /\ UNCHANGED <<proc, booting, jobsRun, aged, poolVars, aborted>>

\* Mutant: the pending job is not rejected.
_handleClose_Silent(w) ==
    /\ Quiet
    /\ proc[w] \in {"alive", "killed"}
    /\ proc' = [proc EXCEPT ![w] = "gone"]
    /\ sent' = [sent EXCEPT ![w] = <<>>]
    /\ state' = [state EXCEPT ![w] = "dead"]
    /\ UNCHANGED <<booting, jobsRun, aged, pending, poolVars, jst, aborted, micro>>

\* _handleClose: the process is gone.  "dead" is set first, and rejecting the
\* pending job sets "idle" again.
_handleClose(w) ==
    /\ Quiet
    /\ proc[w] \in {"alive", "killed"}
    /\ proc' = [proc EXCEPT ![w] = "gone"]
    /\ sent' = [sent EXCEPT ![w] = <<>>]
    /\ state' = [state EXCEPT ![w] = IF pending[w] = {} THEN "dead" ELSE "idle"]
    /\ pending' = [pending EXCEPT ![w] = {}]
    /\ jst' = [j \in Jobs |-> IF j \in pending[w] THEN "failed" ELSE jst[j]]
    /\ micro' = IF pending[w] = {} THEN <<>> ELSE <<Check(w, "error")>>
    /\ UNCHANGED <<booting, jobsRun, aged, poolVars, aborted>>

-----------------------------------------------------------------------------
\* worker.shutdown(false) of the workers in W.
Terminated(W) ==
    /\ state' = [w \in Worker |-> IF w \in W /\ state[w] # "dead" THEN "recycling" ELSE state[w]]
    /\ proc' = [w \in Worker |-> IF w \in W /\ state[w] # "dead" /\ proc[w] = "alive"
                                 THEN "killed" ELSE proc[w]]

\* evaluateRecycle.
ShouldRecycle(w) ==
    \/ state[w] \in {"dead", "recycling"}
    \/ aged'[w]
    \/ jobsRun[w] >= MaxJobsPerWorker

\* _maybeRecycle puts the replacement r in the place of w, or at the end when
\* w is not in the array (any more); start() may fail at once.
Replaced(w, r, rest) ==
    /\ made' = r
    /\ workers' = IF w \in Elements(workers)
                  THEN [i \in DOMAIN workers |-> IF workers[i] = w THEN r ELSE workers[i]]
                  ELSE Append(workers, r)
    /\ state' = [state EXCEPT ![r] = "starting",
                              ![w] = IF @ = "dead" THEN @ ELSE "recycling"]
    /\ \E ok \in BOOLEAN :
          /\ booting' = [booting EXCEPT ![r] = ok]
          /\ proc' = [proc EXCEPT ![r] = IF ok THEN "alive" ELSE "none",
                                  ![w] = IF @ = "alive" /\ state[w] # "dead"
                                         THEN "killed" ELSE @]
          /\ micro' = IF ok THEN rest ELSE Append(rest, Remove(r))

\* The end of _runOnWorker: _maybeRecycle, and after a result _drainQueue.
check ==
    LET w == micro[1].worker
        rest == IF micro[1].why = "result" THEN Append(Tail(micro), Drain) ELSE Tail(micro)
    IN
    /\ ~Quiet
    /\ micro[1].kind = "check"
    /\ \E old \in {aged[w], TRUE} : aged' = [aged EXCEPT ![w] = old]
    /\ \/ /\ ~ShouldRecycle(w)
          /\ micro' = rest
          /\ UNCHANGED <<state, proc, booting, workers, made>>
       \/ /\ ShouldRecycle(w)
          /\ phase = "up"
          /\ Replaced(w, made + 1, rest)
       \/ /\ ShouldRecycle(w)
          /\ phase # "up"
          /\ Terminated({w})
          /\ workers' = Removed(workers, w)
          /\ micro' = rest
          /\ UNCHANGED <<booting, made>>
    /\ UNCHANGED <<jobsRun, pending, sent, queue, phase, draining, jst, aborted>>

\* One round of the loop of _drainQueue, or its end.
_drainQueue ==
    /\ ~Quiet
    /\ micro[1].kind = "drain"
    /\ IF queue # <<>> /\ Idle # {}
       THEN /\ Run(_findIdle, Head(queue), micro)
            /\ queue' = Tail(queue)
            /\ UNCHANGED <<proc, booting, aged, workers, made, phase, draining>>
       ELSE /\ micro' = Tail(micro)
            /\ UNCHANGED <<workerVars, poolVars, jst>>
    /\ UNCHANGED aborted

\* The replacement whose start() failed is taken out again.
_removeWorker ==
    /\ ~Quiet
    /\ micro[1].kind = "remove"
    /\ workers' = Removed(workers, micro[1].worker)
    /\ micro' = Tail(micro)
    /\ UNCHANGED <<workerVars, made, queue, phase, draining, jst, aborted>>

-----------------------------------------------------------------------------
\* Mutant: a worker that is starting is left alone.
shutdown_IdleOnly ==
    /\ CallersTurn
    /\ phase = "up"
    /\ WarmedUp
    /\ phase' = "draining"
    /\ jst' = [j \in Jobs |-> IF j \in Elements(queue) THEN "failed" ELSE jst[j]]
    /\ queue' = <<>>
    /\ draining' = {w \in Elements(workers) : state[w] = "busy"}
    /\ Terminated({w \in Elements(workers) : state[w] = "idle"})
    /\ UNCHANGED <<booting, jobsRun, aged, pending, sent, workers, made, aborted, micro>>

\* shutdown(): refuse the queue, terminate the workers that are not busy.
shutdown ==
    /\ CallersTurn
    /\ phase = "up"
    /\ WarmedUp
    /\ phase' = "draining"
    /\ jst' = [j \in Jobs |-> IF j \in Elements(queue) THEN "failed" ELSE jst[j]]
    /\ queue' = <<>>
    /\ draining' = {w \in Elements(workers) : state[w] = "busy"}
    /\ Terminated(Elements(workers) \ draining')
    /\ UNCHANGED <<booting, jobsRun, aged, pending, sent, workers, made, aborted, micro>>

\* Mutant: the poll waits for "idle", which a recycled worker never is.
drained_WhenIdle(w) ==
    /\ Quiet
    /\ w \in draining
    /\ state[w] = "idle"
    /\ draining' = draining \ {w}
    /\ state' = [state EXCEPT ![w] = "recycling"]
    /\ proc' = [proc EXCEPT ![w] = IF @ = "alive" THEN "killed" ELSE @]
    /\ UNCHANGED <<booting, jobsRun, aged, pending, sent, workers, made, queue, phase,
                   jst, aborted, micro>>

\* The poll of a draining worker finds it not busy.
drained(w) ==
    /\ Quiet
    /\ w \in draining
    /\ state[w] # "busy"
    /\ draining' = draining \ {w}
    /\ state' = [state EXCEPT ![w] = "recycling"]
    /\ proc' = [proc EXCEPT ![w] = IF @ = "alive" THEN "killed" ELSE @]
    /\ UNCHANGED <<booting, jobsRun, aged, pending, sent, workers, made, queue, phase,
                   jst, aborted, micro>>

shutdownComplete ==
    /\ Quiet
    /\ phase = "draining"
    /\ draining = {}
    /\ phase' = "down"
    /\ workers' = <<>>
    /\ UNCHANGED <<workerVars, made, queue, draining, jst, aborted, micro>>

Next ==
    \/ \E w \in Worker : started(w) \/ _handleLine(w) \/ _handleClose(w) \/ drained(w)
    \/ \E j \in Jobs : execute(j) \/ acquireTimeout(j) \/ abort(j)
    \/ check
    \/ _drainQueue
    \/ _removeWorker
    \/ shutdown
    \/ shutdownComplete

Spec == Init /\ [][Next]_vars

\* Timers fire, continuations run, and a process that was killed is gone some
\* time (SIGKILL follows SIGTERM); the program of a job comes to an end, which
\* nothing in the pool enforces: a job has no time limit of its own.
Fairness ==
    /\ \A w \in Worker : /\ WF_vars(started(w))
                         /\ WF_vars(_handleLine(w))
                         /\ WF_vars(proc[w] = "killed" /\ _handleClose(w))
                         /\ WF_vars(drained(w))
    /\ \A j \in Jobs : WF_vars(acquireTimeout(j))
    /\ WF_vars(check) /\ WF_vars(_drainQueue) /\ WF_vars(_removeWorker)
    /\ WF_vars(shutdownComplete)

FairSpec == Spec /\ Fairness

-----------------------------------------------------------------------------
TypeOK ==
    /\ state \in [Worker -> {"none", "starting", "idle", "busy", "recycling", "dead"}]
    /\ proc \in [Worker -> {"none", "alive", "killed", "gone"}]
    /\ booting \in [Worker -> BOOLEAN]
    /\ jobsRun \in [Worker -> Nat]
    /\ aged \in [Worker -> BOOLEAN]
    /\ pending \in [Worker -> SUBSET Jobs]
    /\ sent \in [Worker -> Seq(Jobs)]
    /\ workers \in Seq(Worker)
    /\ made \in Worker
    /\ queue \in Seq(Jobs)
    /\ phase \in {"up", "draining", "down"}
    /\ draining \subseteq Worker
    /\ jst \in [Jobs -> {"new", "queued", "running", "done", "failed"}]
    /\ aborted \subseteq Jobs
    /\ micro \in Seq([kind : {"check", "drain", "remove"}, worker : Worker \cup {0},
                       why : {"result", "error", "abort", "none"}])

(***************************************************************************)
(* Somebody is going to settle the promise execute() returned for every    *)
(* job: a queued job is in the queue, once; a running one is pending at    *)
(* exactly one worker, which waits for no other job, is not on offer as    *)
(* idle, and has a process that is there to answer or to exit.             *)
(***************************************************************************)
JobsAccounted ==
    /\ Once(queue)
    /\ \A j \in Jobs :
          /\ jst[j] = "queued" <=> j \in Elements(queue)
          /\ jst[j] = "running" <=> \E w \in Worker : j \in pending[w]
          /\ \A w \in Worker : j \in pending[w] =>
                /\ state[w] \in {"busy", "recycling"}
                /\ proc[w] \in {"alive", "killed"}
                /\ pending[w] = {j}
                /\ \A v \in Worker : j \in pending[v] => v = w

(***************************************************************************)
(* _maybeRecycle swaps the replacement in before it terminates the old     *)
(* worker (B7): until the pool shuts down no worker it has told to stop is *)
(* in the array, and none is in it twice, however many checks of one       *)
(* worker an abort makes overlap.                                          *)
(***************************************************************************)
RecycledLeaves ==
    /\ phase = "up" => \A i \in DOMAIN workers : state[workers[i]] # "recycling"
    /\ Once(workers)

PoolInv == TypeOK /\ JobsAccounted /\ RecycledLeaves

(***************************************************************************)
(* No process outlives the pool: once shutdown() is complete every worker  *)
(* has been killed or is gone, the replacement that was still starting and *)
(* the worker that was busy included.                                      *)
(***************************************************************************)
NoOrphans == phase = "down" => \A w \in Worker : proc[w] # "alive"

(***************************************************************************)
(* Every submitted job gets a result or an error, whatever worker crash,   *)
(* recycling, abort or shutdown comes in between.                          *)
(***************************************************************************)
EveryJobSettles ==
    \A j \in Jobs : jst[j] \in {"queued", "running"} ~> jst[j] \in {"done", "failed"}

(***************************************************************************)
(* shutdown() terminates: its wait for the busy workers ends, also when    *)
(* one of them crashes or is recycled meanwhile.                           *)
(***************************************************************************)
ShutdownEnds == phase = "draining" ~> phase = "down"

-----------------------------------------------------------------------------
(***************************************************************************)
(* worker-pool.ts:16: "After any uncaught error the worker is replaced     *)
(* immediately": once the checks have run no worker of the array that was  *)
(* given a job is without a process.  (One that exits while it is busy is  *)
(* set to "idle" again by the rejection of its job.)                       *)
(***************************************************************************)
CrashedAreReplaced ==
    Quiet /\ phase = "up" =>
        \A i \in DOMAIN workers : jobsRun[workers[i]] > 0 => proc[workers[i]] # "gone"
=============================================================================
