# MCP Conductor: TLA+ models

MCP Conductor sits between an AI client and many MCP backend servers: it runs
sandboxed programs, calls backend tools for them, and shields those calls with
timeouts, retries, circuit breakers, rate limits, caches, pools and a shared
daemon. This directory holds TLA+ models of the parts of `src/` whose
correctness depends on the order in which things happen, the TLC runs that
check them on small instances, and theorems about them that TLAPS checks for
every value of the constants. `PROJECT.json` relates every definition to the
source lines it models. Paths below are relative to the repository.

Contents: [Inventory](#inventory), [How the code is modelled](#how-the-code-is-modelled),
[Modules](#modules), [Runs](#runs), [Fairness](#fairness), [Proofs](#proofs),
[Findings](#findings), [Not modelled](#not-modelled), [Plan](#plan).

## Inventory

### How the parts interact

A client calls the tools of `MCPExecutorServer` (`server/mcp-server.ts`). The
main one, `execute_code`, hands a program to the `DenoExecutor`
(`runtime/executor.ts`), which runs it in a sandboxed process or on the worker
pool. The program calls back into the conductor over the HTTP bridge
(`bridge/http-server.ts`). A tool call of the program then takes the path

    bridge -> CacheLayer.get -> ReliabilityGateway.call -> MCPHub.callTool -> backend
           -> CacheLayer.set

in `mcp-server.ts`: the cache answers if it can, the gateway admits, limits and
retries, the hub waits for a token of the server's rate limiter and uses the
connection it keeps. Beside this path the config watcher reloads the hub, the
registry keeps the catalogue of tools, metrics and streams observe executions,
and several conductors share a daemon for key-value data, locks and broadcasts.

Everything runs on Node's event loop: one callback at a time. What makes the
code hard is what happens *between* callbacks: state read before an `await` and
used after it, timers that race answers, processes that exit at any moment,
sockets that close, and crashes between two writes.

### Components

| Component (source) | State | Operations | What is hard | What makes it correct |
|---|---|---|---|---|
| Circuit breaker (`reliability/breaker.ts`) | state, rolling outcomes, `lastTrip`, `probeInFlight` | `allowCall`, `recordSuccess`, `recordFailure`, `currentState`, `reset` | late outcomes of calls admitted earlier; lazy open to half-open transition | one probe per half-open period, flag tells the truth, never shut for good |
| Gateway, retry, timeout, profiles (`reliability/*.ts`) | statistics, one breaker per server | `call`, `resetCircuit`, readers | retries of mutations, timers racing answers, five exits of a call | mutations sent once, statistics balance, every call settles |
| Shared lock (`daemon/shared-lock.ts`) | per key: promise chain, `waiters` | `acquire`, `release` | time limit in the middle of the chain, deletion of the entry | mutual exclusion, first come first served |
| Daemon server (`daemon/server.ts`) | sockets, `ClientState`, lock handles | connect, authenticate, lock/KV/broadcast/ping/stats requests, close, start, shutdown | disconnect while a request waits, pipelined requests, shutdown races, two daemons starting | handles are the locks held, nothing outlives its client, shutdown ends |
| Daemon key-value store (`daemon/shared-kv.ts`) | entries with expiry, `dirty`, snapshot file | `get`, `set`, `delete`, `clear`, sweep, flush, load | crash inside a flush, expiry on both sides | a clean store is saved, changes reach the disk |
| Daemon client (`daemon/client.ts`, `sandbox-api.ts`) | socket, pending requests, subscriptions | `connect`, `rpc`, `close` | reconnect while the old socket closes; requests without a time limit | every request settles, an old socket cannot disturb a new one |
| Worker pool (`runtime/pool/*.ts`) | workers with their processes, queue | `warmUp`, `execute`, abort, recycle, `shutdown` | answers, aborts, exits and recycling in one turn of the loop | every job settles once, no process is left |
| Executor (`runtime/executor.ts`) | processes, abort handlers; inside the sandbox the servers known to limit the rate | `execute`, abort, time limits, `shutdown`; `batch`, `callTool` of the sandbox | time limit, cancellation and shutdown racing the exit of the process; batches of which some calls are repeated | an execution ends once, no process survives shutdown, answers are in the order of the calls |
| MCP hub (`hub/mcp-hub.ts`) | connections, tool cache, reconnect timers and attempts | `connectServer`, `reload`, reconnect, `callTool`, `shutdown` | everything is keyed by server name across awaits | no server forgotten, loss noticed, calls return |
| Rate limiter (`utils/rate-limiter.ts`) | tokens, queue | `acquire`, refill timer, `destroy` | new requests overtake the queue, time limits in the queue | never more than the rate, queued requests settle |
| Call path of the bridge (`callTool` in `server/mcp-server.ts`, `observability/*.ts`) | samples of profiler, anomaly detector and cost predictor | one call of a tool | the tool's annotation and its cache entry change between the steps | redacted answers stay redacted, observers see the same calls |
| Cache (`cache/*.ts`) | memory tier, disk tier, `revalidating` | `get`, `set`, `invalidate`, refresh, eviction, rotation | refreshes in flight, tiers that disagree, shared file names | one refresh per key, stale values are chased, a tool gets its own results |
| Connection pool, bridge, sessions (`bridge/*.ts`) | pooled connections, HTTP sessions | acquire, release, health check; requests | limits, waiters, idle eviction | limit kept, waiters served or refused |
| Tool registry (`registry/*.ts`) | tools per server, snapshot file, listeners | refresh, annotate, snapshot | concurrent refreshes, events during iteration | catalogue equals the last answers |
| Streaming (`streaming/execution-stream.ts`) | streams, subscribers | start, progress, complete, cleanup | completion racing removal | events in order, ended streams freed |
| Config watcher (`watcher/config-watcher.ts`) | debounce timer | file event, reload, stop | overlapping reloads | the last change is loaded |
| MCP server, mode handler, metrics (`server/*.ts`, `modes`, `metrics`) | registered tools, switches, stored executions, counters | start, tool handlers, `set_mode`, `compare_modes`, reset | switches that change between the awaits of a handler | the books agree with the answers |
| Recordings (`observability/replay.ts`) | active sessions, journals on disk | start, record, stop, replay, rotation | rotation of a file that is written to, crashes inside a line | a recording replays as it was written |
| Configuration and command line (`config`, `cli`, `bin`) | the conductor's file, the Claude file, backups | load, save, add, update, remove, import, export, wizard, routing | the file is rewritten whole and without a lock, saves fail or are cut off | what is loaded is what the answers said, no definition is lost |
| Client adapters (`cli/clients/*.ts`) | ten kinds of configuration files and their backups | `parse`, `serialize` | each understands part of its file; the user writes too | what a rewrite drops is in a backup, a file written parses again |
| Skills engine | skills | load, watch | | see [Not modelled](#not-modelled) |
| Pure helpers (`cache/policy.ts`, `cache/delta.ts`, `runtime/helpers`, `utils/tokenize.ts`, `redact.ts`) | none | functions | edge cases | agree with a reference definition |
| Tool search, type generation, discovery | indices, text | functions, I/O | none that a model adds to | see [Not modelled](#not-modelled) |

## How the code is modelled

An action is the code that runs without interruption: from an event (a call, a
message, a timer, an exit) to the next `await`. Where the order of microtasks
within one event matters, as in the worker pool, the ready continuations are a
queue in the state and no other event happens before it is empty; in the hub and
the cache, steps that follow in the same turn are merged into their event. A
name such as `connectServer`, `_handleClose` or `recordFailure` is that of the
function in the source; actions without a function of their own are named after
what happened (`timedOut`, `closed`, `answered`).

Time is kept as saturated ages and remaining times: only comparisons with the
configured spans matter. Payloads are model values. Counters that grow without
limit in the code are bounded by a named constant (`MaxCalls`, `MaxTickets`,
`MaxConnections`, `MaxFaults`, `MaxReloads`, `MaxOpened`, `MaxSockets`,
`MaxIds`, `MaxStarts`, `MaxSessionsMade`, `MaxReports`, `MaxBatches`,
`MaxEvents`, `MaxEdits`, `MaxAbandoned`) and only the environment's actions (a new call, a new
fault) are cut off by the bound.

Parts that share no state are checked side by side: a module such as
`MCToolCall` extends several components and has a variable `focus`, chosen in
the initial state, that says which of them moves. The others keep their initial
state, so the state spaces add up and no interleaving is lost: what one part
does cannot touch another. Where two components do interact, they are in one
module (`DaemonServer` over `SharedLock`, `ReliabilityGateway` over
`CircuitBreaker`, `RateLimiter` with `callTool()` of the hub, `DaemonClient`
with the server's end of the socket, `ConfigWatcher` with the reload it
triggers, `CacheLayer` with the calls and refreshes).

## Modules

| Module | Models | Notes |
|---|---|---|
| `CircuitBreaker` | `reliability/breaker.ts` | variables `state`, `oks` and `fails` (the window, by age), `sinceTrip`, `probeInFlight`, `minCalls`; one operator per method, used by the gateway |
| `ReliabilityProfile` | `reliability/profile.ts` | layered resolution, for `retries` and `circuitBreakerMinCalls`; mutation default |
| `ReliabilityGateway` | `gateway.ts`, `retry.ts`, `timeout.ts`, `errors.ts` | extends both; `Begin` is the synchronous head of `call()`, then the outcome of an attempt, `TimeOut`, `WakeUp` |
| `MCReliabilityGateway` | | a read that is retried, a mutation that is not, profiles for them |
| `Mutex` | | abstract promise of a lock: requests get in line and are served in turn |
| `SharedLock` | `daemon/shared-lock.ts` | a ticket is one `acquire`; `prev[t]` is the promise it awaits; `locks[k]` the map entry |
| `DaemonServer` | `daemon/server.ts` | extends `SharedLock` with sockets, handles and shutdown |
| `SharedKV` | `daemon/shared-kv.ts` | `store`, `dirty`, the snapshot `disk` and whether the file is `intact` |
| `DaemonStartup` | `start()` and `shutdown()` of `daemon/server.ts` | several processes and the one socket file: probe, unlink, bind, unlink |
| `DaemonClient` | `daemon/client.ts` and the data handler of `server.ts` | sockets, lines and half lines, the map of pending requests, several callers |
| `ConnectionPool` | `bridge/pool.ts` | connections, waiters, the gap between opening and marking busy (`CPQuiet`) |
| `HttpBridge` | `bridge/http-server.ts`, `session-registry.ts` | requests from body to answer, sessions with age, eviction and sweep, also one that is ended by the request that creates it |
| `MCConnections` | | the daemon parts, the connection pool and the bridge, by `focus` |
| `RateLimiter` | `utils/rate-limiter.ts`, `callTool()` of `hub/mcp-hub.ts` | tokens with fractions, the queue, its poll; the connection that is lost, replaced or closed under a waiting call; a reconnection has no limiter (`limited`, `callUnlimited`) |
| `ExecutionStream` | `streaming/execution-stream.ts` with its callers in bridge and server | streams, SSE clients, late reports, cleanup |
| `Executor` | `runtime/executor.ts`, host side | processes, time limit, cancellation with escalation, shutdown |
| `Sandbox` | `runtime/executor.ts`, `generateSandboxCode` | batches, rate-limited servers, repetition of the refused calls |
| `MCToolCall` | | the gateway and the four modules above, by `focus` |
| `WorkerPool` | `runtime/pool/*.ts` | workers, their processes, the array, the queue, the microtask queue `micro` |
| `MCPHub` | `hub/mcp-hub.ts` | one server name, the connections ever made for it, the calls under way (`flow`) |
| `CacheLayer` | `cache/cache.ts`, `lru.ts`, `disk.ts`, `key.ts` and the cached call of `mcp-server.ts` | both tiers, temporary files, calls and refreshes in `slot` |
| `ToolServer` | tool handlers of `mcp-server.ts`, `metrics-collector.ts`, `mode-handler.ts`, `diag-mode.ts` | calls between their awaits, the switches, stored executions, how often a call reaches the backend (`GatewayAttempts` for each call that comes through the gateway) |
| `CallPath` | `callTool` the server gives the bridge, `observability/{hot-path,anomaly,cost-predictor}.ts` | one tool whose annotation and cache entry change meanwhile |
| `Recordings` | `observability/replay.ts` | sessions, journals as sequences of lines, rotation by age |
| `ToolRegistry` | `registry/*.ts`, start of `mcp-server.ts`, `passthrough-registrar.ts` | the catalogue against the hub's tool cache, events to watchers, names of passthrough tools; a listing whose client was closed under it ends at the library's time limit (`abandonedListing`) |
| `ConfigWatcher` | `watcher/config-watcher.ts` | debounce timer, `close()` that takes time, reloads; one that finds the conductor's own configuration exclusive does not read the file that is watched |
| `ServerConfig` | `config/loader.ts`, the configuring tools of `mcp-server.ts`, `bin/cli.ts`, `cli/commands`, `cli/wizard` | two processes that read, change and rewrite whole files |
| `ClientConfigs` | `cli/clients/*.ts`, `utils/backup.ts`, wizard and export | a record per adapter says what it reads, drops and keeps |
| `MCHost` | | the seven modules above, by `focus` |
| `Queues` | arrays used as queues and lists in `rate-limiter.ts`, `bridge/pool.ts`, `worker-pool.ts`, `hot-path.ts`, `replay.ts` | `indexOf`/`findIndex` and `splice` as `Removed`, `filter` as `Filtered`; lemmas on what removing, appending, shifting and dropping leave |
| `ToolCall_proofs` | | theorems about gateway, limiter, executor, sandbox and streams |
| `DaemonServer_proofs` | | about the lock and the daemon |
| `Connections_proofs` | | about bridge, start of the daemon, store, daemon client, connection pool |
| `WorkerPool_proofs`, `MCPHub_proofs`, `CacheLayer_proofs`, `MCHost_proofs` | | about the module in their name |

`DaemonServer` composes the lock with the connections: its steps change the
lock only through the lock's own operators, so that the theorems about the lock
carry over (`DaemonUsesLock`). `ReliabilityGateway` composes profile, breaker
and retry loop in the same way.

History variables, which have no counterpart in the code, record what a
property speaks of:

- `role` and `rejected` in the gateway: how a call was admitted, how many were
  refused; `allowance` in the rate limiter: what the rate allows up to now;
- `late` in the daemon: clients that came after shutdown had listed the sockets;
  `raced` in `DaemonStartup`: two daemons started or stopped at once, or one
  missed a probe; `overlap` and `lineLost` in the daemon client;
- `gaveUp` in the hub: the attempts were used up;
- `ended` and the component `truth` of an entry in the cache: when a refresh
  last ended, how old the value really is;
- `early` of a stream: the clients connected when it completed; `sent` and
  `firstAnswer` in the sandbox: how often a call was made, what came first;
- `requests` and `sinceReset` in the tool server, `sampled` in the call path,
  `unsafe` in the recordings;
- `foreign` and `unheard` in the registry, `fileSeen` and `promised` in the
  watcher, `expected` and `atFault` in the configuration, `precious` and
  `forsaken` in the client files: the promises made so far and the named ways
  in which the code may break them.

Five of them excuse a hazard the code really is exposed to (`raced`, `overlap`
and `lineLost`, `foreign` and `unheard`, `atFault`, `forsaken`): the properties
say that nothing else goes wrong, and "hazards" in `PROJECT.json` says for each
of them what the property does not cover.

## Runs

A component's invariants are gathered in one named conjunction where they are
many; the parts have comments of their own in the modules.

| Run | Part | What it shows |
|---|---|---|
| `gateway` | gateway | `ProbeFlagSound`, `StatsBalance`, `MutationAtMostOnce`, `OpenPeriodNotExtended`; with fairness `AdmitsAgain`, `EveryCallSettles` |
| | limiter | `RLInv`: as long as the connection has its limiter the rate holds over every window (`hub_limit` shows the reconnection that loses it), a queued call waits a bounded number of grants, the queue is exactly the calls that wait, none is sent to a client that is being closed |
| | stream | `ESInv`: no connection belongs to a stream nobody can find, none outlives the grace after completion |
| | executor | `EXInv`: the process limit, nothing alive after shutdown, a cancelled client is told so |
| | sandbox | `SBInv`: answers in order, only calls refused by a rate limit are repeated |
| | all but sandbox | `PartsSettle`: calls, streams, executions and shutdown end |
| `daemon` | daemon | `ServedInOrder`, `WaitersCounted`, `NoIdleWait`, `HandlesMatchHolders`, `ImplementsMutex` (refinement), `CloseReleasesAll`, `ShutdownEnds` |
| | startup | `NobodyIsEvicted` |
| | store | `KVTypeOK`, `CleanMeansSaved`, `SavedEventually` |
| | client | `DCInv`: who waits is in the map of a living socket, an answer settles its own request, connected means usable |
| | pool | `CPInv`: nobody waits beside an idle connection, requests are on connections that can answer, the queue is exact |
| | bridge | `HBInv`, `SessionsKept`: no request cut off, sessions lost for a reason and the stalest first |
| | client, pool, bridge | `ConnectionsSettle` |
| `pool` | | `PoolInv` (`TypeOK`, `JobsAccounted`, `RecycledLeaves`), `NoOrphans`, `EveryJobSettles`, `ShutdownEnds` |
| `hub` | | `HubInv` (`TypeOK`, `NotForgotten`, `LossIsNoticed`, `NoTimerAfterShutdown`), `EveryCallReturns` |
| `cache` | | `CacheInv` (`TypeOK`, `OneRefresh`), `StaleIsChased`, `RefreshEnds` |
| `host` | tools, path, recordings | `CallsAccounted`: `BooksAgree`, `ReachBounded` (a direct call once, a comparison once more than the gateway may try); `RedactedByTokens`, `ObserversAgree`; `JournalReplays` |
| | catalogue, watcher, config, clients | `ConfigurationKept`: `CatalogFollows`, `WatcherFollows`, `PassthroughRegistered`; `ChangesRead`; `AnswersHold`, `NoDefinitionLost`, `DefaultsClean`; `NothingDropped`, `RoundTrip` |
| `gateway_one_probe`, `lock_next_waiter`, `daemon_gone`, `pool_crash`, `hub_limit`, `cache_own` | small instances | each refutes a statement of the repository, see [Findings](#findings) |

Every property of a passing run has a mutant in `PROJECT.json`: a plausible slip
in a definition that makes TLC find a violation of just that property. A
conjunction over several parts has one for each of several parts.

Why the bounds are enough to make the interesting cases happen:

- *gateway* (2 concurrent calls, 4 in all): the trip takes two outcomes; a third
  call is then the probe while one admitted before the trip is still in flight,
  and the fourth is the one that must or must not be let in. The probe interval
  exceeds the window, so outcomes leave the window while the circuit is open.
- *limiter* (2 callers, 1 token of burst, a token in 2 ticks, a poll every 3,
  7 ticks in the queue): one caller queues while another overtakes it, the poll
  forgets fractions of a token, a request served between two polls makes the
  first wait longer than a period, and a time limit strikes while others are
  served. A caller that no token is granted for would pass the bound (6 ticks)
  before its time limit.
- *stream* (1 stream, 2 clients, 2 late reports): a client on each side of the
  completion. *executor* (2 executions, 1 process): one is refused, or between
  its checks, while the other lives. *sandbox* (2 servers, batches of 2, two of
  them): one call of a batch is refused and the other not, and the second batch
  knows of it.
- *daemon*: three requests for one key are a holder, a waiter that times out and
  one behind it; two keys and two clients allow a client to hold one lock and
  wait for another while the other client disconnects.
- *startup* (3 daemons, 4 starts): one is up, one crashed and left its file, and
  a third starts; one of them starts twice. *store*: two keys, so that one
  expires or is saved while the other is not.
- *client* (2 callers, 2 sockets, 3 requests): an old socket closes after the new
  one is made, with a request on each. *connection pool* (3 callers, 1 to 2
  connections, 4 ever opened): two hold, one waits, and lost connections are
  replaced. *bridge* (2 requests, 2 sessions kept of 3): a full registry whose
  stalest session is and is not expired.
- *pool* (2 workers, 2 jobs per worker, 2 jobs): two jobs meet in every way:
  routed to one worker one after the other, run side by side, queued when one
  worker failed to start. `MaxJobsPerWorker = 2` makes both kinds of recycling
  happen, by wear and by age. The safety part was also explored with three jobs
  (19.9 million states) without a violation.
- *hub*: one attempt is the least that tells "try again" from "give up"; one
  reload and one reconnection overlap, and two faults hit the old and the new
  connection. `MaxConnections` is never the reason a step is disabled.
- *cache*: two tools with the same arguments share a file, and two slots are a
  call and a refresh, or two calls, of one key.
- *host*: two tool calls and one stored execution (the second evicts the first);
  three attempts of the gateway, the default of two retries; three bridge calls
  and two samples; two recordings over two bytes; two servers
  of which one's name is the beginning of the other's, with tools that compose
  to one name; two reloads at once; two server names of which one is also in the
  other file, and two processes; one entry of each kind for each of the ten
  adapters and one edit by somebody else; one abandoned listing at a time.

Symmetry is not used: most runs check a temporal property, for which it is not
sound. Deadlock checking is off where the system really stops: after shutdown,
or when the bounded requests, calls or edits are over.

## Fairness

Weak fairness is asked only of what the event loop, a timer or the operating
system does by itself:

- *gateway*: the clock advances, an attempt is ended by its timer
  (`timeout.ts`), a back-off sleep ends. Nothing makes a backend answer, nothing
  makes a caller call.
- *daemon*: a resolved promise is continued, the 2 s timer destroys the sockets
  that shutdown ended, a destroyed socket emits `close`, an unauthenticated one
  is closed after 10 s, and shutdown continues when what it awaits has come. A
  client never has to send anything.
- *store*: strong fairness of a sweep that succeeds: the timer keeps firing and
  the disk does not refuse every write for ever.
- *client*: sockets that fail to open say so, a destroyed socket closes, data
  that arrived is read, and the server serves what it reads or goes away; it
  hangs up on who does not authenticate (10 s). A request without an answer
  waits as long as its socket lives.
- *connection pool*: `drain`, the continuation of an acquire and its time limit.
  *bridge*: a body arrives or its connection breaks, `callTool` returns (what
  the run `gateway` shows), clients take their answers, `close()` calls back.
- *limiter*: the clock, the poll of the queue, time limits; and the backend
  answers or its request times out. *stream*: the timers of the manager, and an
  execution that ends. *executor*: the check for Deno returns, timers fire, a
  process that was sent SIGKILL or that exited closes. User code never has to
  end by itself.
- *pool*: continuations and timers; SIGKILL follows SIGTERM, so a killed process
  closes; and the program of a job ends. The last is an assumption on the
  environment: the pool has no time limit for a job, the caller aborts.
- *hub*: continuations and timers, the time limit of the handshake
  (`connectionTimeoutMs`, 10 s unless configured: `answered \/ timedOut`), the time limit of the client library for
  `listTools()`, and a client that is being closed gets closed. A server never
  has to answer.
- *cache*: the gateway settles every call (what the run `gateway` shows) and the
  file system settles every operation.

In the runs with several parts the fairness of a part asks nothing while another
one moves: its actions are not enabled in its initial state, but for the clocks,
which the MC module makes conditional on `focus`. The host's parts have safety
properties only.

## Proofs

TLAPS checks the theorems for all values of the constants that satisfy the named
assumptions of the modules: finite sets of calls, bounds that are natural
numbers, a threshold with a positive denominator, overrides that are profiles
with unset fields, a set of tools that is not empty, sets of names that do not
contain the model's own markers. TLC evaluates the assumptions in the runs. Every
inductive invariant named below was first checked as an invariant of a run.

**Queues.** The code takes an element out of an array by its index (`indexOf` or
`findIndex`, then `splice`). `Removed` says just that, so that the lemmas about
it (`RemovedFacts`, `AppendFacts`, `TailFacts`, `DropFacts`) need no induction:
what is left are the other elements, in order, none of them twice. `filter()` is
`Filtered`, in terms of the set of indices that pass and their ranks in it, not
by recursion over the array, for the same reason; `RankFacts`, `FilteredFacts` and
`FilteredRest` (in `MCHost_proofs`) say that ranks number the set, which elements
the result has, and what it is when the first ones fail the test.

**Gateway** (`ToolCall_proofs`). `TypeCorrect` is inductive as it
stands; it rests on lemmas about the window of the breaker and the profile
resolution. `ProbeCorrect` (`Spec => []ProbeFlagSound`): with the type invariant
the property is inductive (`ProbeInv`). The argument follows the breaker: the
flag is raised only by an admission in half-open, which needs it to be down; it
is lowered together with leaving half-open, whoever's outcome causes that
(`OutcomeLeavesHalfOpen`), and the role of a probe that is still out becomes
`oldProbe` in the same step. `BalanceCorrect`: `BalanceInv` adds the type
invariant; each exit of `call()` moves one call from "in flight" to exactly one
counter, for which the cardinality of the set of calls in flight has to change
by one (`SettleCount`). `MutationCorrect`: `MutationInv` adds `AttemptsInv` (a
call in flight has begun an attempt): then the retry test sees at least one
attempt against a limit of none, which `MutationRetries` derives from the layers
of the profile, and never sleeps. `OpenPeriodCorrect` proves the action property
from the type invariant, one step per action.

**Lock** (`DaemonServer_proofs`). `CountInvariant` proves `CountInv`, from which
the others follow. Mutual exclusion needs to know that the chain is one chain:
`IssuedInv` (tickets are issued in order), `EntryInv` (the entry of a key points
to its last ticket that is not released), `PrevInv` (a ticket awaits the latest
earlier ticket of its key, and if it awaits nothing, all earlier ones are
released). With them a ticket whose predecessor is released has only released
tickets before it (`ServedInOrder`). `WaitersCounted` is needed in turn: that
the entry is deleted only when nobody is left is what keeps `PrevInv`.
`RefinesMutex` proves `Spec => M!Spec` under the mapping `Phase`: a waiter and
one that timed out are both in line, which is why nobody behind the latter gets
the lock.

**Daemon** (`DaemonServer_proofs`). `DaemonUsesLock`: every step of the daemon
is a step of the lock or leaves it unchanged, so `DaemonServesInOrder` follows
from the lock's theorem. `HandlesCorrect`: `DaemonInv` joins the daemon's type
invariant, `CountInv` and `HandlesMatchHolders`. The interesting step is the
grant: a client that pipelined two requests for one key passed the test for
`ALREADY_HOLDS_LOCK` twice, and only `ServedInOrder` (the first must be released
before the second is granted) keeps the second from overwriting the handle.

`CloseCorrect` proves the action property of the close handler.

**Waiting for the lock.** `NobodyWaitsInVain` proves `NoIdleWait` from
`CountInv`: among the tickets of the key that are not released there is a least
one (`LeastTicket`), and by `PrevInv` it awaits nothing, or only a released one;
it is the holder, about to become the holder, or a waiter that timed out.

**Start of the daemon** (`Connections_proofs`). `EvictionCorrect`:
`EvictionInv` says that as long as nothing raced, at most one daemon is between
its probe and its bind or its shutdown and its unlink (`AloneInv`), nobody is up
while one is past its probe (`NobodyUpInv`), and the file is that of the daemon
that is up (`OwnFileInv`). The probe is what establishes the second part.

**Key-value store** (`Connections_proofs`). `CleanCorrect` (`KVSpec =>
[]CleanMeansSaved`): with the type invariant the property is inductive; ageing
commutes with taking the live entries on both sides (memory and file), which is
the lemma the clock step rests on.

**Cache** (`CacheLayer_proofs`). `Inductive` joins types, `RefreshInv`, `DiskInv`
and `ChaseInv`. `OneRefresh` counts refreshes; `RefreshInv` says it without
counting (two refreshes of a key are the same slot, an idle or reading slot is
none) and adds what a step needs. `StaleIsChased` speaks of stale entries only
and is not inductive: `ChaseInv` says of every entry in memory that its age and
time to live account for the age of its value, or that it is being refreshed,
or that a refresh ended since it was stored. `DiskInv` (a file is as old as its
value) is what makes reading from the disk keep it.

**Streams** (`ToolCall_proofs`). `StreamsCorrect`: with the types, the two
promises about connections are inductive together: whatever takes a stream off
the list cuts its connections in the same step.

**Bridge** (`Connections_proofs`). `BridgeCorrect` (`HBInv`) and `SessionsCorrect`
(`SessionsKept`). Both rest on `EvictionMakesRoom`: a full registry has a stalest
session (`StalestExists`, since ages are bounded and ids are numbers), so the
`CHOOSE` of `evictIfFull` picks a member, and taking it away leaves room.

**Rate limiter** (`ToolCall_proofs`). `LimiterCorrect` (`RLSpec => []RLInv`).
`RateInv` compares the bucket of the code, which counts whole tokens and forgets
the rest, with an exact one kept as history (`allowance`): tokens and time since
the last refill, in ticks, exceed it by less than a token. `TurnInv` is what
`NoTokenLiesIdle` needs: for a queued call there is a turn of the poll timer,
a number of turns from now, before its bound, at which a token will be there.
The limiter is that of the current connection, if it has one: where it has none
nobody is in its queue (`LimitedInv`), and a call passes it by (`UnlimitedStep`). The proof corrected the property: the bound without the additional `PollTicks`
fails when a poll takes longer than a token (a request served between two polls
restarts the count), which the earlier constants of the run did not show. They
have been changed so that the case occurs.

**Executor** (`ToolCall_proofs`). `ExecutorCorrect` (`EXSpec => []EXInv`).
`ActiveInv`: the map of processes is within its limit and contains whatever is
alive; the number of executions between their checks and their entry in the map
is what the limit depends on. `WaitingInv`: who has a process that has not closed
awaits it, and knows of a signal that was given meanwhile.

**Sandbox** (`ToolCall_proofs`). `SandboxCorrect` (`SBSpec => []SBInv`).
`FlightInv` says what is under way in each phase of a batch (in the repetition
only the first call that is left), `SentInv` how often a call was sent and what
its first answer was, `PlacedInv` that the results there are stand in their
places.

**Daemon client** (`Connections_proofs`). `ClientCorrect` (`DCSpec => []DCInv`).
The heart is `IdsInv`: ids are below `nextId`, and whatever on any socket has the
id of a pending request is that request or its answer, on the socket it was sent
on. `WaitInv` (who waits is in the map once), `SockInv` (sockets of those who
open one or use one), `TrustInv` (good answers come from authenticated sockets
only) and `CalmInv` (one connect or disconnect at a time, unless two overlapped)
are what the steps of a closing socket beside a new one need.

**Connection pool** (`Connections_proofs`). `PoolCorrect` (`CPSpec => []CPInv`).
`OwnedInv`: the connection of a caller was opened. `TakenInv`: while someone
waits, an idle connection is one that its opener is about to take, or the loop
over the waiters is running; this is the gap between opening and marking busy.

**Worker pool** (`WorkerPool_proofs`). `PoolCorrect` (`Spec => []PoolInv`) and
`NoProcessOutlives` (`Spec => []NoOrphans`). `MadeInv` bounds the workers ever
made by counting: every settled job owes or has had one check, and a check makes
at most one worker, so the set of workers never runs out. `WorkerInv` relates a
worker's state, its process and its start; `MicroInv` says what the continuations
in the microtask queue are about; `OrphanInv` says where a live process can be:
in the array, or of a worker that `warmUp` still starts, and after `shutdown`
only among those it drains.

**Hub** (`MCPHub_proofs`). `HubCorrect` (`Spec => []HubInv`). `FlowInv`: a flow
that has a connection, or is about to make one, knows which. `HooksInv`: a current
connection without its handlers is being closed. `CareInv`: a connection that is
not connected is owed a timer, has been given up with a warning, or some flow
will replace or remove it or is in its handshake. `NotForgotten` and
`LossIsNoticed` follow.

**Host** (`MCHost_proofs`). `ConfigurationCorrect` (`MCSpec =>
[]ConfigurationKept`) joins one invariant for each part: for the watcher `CWInv`
is inductive; `CatalogInv` adds to the registry's invariant what catalogue and
snapshot may hold; `ConfigInv` adds to `NoDefinitionLost` that, as long as
nothing is at fault, the file that is read is what the answers say (`ReadInv`),
and that who strips the Claude file has a backup of every definition
(`StripInv`); `ClientsInv` says that what was parsed came from a file of this
client, and that between backup and write the file is in the backup, or the
client is Gemini, whose adapter goes on without one.

`CallsCorrect` (`MCSpec => []CallsAccounted`) has three parts. `ToolsInv`: the
stored executions are the newest of those recorded since the reset, no call is
among them twice and each with the outcome it was answered with
(`RecordedInv`), the counters of the mode handler are never behind the books, for
which the set of the direct calls recorded has to grow with its counter; and how
far a call is tells how often it reached the backend (`ReachInv`). `PathInv`:
where a call is tells who answers it and whether it was sampled (`AnsweredInv`),
and the bucket of the profiler is the end of the history, the expired ones first
(`HotInv`): that is why evicting them leaves the newest. A list that keeps the
last *n* by cutting after each push agrees with one that kept everything
(`NewestGoesOn`). `RecordingsInv`: the files in the order of their age are those
that exist, and the journal of an active session has whole lines with the last
numbers given out, all of them unless its file was rotated away
(`NumberedInv`). That rotation stops needs that an empty directory takes no
space (`NoBytes`); nothing else is used of the recursive sum of the sizes.

Only model-checked: every liveness property. Fairness and `ENABLED` are outside
the prover's reach.

## Findings

| Run | What TLC shows |
|---|---|
| `gateway_one_probe` | `breaker.ts:61` promises exactly one concurrent probe. A call admitted before the trip fails while the circuit is half-open; `recordFailure` cannot tell it from the probe and re-opens, and the next half-open period admits a second probe while the first is in flight. |
| `lock_next_waiter` | `shared-lock.ts:19`: release lets the next waiter proceed. A waiter that timed out leaves a promise in the chain that nobody resolves: all behind it wait in vain. |
| `daemon_gone` | `server.ts:111`: handles are released on disconnect. A lock granted after the socket closed is stored in the dead client's state and stays held. |
| `pool_crash` | `worker-pool.ts:16`: a worker is replaced after an uncaught error. One whose process exits during a job is set back to `idle` by the rejection of the job, before the recycle check. |
| `hub_limit` | `docs/guide/mcp-servers.md:136`: the rate limit is respected. A reconnection after a lost connection drops the limiter. |
| `cache_own` | `key.ts:64`: the serialised key (server, tool, arguments) is used on disk. The files are named after the hash of the arguments alone, and a tool is answered with the result of another. |

Also met while modelling, without a statement of the repository to hold against
them:

- *Pools and hub.* A second check of a worker that was replaced already makes the
  pool longer than its size. A connection is marked busy one continuation after
  it was opened, so two callers of one turn can share it, and the timer that
  replaces a lost connection can exceed the maximum (`pool.ts:427`). Of two
  overlapping reloads the older can win (`mcp-hub.ts:475`). `MCPHub.callTool`
  wraps every error of a backend in one the retry loop does not retry.
- *Cache.* Two writes of one entry share a temporary file, and the second
  `rename` fails the call; the stale-while-revalidate branch of the memory tier
  cannot be reached, since an entry's time to live in memory never exceeds the
  policy's.
- *Daemon.* Lines that follow the authentication in one chunk are dropped
  (`server.ts:394`), and the request in them waits until the socket closes. Two
  daemons that start at once, or a shutdown beside a start, can remove the
  socket file of the one that is up.
- *Executor.* A failed check for Deno is remembered for ever
  (`executor.ts:670`); the tokens of redacted values are numbered from one in
  every tool call, so `EMAIL_1` stands for another value after the second
  (`executor.ts:331`).
- *Server.* A comparison may ask the backend up to four times: the direct call,
  and up to three attempts of the gateway for the one in the sandbox, which
  repeats its own timeouts. `get_metrics` sums the stored executions while the counters of the
  mode handler are reset on their own; the second call of a comparison may be
  answered by the cache.
- *Registry and watcher.* A refresh of a server whose name is the beginning of
  another's removes the other's tools and announces it under its own name; the
  tools of removed servers stay. `disconnectServer` takes the handlers off the
  transport, so a listing under way is not told and ends, as if it counted, at
  the time limit of the client library. With an exclusive configuration of the
  conductor a change of the watched file triggers reloads that do not read it
  (`mcp-hub.ts:164`). `start()` of the watcher during its `stop()`
  answers true and is then stopped.
- *Configuration.* `CONDUCTOR_CONFIG` is read but never written to; a
  conductor file that cannot be parsed makes every later operation, a dry run
  too, change the shared default object; import, wizard and routing do not look
  at the result of their save. The wizard says that servers were moved and keeps
  them, so its second run does not find everything done.
- *Adapters.* Gemini's goes on after a failed backup; those of Zed, Gemini and
  Claude Desktop answer with an empty configuration where `adapter.ts` says
  `null`; Cline's and OpenCode's keep entries without a command; OpenCode's drops
  every field it does not know but `enabled: false`, and only Gemini's keeps them.

## Not modelled

- *Skills engine*: the server declares one and never assigns it; only tests load
  skills.
- *Tool search* (`runtime/findtool`) ranks floating-point vectors; *type
  generation*, recommendations and the text of the catalogue are produced from
  static data; *daemon discovery* reads network interfaces. They keep no state
  whose order of changes matters.
- *Runtime helpers* (`budget`, `compact`, `delta`, `summarize`), `cache/policy.ts`,
  `cache/delta.ts`, `utils/tokenize.ts` and `redact.ts`: pure functions over text
  and JSON values. The model uses their outcome (a value is cached or not, is
  tokens or plain).
- *Metrics* in numbers (tokens, bytes, windows of time), percentiles, regression
  and z-scores are arithmetic over the lists that are modelled.
- *Readers*: tools and commands that only read (`list`, `test`, `doctor`, the
  reading tools of the server), permissions, the orphan watch, logging, the
  entry point `index.ts`. `daemon start` of the command line calls `require` in
  an ES module and passes an option the program does not know.
- Logging, wording of messages, JSON text and HTML pages, everywhere.

Of the modelled components: the hub is modelled for one server name (its state
is kept per name, and names share no state); the daemon's KV requests are those
of the store and broadcast, ping and stats change nothing; the cache has one
time to live in place of the table of `policy.ts`; sizes in bytes are reduced to
"an entry may be evicted at any time"; a stream's replay of events to a late
client is left out, and so is an error of a connection factory. Some code has no
caller in `src/` outside tests: `createHubWatcher`, the registry's snapshots and
input validation, the `record*` methods of the replay recorder. The first two
and the recorder are modelled by what they would do when called.

## Plan

What is left, in this order:

1. An abstract specification of a request over connections that come and go, for
   `DaemonClient` to implement: answered at most once, by the connection it was
   sent on.
2. Pure algorithms against reference definitions over bounded inputs: the policy
   table, deltas, key serialisation, tokenisation, budgets.
3. Several server names in the hub where operations work on all of them
   (`reload()`, `initialise()`), with the configuration as it is in the file.
