---------------------------- MODULE RateLimiter ----------------------------
(***************************************************************************)
(* The token bucket of a backend server (src/utils/rate-limiter.ts) and    *)
(* the calls that wait for it, MCPHub.callTool (src/hub/mcp-hub.ts), while *)
(* the connection is lost, closed for good or replaced.                    *)
(*                                                                         *)
(* Time goes in ticks.  A token takes TokenTicks, and the background timer *)
(* looks at the queue every PollTicks (50 ms).  Timers are not late.       *)
(***************************************************************************)
EXTENDS Integers, Sequences, Queues

CONSTANTS
    Callers,        \* calls of callTool() under way at once
    MaxTokens,      \* burstSize, or requestsPerSecond
    TokenTicks,     \* 1000 / requestsPerSecond
    PollTicks,      \* the period of the refill timer
    QueueTicks,     \* maxQueueTimeMs
    QueueLimit      \* 100 in the code

ASSUME RateLimiterAssumption ==
    {MaxTokens, TokenTicks, PollTicks, QueueTicks, QueueLimit} \subseteq Nat \ {0}

VARIABLES
    mode,         \* onLimitExceeded: "queue" or "reject"
    link,         \* the connection in the map: "live", "lost" (status is no longer
                  \* "connected") or "closing" (limiter destroyed, client being closed)
    limited,      \* that connection has a limiter
    tokens,       \* of the limiter of that connection
    elapsed,      \* now - lastRefill, up to what fills the bucket
    untilPoll,    \* ticks until the refill timer fires
    queue,        \* its queue
    call,         \* the calls
    allowance     \* history: an exact bucket, in ticks

rlVars == <<mode, link, limited, tokens, elapsed, untilPoll, queue, call, allowance>>

\* pc: "idle"; "queued" in the queue of the current limiter; "leaked" in the
\* queue of one that was replaced and still runs; "stranded" in one that was
\* destroyed; "sent" to the client captured before.  `to' is the state of that
\* client's connection when the call was sent, `served' the tokens granted to
\* others since the call was queued.
Idle == [pc |-> "idle", age |-> 0, served |-> 0, waited |-> FALSE, to |-> "none"]
Queued == [Idle EXCEPT !.pc = "queued", !.waited = TRUE]
Sent(c, where) == [Idle EXCEPT !.pc = "sent", !.waited = call[c].waited, !.to = where]

Full == MaxTokens * TokenTicks
AtMost(n, m) == IF n < m THEN n ELSE m

RLInit ==
    /\ mode \in {"queue", "reject"}
    /\ link = "live"
    /\ limited = TRUE
    /\ tokens = MaxTokens
    /\ elapsed = 0
    /\ untilPoll = PollTicks
    /\ queue = <<>>
    /\ call = [c \in Callers |-> Idle]
    /\ allowance = Full

\* refillTokens: whole tokens are added and the rest of the time is forgotten.
Refill(tok, gone) ==
    IF gone >= TokenTicks
    THEN [tokens |-> AtMost(tok + gone \div TokenTicks, MaxTokens), elapsed |-> 0]
    ELSE [tokens |-> tok, elapsed |-> gone]

\* n tokens go out: those who are still queued see it.
Overtaken(calls, n) ==
    [c \in Callers |-> IF calls[c].pc = "queued"
                       THEN [calls[c] EXCEPT !.served = AtMost(@ + n, QueueTicks)] ELSE calls[c]]

-----------------------------------------------------------------------------
\* callTool() up to its first await: the status test and acquire().
callTool(c) ==
    LET r == Refill(tokens, elapsed) IN
    /\ call[c].pc = "idle"
    /\ link \in {"live", "closing"}
    /\ limited
    /\ tokens' = IF r.tokens >= 1 THEN r.tokens - 1 ELSE r.tokens
    /\ elapsed' = r.elapsed
    /\ \/ /\ r.tokens >= 1
          /\ call' = Overtaken([call EXCEPT ![c] = Sent(c, link)], 1)
          /\ allowance' = allowance - TokenTicks
          /\ UNCHANGED queue
       \/ /\ r.tokens < 1
          /\ mode = "queue"
          /\ Len(queue) < QueueLimit
          /\ queue' = Append(queue, c)
          /\ call' = [call EXCEPT ![c] = Queued]
          /\ UNCHANGED allowance
       \/ /\ r.tokens < 1
          /\ mode = "reject" \/ Len(queue) >= QueueLimit
          /\ UNCHANGED <<queue, call, allowance>>
    /\ UNCHANGED <<mode, link, limited, untilPoll>>

\* callTool() where the connection has no limiter: nothing holds it back.
callUnlimited(c) ==
    /\ call[c].pc = "idle"
    /\ link \in {"live", "closing"}
    /\ ~limited
    /\ call' = [call EXCEPT ![c] = Sent(c, link)]
    /\ UNCHANGED <<mode, link, limited, tokens, elapsed, untilPoll, queue, allowance>>

\* Mutant: the timer serves the queue without refillTokens().
poll_NoRefill ==
    LET n == AtMost(tokens, Len(queue))
        granted == {queue[i] : i \in 1 .. n}
    IN
    /\ limited /\ link # "closing"
    /\ untilPoll = 0
    /\ untilPoll' = PollTicks
    /\ tokens' = tokens - n
    /\ queue' = SubSeq(queue, n + 1, Len(queue))
    /\ call' = Overtaken([c \in Callers |-> IF c \in granted THEN Sent(c, link) ELSE call[c]], n)
    /\ allowance' = allowance - n * TokenTicks
    /\ UNCHANGED <<mode, link, limited, elapsed>>

\* The refill timer: processQueue().
poll ==
    LET r == Refill(tokens, elapsed)
        n == AtMost(r.tokens, Len(queue))
        granted == {queue[i] : i \in 1 .. n}
    IN
    /\ limited /\ link # "closing"
    /\ untilPoll = 0
    /\ untilPoll' = PollTicks
    /\ tokens' = r.tokens - n
    /\ elapsed' = r.elapsed
    /\ queue' = SubSeq(queue, n + 1, Len(queue))
    /\ call' = Overtaken([c \in Callers |-> IF c \in granted THEN Sent(c, link) ELSE call[c]], n)
    /\ allowance' = allowance - n * TokenTicks
    /\ UNCHANGED <<mode, link, limited>>

\* The timer of a queued request: it leaves the queue and fails.
timeout(c) ==
    /\ call[c].pc \in {"queued", "leaked", "stranded"}
    /\ call[c].age >= QueueTicks
    /\ call' = [call EXCEPT ![c] = Idle]
    /\ queue' = Removed(queue, c)
    /\ UNCHANGED <<mode, link, limited, tokens, elapsed, untilPoll, allowance>>

\* A limiter that was replaced without being destroyed still serves its queue.
leakedGrant(c) ==
    /\ call[c].pc = "leaked"
    /\ call' = [call EXCEPT ![c] = Sent(c, "lost")]
    /\ UNCHANGED <<mode, link, limited, tokens, elapsed, untilPoll, queue, allowance>>

\* The client answers, or fails because its connection is gone.
answer(c) ==
    /\ call[c].pc = "sent"
    /\ call' = [call EXCEPT ![c] = Idle]
    /\ UNCHANGED <<mode, link, limited, tokens, elapsed, untilPoll, queue, allowance>>

-----------------------------------------------------------------------------
\* The server exits: the status changes, the limiter is left alone.
lost ==
    /\ link = "live"
    /\ link' = "lost"
    /\ UNCHANGED <<mode, limited, tokens, elapsed, untilPoll, queue, call, allowance>>

\* Mutant: the queue is not rejected and the timer runs on.
destroy_TimerOnly ==
    /\ link \in {"live", "lost"}
    /\ link' = "closing"
    /\ queue' = <<>>
    /\ call' = [c \in Callers |-> IF call[c].pc = "queued" THEN Sent(c, "closing") ELSE call[c]]
    /\ UNCHANGED <<mode, limited, tokens, elapsed, untilPoll, allowance>>

\* destroy(), when the hub closes the connection on purpose: the timer stops,
\* the queue is rejected.  The connection stays routed until it is closed.
destroy ==
    /\ link \in {"live", "lost"}
    /\ link' = "closing"
    /\ queue' = <<>>
    /\ call' = [c \in Callers |-> IF call[c].pc = "queued" THEN Idle ELSE call[c]]
    /\ UNCHANGED <<mode, limited, tokens, elapsed, untilPoll, allowance>>

\* Whether the next connection has a limiter.  After "lost" it is the reconnect
\* timer's, which connects again without the rate limit.  After "closing" it
\* comes from a reload, with the limit that is configured now, if any, or from
\* the reconnect after a transport error, which gives none either.
NextLimited == IF link = "lost" THEN {FALSE} ELSE BOOLEAN

\* A new connection.  After "lost" the hub does not close the old one, whose
\* limiter runs on.  The variables of the limiter are those of a new one, and
\* rest where there is none.
reopen ==
    /\ link \in {"lost", "closing"}
    /\ link' = "live"
    /\ limited' \in NextLimited
    /\ tokens' = MaxTokens
    /\ elapsed' = 0
    /\ untilPoll' = PollTicks
    /\ queue' = <<>>
    /\ call' = [c \in Callers |->
                  IF call[c].pc = "queued"
                  THEN [call[c] EXCEPT !.pc = IF link = "lost" THEN "leaked" ELSE "stranded"]
                  ELSE call[c]]
    /\ allowance' = Full
    /\ UNCHANGED mode

\* Time passes, but not past a timer.
tick ==
    /\ limited /\ link # "closing" => untilPoll > 0
    /\ \A c \in Callers : call[c].pc \in {"queued", "leaked", "stranded"} => call[c].age < QueueTicks
    /\ elapsed' = IF limited THEN AtMost(elapsed + 1, Full) ELSE elapsed
    /\ untilPoll' = IF limited /\ link # "closing" THEN untilPoll - 1 ELSE untilPoll
    /\ call' = [c \in Callers |-> IF call[c].pc \in {"queued", "leaked", "stranded"}
                                  THEN [call[c] EXCEPT !.age = @ + 1] ELSE call[c]]
    /\ allowance' = AtMost(allowance + 1, Full)
    /\ UNCHANGED <<mode, link, limited, tokens, queue>>

RLNext ==
    \/ \E c \in Callers : callTool(c) \/ callUnlimited(c) \/ timeout(c) \/ leakedGrant(c) \/ answer(c)
    \/ poll \/ lost \/ destroy \/ reopen \/ tick

RLSpec == RLInit /\ [][RLNext]_rlVars

\* Time passes and timers fire; backends answer, the client library sees to it.
RLTimers ==
    /\ WF_rlVars(poll)
    /\ \A c \in Callers : WF_rlVars(timeout(c)) /\ WF_rlVars(answer(c))

RLFairness == WF_rlVars(tick) /\ RLTimers

-----------------------------------------------------------------------------
RLTypeOK ==
    /\ mode \in {"queue", "reject"}
    /\ link \in {"live", "lost", "closing"}
    /\ limited \in BOOLEAN
    /\ tokens \in 0 .. MaxTokens
    /\ elapsed \in 0 .. Full
    /\ untilPoll \in 0 .. PollTicks
    /\ queue \in Seq(Callers) /\ Len(queue) <= QueueLimit
    /\ call \in [Callers -> [pc : {"idle", "queued", "leaked", "stranded", "sent"},
                             age : 0 .. QueueTicks, served : 0 .. QueueTicks, waited : BOOLEAN,
                             to : {"none", "live", "lost", "closing"}]]
    /\ allowance \in Int

(***************************************************************************)
(* While a connection has its limiter the rate holds over every window of  *)
(* that limiter's life, whatever mixture of immediate and queued requests  *)
(* is served: no more than the burst plus what the time allows, and less   *)
(* than one token over.  (Nothing is said of a connection without one,     *)
(* such as every connection the reconnect timer makes.)                    *)
(***************************************************************************)
RateIsKept == limited => allowance > -TokenTicks

(***************************************************************************)
(* The timer that forgets fractions of a token, and the requests that      *)
(* overtake the queue, cost a queued request no more than this: while it   *)
(* waits a token goes to someone in every Period, after a first one that   *)
(* may be longer by one turn of the timer (a request that is served at     *)
(* once between two turns restarts the count).                             *)
(***************************************************************************)
Period == ((TokenTicks + PollTicks - 1) \div PollTicks) * PollTicks
NoTokenLiesIdle ==
    link # "closing" =>
        \A c \in Callers : call[c].pc = "queued" => call[c].age <= Period * (call[c].served + 1) + PollTicks

(***************************************************************************)
(* The queue holds exactly the calls that wait in it, once each.           *)
(***************************************************************************)
QueueIsExact == Once(queue) /\ Elements(queue) = {c \in Callers : call[c].pc = "queued"}

(***************************************************************************)
(* A call keeps the client it found before it waited.  A connection that   *)
(* is closed on purpose rejects its queue, so no call that has waited is   *)
(* sent to a client that the hub is closing.                               *)
(***************************************************************************)
NoWaiterToClosing ==
    \A c \in Callers : call[c].pc = "sent" /\ call[c].waited => call[c].to # "closing"

(***************************************************************************)
(* Every call settles, whatever becomes of the connection and its limiter. *)
(***************************************************************************)
CallSettles == \A c \in Callers : call[c].pc # "idle" ~> call[c].pc = "idle"

(***************************************************************************)
(* All of this holds together: the types, the rate, the queue, and what    *)
(* callers may rely on while connections are replaced under them.          *)
(***************************************************************************)
RLInv == RLTypeOK /\ RateIsKept /\ NoTokenLiesIdle /\ QueueIsExact /\ NoWaiterToClosing
=============================================================================
