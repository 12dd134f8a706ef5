----------------------------- MODULE SharedLock -----------------------------
(***************************************************************************)
(* The per-key mutex of the daemon (src/daemon/shared-lock.ts): a chain of *)
(* promises per key, with a time limit on the wait.                        *)
(*                                                                         *)
(* Every acquire() gets a ticket, numbered in the order of the calls; the  *)
(* promise `next' it appends to the chain is named by the ticket, and 0    *)
(* names Promise.resolve(), the chain of a key nobody uses.  Ticket t's    *)
(* promise is resolved when t is released, and by nothing else.            *)
(*                                                                         *)
(* A resolved wait is continued from the microtask queue, which is drained *)
(* before the next timer or socket event.                                  *)
(***************************************************************************)
EXTENDS Integers, FiniteSets

CONSTANTS
    Keys,
    MaxTickets  \* bound on the calls of acquire()

ASSUME LockAssumption == MaxTickets \in Nat /\ Keys # {}

VARIABLES
    issued, \* how many tickets were handed out
    key,    \* key[t]: the key t was issued for
    prev,   \* previousChain of t
    st,     \* "none", "waiting", "held", "released" or "timedout"
    locks   \* this.locks: [chain, waiters] for a key, NoEntry when absent

lockVars == <<issued, key, prev, st, locks>>

Tickets == 1 .. MaxTickets
Chain == 0 .. MaxTickets
NoEntry == [chain |-> 0, waiters |-> 0]

LockInit ==
    /\ issued = 0
    /\ key = [t \in Tickets |-> CHOOSE k \in Keys : TRUE]
    /\ prev = [t \in Tickets |-> 0]
    /\ st = [t \in Tickets |-> "none"]
    /\ locks = [k \in Keys |-> NoEntry]

Resolved(p) == p # 0 => st[p] = "released"

GrantPending(t) == st[t] = "waiting" /\ Resolved(prev[t])
MicrotasksDrained == \A t \in Tickets : ~GrantPending(t)

-----------------------------------------------------------------------------
\* Mutant: the chain pointer is left where it was.
acquire_KeepsChain(k) ==
    LET t == issued + 1 IN
    /\ issued < MaxTickets
    /\ issued' = t
    /\ key' = [key EXCEPT ![t] = k]
    /\ prev' = [prev EXCEPT ![t] = locks[k].chain]
    /\ st' = [st EXCEPT ![t] = "waiting"]
    /\ locks' = [locks EXCEPT ![k].waiters = @ + 1,
                              ![k].chain = IF @ = 0 THEN t ELSE @]

\* Mutant: the chain pointer is advanced before previousChain is read.
acquire_OwnChain(k) ==
    LET t == issued + 1 IN
    /\ issued < MaxTickets
    /\ issued' = t
    /\ key' = [key EXCEPT ![t] = k]
    /\ prev' = [prev EXCEPT ![t] = t]
    /\ st' = [st EXCEPT ![t] = "waiting"]
    /\ locks' = [locks EXCEPT ![k] = [chain |-> t, waiters |-> @.waiters + 1]]

\* acquire, up to its await.
acquire(k) ==
    LET t == issued + 1 IN
    /\ issued < MaxTickets
    /\ issued' = t
    /\ key' = [key EXCEPT ![t] = k]
    /\ prev' = [prev EXCEPT ![t] = locks[k].chain]
    /\ st' = [st EXCEPT ![t] = "waiting"]
    /\ locks' = [locks EXCEPT ![k] = [chain |-> t, waiters |-> @.waiters + 1]]

\* The wait is over: acquire returns the handle.
Granted(t) ==
    /\ GrantPending(t)
    /\ st' = [st EXCEPT ![t] = "held"]
    /\ UNCHANGED <<issued, key, prev, locks>>

\* Mutant: a waiter that gives up also takes itself off the count.
TimedOut_Uncounts(t) ==
    /\ st[t] = "waiting"
    /\ MicrotasksDrained
    /\ st' = [st EXCEPT ![t] = "timedout"]
    /\ locks' = [locks EXCEPT ![key[t]] =
                    IF @.waiters = 1 THEN NoEntry
                    ELSE [@ EXCEPT !.waiters = @ - 1]]
    /\ UNCHANGED <<issued, key, prev>>

\* waitWithTimeout throws; acquire ends without touching its bookkeeping.
TimedOut(t) ==
    /\ st[t] = "waiting"
    /\ MicrotasksDrained
    /\ st' = [st EXCEPT ![t] = "timedout"]
    /\ UNCHANGED <<issued, key, prev, locks>>

\* Mutant: without released.done a handle released a second time counts down
\* again.
Departed_CountsTwice(entry) ==
    IF entry.waiters = 2 THEN NoEntry
    ELSE [entry EXCEPT !.waiters = @ - 2]

\* What release() makes of the entry of its key.
Departed(entry) ==
    IF entry.waiters = 1 THEN NoEntry
    ELSE [entry EXCEPT !.waiters = @ - 1]

\* handle.release() of the tickets in S, at most one of a key.
release(S) ==
    /\ st' = [t \in Tickets |-> IF t \in S THEN "released" ELSE st[t]]
    /\ locks' = [k \in Keys |-> IF \E t \in S : key[t] = k
                                THEN Departed(locks[k]) ELSE locks[k]]
    /\ UNCHANGED <<issued, key, prev>>

\* One handle is released, or several in one piece of code.  A second release
\* of a handle is a no-op.
Release(S) == (\A t \in S : st[t] = "held") /\ release(S)

LockNext ==
    \/ \E k \in Keys : acquire(k)
    \/ \E t \in Tickets : Granted(t) \/ TimedOut(t)
    \/ \E S \in SUBSET Tickets : Release(S)

LockSpec == LockInit /\ [][LockNext]_lockVars

-----------------------------------------------------------------------------
LockTypeOK ==
    /\ issued \in 0 .. MaxTickets
    /\ key \in [Tickets -> Keys]
    /\ prev \in [Tickets -> Chain]
    /\ st \in [Tickets -> {"none", "waiting", "held", "released", "timedout"}]
    /\ locks \in [Keys -> [chain : Chain, waiters : Nat]]

\* The tickets that count as waiters of k.
Pending(k) == {t \in Tickets : key[t] = k /\ st[t] \in {"waiting", "held", "timedout"}}

(***************************************************************************)
(* A ticket gets the lock only when every earlier ticket of its key has    *)
(* released it: one holder at a time, first come first served, and nobody  *)
(* slips past a waiter because the entry of the key was deleted and made   *)
(* anew in between.                                                        *)
(***************************************************************************)
ServedInOrder ==
    \A t, u \in Tickets :
        t < u /\ key[t] = key[u] /\ st[u] \in {"held", "released"}
            => st[t] = "released"

(***************************************************************************)
(* The entry of a key lives exactly as long as somebody counts on it: its  *)
(* counter is the number of tickets that were not released, so deleting it *)
(* at zero never cuts a chain on which somebody waits.                     *)
(***************************************************************************)
WaitersCounted ==
    \A k \in Keys :
        /\ locks[k].waiters = Cardinality(Pending(k))
        /\ locks[k].chain = 0 <=> Pending(k) = {}

(***************************************************************************)
(* A waiter is kept waiting only by a holder, by somebody about to become  *)
(* the holder, or by an earlier waiter that timed out.                     *)
(***************************************************************************)
NoIdleWait ==
    \A u \in Tickets :
        st[u] = "waiting" =>
            \E t \in Tickets :
                /\ t <= u /\ key[t] = key[u]
                /\ st[t] \in {"held", "timedout"} \/ GrantPending(t)

\* The requests of the abstract mutex are the tickets.
Phase(t) == CASE st[t] = "none" -> "new"
              [] st[t] \in {"waiting", "timedout"} -> "inLine"
              [] st[t] = "held" -> "has"
              [] st[t] = "released" -> "done"

M == INSTANCE Mutex WITH Requests <- Tickets, wants <- key,
                         phase <- [t \in Tickets |-> Phase(t)]

(***************************************************************************)
(* The chain of promises implements the abstract mutex.                    *)
(***************************************************************************)
ImplementsMutex == M!Spec

-----------------------------------------------------------------------------
(***************************************************************************)
(* shared-lock.ts, of release(): "Release the lock so the next waiter can  *)
(* proceed": when nobody holds a key, a waiter for it is about to get it.  *)
(***************************************************************************)
NextWaiterProceeds ==
    \A u \in Tickets :
        st[u] = "waiting" =>
            \E t \in Tickets : key[t] = key[u] /\ (st[t] = "held" \/ GrantPending(t))
=============================================================================
