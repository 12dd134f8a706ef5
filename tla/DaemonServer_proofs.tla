------------------------ MODULE DaemonServer_proofs ------------------------
(***************************************************************************)
(* Every step of the daemon is a step of its lock or leaves it alone, so   *)
(* what is proved of SharedLock holds in the daemon, and the handles kept  *)
(* for the clients are exactly the locks they hold.                        *)
(*                                                                         *)
(* The two go together: that lock.release and the close handler release    *)
(* only locks that are held follows from HandlesMatchHolders, and that a   *)
(* granted lock overwrites no handle follows from ServedInOrder.           *)
(***************************************************************************)
EXTENDS DaemonServer, FiniteSetTheorems, WellFoundedInduction, TLAPS

-----------------------------------------------------------------------------
(***************************************************************************)
(* Proofs about SharedLock, for any set of keys and any number of calls.   *)
(*                                                                         *)
(* ServedInOrder alone is not inductive: that a granted ticket has nobody  *)
(* before it follows from where the promise it awaited stands in the line  *)
(* of its key.  ChainInv says that: prev[t] is the latest earlier ticket   *)
(* of the key, or 0 when all of them are released, and the entry of a key  *)
(* points to its latest ticket, or is absent when all are released.        *)
(***************************************************************************)

\* Tickets are used in order.
IssuedInv == \A t \in Tickets : st[t] = "none" <=> t > issued

\* What the entry of a key says about the tickets of the key.
EntryInv ==
    \A k \in Keys :
        /\ locks[k].chain # 0 =>
              /\ locks[k].chain <= issued
              /\ key[locks[k].chain] = k
              /\ \A u \in Tickets : u <= issued /\ key[u] = k => u <= locks[k].chain
        /\ locks[k].chain = 0 =>
              \A u \in Tickets : u <= issued /\ key[u] = k => st[u] = "released"

\* What the promise a ticket waits on says about the earlier tickets.
PrevInv ==
    \A t \in Tickets :
        t <= issued =>
            /\ prev[t] < t
            /\ prev[t] # 0 =>
                  /\ key[prev[t]] = key[t]
                  /\ \A u \in Tickets : u < t /\ key[u] = key[t] => u <= prev[t]
            /\ prev[t] = 0 =>
                  \A u \in Tickets : u < t /\ key[u] = key[t] => st[u] = "released"

ChainInv == LockTypeOK /\ IssuedInv /\ EntryInv /\ PrevInv /\ ServedInOrder

CountInv == ChainInv /\ WaitersCounted

-----------------------------------------------------------------------------
LEMMA InitChainInv == LockInit => ChainInv
<1> SUFFICES ASSUME LockInit PROVE ChainInv
    OBVIOUS
<1> USE LockAssumption DEF LockInit
<1>1. LockTypeOK
    BY DEF LockTypeOK, Tickets, Chain, NoEntry
<1>2. IssuedInv
    BY DEF IssuedInv, Tickets
<1>3. EntryInv
    BY DEF EntryInv, NoEntry, Tickets
<1>4. PrevInv
    BY DEF PrevInv, Tickets
<1>5. ServedInOrder
    BY DEF ServedInOrder, Tickets
<1> QED
    BY <1>1, <1>2, <1>3, <1>4, <1>5 DEF ChainInv

\* acquire() appends the new ticket at the end of the line of its key.
LEMMA AcquireChainInv ==
    ASSUME ChainInv, NEW k \in Keys, acquire(k)
    PROVE  ChainInv'
<1> DEFINE t == issued + 1
<1> USE LockAssumption DEF ChainInv
<1>1. /\ t \in Tickets /\ issued \in Nat /\ issued' = t
      /\ key' = [key EXCEPT ![t] = k]
      /\ prev' = [prev EXCEPT ![t] = locks[k].chain]
      /\ st' = [st EXCEPT ![t] = "waiting"]
      /\ locks' = [locks EXCEPT ![k] = [chain |-> t, waiters |-> @.waiters + 1]]
    BY DEF acquire, LockTypeOK, Tickets
<1>2. LockTypeOK'
    BY <1>1 DEF LockTypeOK, Tickets, Chain
<1>3. IssuedInv'
    BY <1>1 DEF IssuedInv, LockTypeOK, Tickets
<1>4. locks[k].chain \in Chain /\ locks[k].chain < t
    BY <1>1 DEF LockTypeOK, EntryInv, Chain
<1>5. EntryInv'
  <2> SUFFICES ASSUME NEW j \in Keys
               PROVE  /\ locks'[j].chain # 0 =>
                            /\ locks'[j].chain <= issued'
                            /\ key'[locks'[j].chain] = j
                            /\ \A u \in Tickets : u <= issued' /\ key'[u] = j
                                                    => u <= locks'[j].chain
                      /\ locks'[j].chain = 0 =>
                            \A u \in Tickets : u <= issued' /\ key'[u] = j
                                                 => st'[u] = "released"
      BY DEF EntryInv
  <2>1. CASE j = k
    <3>1. locks'[j].chain = t /\ key'[t] = k
        BY <1>1, <2>1 DEF LockTypeOK
    <3> QED
        BY <1>1, <2>1, <3>1 DEF Tickets
  <2>2. CASE j # k
    <3>1. locks'[j] = locks[j] /\ locks[j].chain \in Chain
        BY <1>1, <2>2 DEF LockTypeOK
    <3>2. \A u \in Tickets : u <= issued => u # t /\ key'[u] = key[u] /\ st'[u] = st[u]
        BY <1>1 DEF LockTypeOK, Tickets
    <3>3. key'[t] = k
        BY <1>1 DEF LockTypeOK
    <3>4. \A u \in Tickets : u <= issued' /\ key'[u] = j => u <= issued
        BY <1>1, <2>2, <3>3 DEF Tickets
    <3>5. locks[j].chain # 0 => locks[j].chain \in Tickets
        BY <3>1 DEF Chain, Tickets
    <3> QED
        BY <1>1, <3>1, <3>2, <3>4, <3>5 DEF EntryInv, Chain, Tickets
  <2> QED
      BY <2>1, <2>2
<1>6. PrevInv'
  <2> SUFFICES ASSUME NEW v \in Tickets, v <= issued'
               PROVE  /\ prev'[v] < v
                      /\ prev'[v] # 0 =>
                            /\ key'[prev'[v]] = key'[v]
                            /\ \A u \in Tickets : u < v /\ key'[u] = key'[v]
                                                    => u <= prev'[v]
                      /\ prev'[v] = 0 =>
                            \A u \in Tickets : u < v /\ key'[u] = key'[v]
                                                 => st'[u] = "released"
      BY DEF PrevInv
  <2>0. \A u \in Tickets : u <= issued =>
            u # t /\ key'[u] = key[u] /\ st'[u] = st[u] /\ prev'[u] = prev[u]
      BY <1>1 DEF LockTypeOK, Tickets
  <2>1. CASE v = t
    <3>1. prev'[v] = locks[k].chain /\ key'[v] = k
        BY <1>1, <2>1 DEF LockTypeOK
    <3>2. \A u \in Tickets : u < v => u <= issued
        BY <1>1, <2>1 DEF Tickets
    <3>3. locks[k].chain # 0 => locks[k].chain \in Tickets /\ locks[k].chain <= issued
        BY <1>1, <1>4 DEF Chain, Tickets, EntryInv
    <3> QED
        BY <1>1, <1>4, <2>0, <2>1, <3>1, <3>2, <3>3 DEF EntryInv, Chain, Tickets
  <2>2. CASE v # t
    <3>1. v <= issued
        BY <1>1, <2>2 DEF Tickets
    <3>2. \A u \in Tickets : u < v => u <= issued
        BY <1>1, <3>1 DEF Tickets
    <3>a. prev[v] \in Chain
        BY DEF LockTypeOK
    <3>b. prev[v] < v
        BY <3>1 DEF PrevInv
    <3>3. prev[v] # 0 => prev[v] \in Tickets /\ prev[v] <= issued
        BY <1>1, <3>1, <3>a, <3>b DEF Chain, Tickets
    <3>4. prev'[v] = prev[v] /\ key'[v] = key[v]
        BY <2>0, <3>1
    <3>5. \A u \in Tickets : u < v => key'[u] = key[u] /\ st'[u] = st[u]
        BY <2>0, <3>2
    <3>6. prev[v] # 0 => key'[prev[v]] = key[prev[v]]
        BY <2>0, <3>3
    <3> QED
        BY <3>1, <3>4, <3>5, <3>6 DEF PrevInv
  <2> QED
      BY <2>1, <2>2
<1>7. ServedInOrder'
  <2> SUFFICES ASSUME NEW v \in Tickets, NEW u \in Tickets,
                      v < u, key'[v] = key'[u], st'[u] \in {"held", "released"}
               PROVE  st'[v] = "released"
      BY DEF ServedInOrder
  <2>1. u # t /\ st'[u] = st[u] /\ key'[u] = key[u]
      BY <1>1 DEF LockTypeOK
  <2>2. u <= issued
      BY <2>1, <1>1 DEF IssuedInv, LockTypeOK, Tickets
  <2>3. v # t /\ st'[v] = st[v] /\ key'[v] = key[v]
      BY <1>1, <2>2 DEF LockTypeOK, Tickets
  <2> QED
      BY <2>1, <2>3 DEF ServedInOrder
<1> QED
    BY <1>2, <1>3, <1>5, <1>6, <1>7

\* A change of st that releases nothing before its turn keeps the chains.
LEMMA StChainInv ==
    ASSUME ChainInv, NEW t \in Tickets, NEW s,
           st' = [st EXCEPT ![t] = s],
           s \in {"held", "timedout"},
           st[t] = "waiting",
           s = "held" => GrantPending(t),
           UNCHANGED <<issued, key, prev>>
    PROVE  /\ IssuedInv' /\ PrevInv' /\ ServedInOrder'
           /\ key' \in [Tickets -> Keys] /\ issued' \in 0 .. MaxTickets
           /\ prev' \in [Tickets -> Chain]
           /\ st' \in [Tickets -> {"none", "waiting", "held", "released", "timedout"}]
           /\ \A u \in Tickets : st[u] = "released" => st'[u] = "released"
<1> USE DEF ChainInv
<1>1. /\ key' \in [Tickets -> Keys] /\ issued' \in 0 .. MaxTickets
      /\ prev' \in [Tickets -> Chain]
      /\ st' \in [Tickets -> {"none", "waiting", "held", "released", "timedout"}]
    BY DEF LockTypeOK
<1>2. \A u \in Tickets : st'[u] = IF u = t THEN s ELSE st[u]
    BY DEF LockTypeOK
<1>3. \A u \in Tickets : st[u] = "released" => st'[u] = "released"
    BY <1>2
<1>4. IssuedInv'
    BY <1>2 DEF IssuedInv
<1>5. PrevInv'
    BY <1>3 DEF PrevInv
<1>6. ServedInOrder'
  <2> SUFFICES ASSUME NEW v \in Tickets, NEW u \in Tickets,
                      v < u, key[v] = key[u], st'[u] \in {"held", "released"}
               PROVE  st[v] = "released"
      BY <1>3 DEF ServedInOrder
  <2>1. CASE st[u] \in {"held", "released"}
      BY <2>1 DEF ServedInOrder
  <2>2. CASE st[u] \notin {"held", "released"}
    <3>1. u = t /\ s = "held" /\ GrantPending(t)
        BY <1>2, <2>2
    <3>2. t <= issued
        BY <3>1 DEF IssuedInv, GrantPending, LockTypeOK, Tickets
    <3>3. CASE prev[t] = 0
        BY <3>1, <3>2, <3>3 DEF PrevInv
    <3>4. CASE prev[t] # 0
      <4>1. prev[t] \in Tickets
          BY <3>4 DEF LockTypeOK, Chain, Tickets
      <4>2. st[prev[t]] = "released"
          BY <3>1, <3>4 DEF GrantPending, Resolved
      <4>3. v <= prev[t] /\ key[prev[t]] = key[t]
          BY <3>1, <3>2, <3>4 DEF PrevInv
      <4>4. CASE v = prev[t]
          BY <4>2, <4>4
      <4>5. CASE v < prev[t]
          BY <3>1, <4>1, <4>2, <4>3, <4>5 DEF ServedInOrder
      <4> QED
          BY <4>1, <4>3, <4>4, <4>5 DEF Tickets
    <3> QED
        BY <3>3, <3>4
  <2> QED
      BY <2>1, <2>2
<1> QED
    BY <1>1, <1>3, <1>4, <1>5, <1>6

LEMMA GrantedChainInv ==
    ASSUME ChainInv, NEW t \in Tickets, Granted(t)
    PROVE  ChainInv'
<1>1. /\ IssuedInv' /\ PrevInv' /\ ServedInOrder'
      /\ key' \in [Tickets -> Keys] /\ issued' \in 0 .. MaxTickets
      /\ prev' \in [Tickets -> Chain]
      /\ st' \in [Tickets -> {"none", "waiting", "held", "released", "timedout"}]
      /\ \A u \in Tickets : st[u] = "released" => st'[u] = "released"
    BY StChainInv DEF Granted, GrantPending
<1>2. EntryInv'
    BY <1>1 DEF EntryInv, ChainInv, Granted
<1> QED
    BY <1>1, <1>2 DEF ChainInv, LockTypeOK, Granted

LEMMA TimedOutChainInv ==
    ASSUME ChainInv, NEW t \in Tickets, TimedOut(t)
    PROVE  ChainInv'
<1>1. /\ IssuedInv' /\ PrevInv' /\ ServedInOrder'
      /\ key' \in [Tickets -> Keys] /\ issued' \in 0 .. MaxTickets
      /\ prev' \in [Tickets -> Chain]
      /\ st' \in [Tickets -> {"none", "waiting", "held", "released", "timedout"}]
      /\ \A u \in Tickets : st[u] = "released" => st'[u] = "released"
    BY StChainInv DEF TimedOut
<1>2. EntryInv'
    BY <1>1 DEF EntryInv, ChainInv, TimedOut
<1> QED
    BY <1>1, <1>2 DEF ChainInv, LockTypeOK, TimedOut

-----------------------------------------------------------------------------
LEMMA PendingFinite ==
    ASSUME NEW k PROVE IsFiniteSet(Pending(k)) /\ Cardinality(Pending(k)) \in Nat
<1>1. IsFiniteSet(Tickets)
    BY LockAssumption, FS_Interval DEF Tickets
<1>2. Pending(k) \in SUBSET Tickets
    BY DEF Pending
<1>3. IsFiniteSet(Pending(k))
    BY <1>1, <1>2, FS_Subset
<1> QED
    BY <1>3, FS_CardinalityType

LEMMA InitCountInv == LockInit => CountInv
<1> SUFFICES ASSUME LockInit PROVE CountInv
    OBVIOUS
<1>1. \A k \in Keys : Pending(k) = {}
    BY DEF LockInit, Pending
<1>2. WaitersCounted
    BY <1>1, FS_EmptySet DEF LockInit, WaitersCounted, NoEntry
<1> QED
    BY <1>2, InitChainInv DEF CountInv

LEMMA AcquireCountInv ==
    ASSUME CountInv, NEW k \in Keys, acquire(k)
    PROVE  CountInv'
<1> DEFINE t == issued + 1
<1>1. /\ t \in Tickets /\ st[t] = "none"
      /\ key' = [key EXCEPT ![t] = k]
      /\ st' = [st EXCEPT ![t] = "waiting"]
      /\ locks' = [locks EXCEPT ![k] = [chain |-> t, waiters |-> @.waiters + 1]]
    BY LockAssumption DEF acquire, CountInv, ChainInv, LockTypeOK, IssuedInv, Tickets
<1>2. Pending(k)' = Pending(k) \cup {t} /\ t \notin Pending(k)
    BY <1>1 DEF Pending, CountInv, ChainInv, LockTypeOK
<1>3. \A j \in Keys : j # k => Pending(j)' = Pending(j)
    BY <1>1 DEF Pending, CountInv, ChainInv, LockTypeOK
<1>4. Cardinality(Pending(k)') = Cardinality(Pending(k)) + 1
    BY <1>2, PendingFinite, FS_AddElement
<1>5. locks'[k].waiters = locks[k].waiters + 1 /\ locks'[k].chain = t
    BY <1>1 DEF CountInv, ChainInv, LockTypeOK
<1>6. \A j \in Keys : j # k => locks'[j] = locks[j]
    BY <1>1 DEF CountInv, ChainInv, LockTypeOK
<1>7. t # 0
    BY <1>1 DEF Tickets
<1>8. WaitersCounted'
  <2> SUFFICES ASSUME NEW j \in Keys
               PROVE  /\ locks'[j].waiters = Cardinality(Pending(j)')
                      /\ locks'[j].chain = 0 <=> Pending(j)' = {}
      BY DEF WaitersCounted
  <2>1. CASE j = k
      BY <1>2, <1>4, <1>5, <1>7, <2>1 DEF CountInv, WaitersCounted
  <2>2. CASE j # k
      BY <1>3, <1>6, <2>2 DEF CountInv, WaitersCounted
  <2> QED
      BY <2>1, <2>2
<1> QED
    BY <1>8, AcquireChainInv DEF CountInv

LEMMA GrantedCountInv ==
    ASSUME CountInv, NEW t \in Tickets, Granted(t)
    PROVE  CountInv'
<1>1. \A k \in Keys : Pending(k)' = Pending(k)
    BY DEF Pending, CountInv, ChainInv, LockTypeOK, Granted, GrantPending
<1> QED
    BY <1>1, GrantedChainInv DEF CountInv, WaitersCounted, Granted

LEMMA TimedOutCountInv ==
    ASSUME CountInv, NEW t \in Tickets, TimedOut(t)
    PROVE  CountInv'
<1>1. \A k \in Keys : Pending(k)' = Pending(k)
    BY DEF Pending, CountInv, ChainInv, LockTypeOK, TimedOut
<1> QED
    BY <1>1, TimedOutChainInv DEF CountInv, WaitersCounted, TimedOut

\* Releasing holders releases nobody before his turn.
LEMMA ReleaseChain ==
    ASSUME ChainInv, NEW S \in SUBSET Tickets, Release(S)
    PROVE  /\ IssuedInv' /\ PrevInv' /\ ServedInOrder'
           /\ UNCHANGED <<issued, key, prev>>
           /\ st' \in [Tickets -> {"none", "waiting", "held", "released", "timedout"}]
           /\ \A u \in Tickets : st[u] = "released" => st'[u] = "released"
<1> USE DEF ChainInv
<1>1. UNCHANGED <<issued, key, prev>>
    BY DEF Release, release
<1>2. \A u \in Tickets : st'[u] = IF u \in S THEN "released" ELSE st[u]
    BY DEF Release, release
<1>3. st' \in [Tickets -> {"none", "waiting", "held", "released", "timedout"}]
    BY DEF Release, release, LockTypeOK
<1>4. \A u \in Tickets : st[u] = "released" => st'[u] = "released"
    BY <1>2
<1>5. IssuedInv'
    BY <1>1, <1>2 DEF IssuedInv, Release
<1>6. PrevInv'
    BY <1>1, <1>4 DEF PrevInv
<1>7. ServedInOrder'
  <2>1. \A u \in Tickets : st'[u] \in {"held", "released"} => st[u] \in {"held", "released"}
      BY <1>2 DEF Release
  <2> QED
      BY <1>1, <1>4, <2>1 DEF ServedInOrder
<1> QED
    BY <1>1, <1>3, <1>4, <1>5, <1>6, <1>7

\* release() deletes the entry when its own ticket is the last one pending:
\* all the other tickets of the key are released then.
LEMMA ReleaseCountInv ==
    ASSUME CountInv, NEW S \in SUBSET Tickets, Release(S)
    PROVE  CountInv'
<1> USE DEF CountInv, ChainInv
<1>1. /\ IssuedInv' /\ PrevInv' /\ ServedInOrder'
      /\ UNCHANGED <<issued, key, prev>>
      /\ st' \in [Tickets -> {"none", "waiting", "held", "released", "timedout"}]
      /\ \A u \in Tickets : st[u] = "released" => st'[u] = "released"
    BY ReleaseChain
<1>2. /\ \A u \in Tickets : st'[u] = IF u \in S THEN "released" ELSE st[u]
      /\ \A u \in S : st[u] = "held"
      /\ locks' = [j \in Keys |-> IF \E t \in S : key[t] = j
                                  THEN Departed(locks[j]) ELSE locks[j]]
    BY DEF Release, release
<1>3. ASSUME NEW j \in Keys, ~\E t \in S : key[t] = j
      PROVE  locks'[j] = locks[j] /\ Pending(j)' = Pending(j)
    BY <1>1, <1>2, <1>3 DEF Pending
<1>4. ASSUME NEW j \in Keys, NEW t \in S, key[t] = j
      PROVE  /\ locks'[j] \in [chain : Chain, waiters : Nat]
             /\ locks'[j].waiters = Cardinality(Pending(j)')
             /\ locks'[j].chain = 0 <=> Pending(j)' = {}
             /\ locks'[j].chain # 0 => locks'[j].chain = locks[j].chain
  <2>1. \A u \in S : key[u] = j => u = t
      BY <1>2, <1>4 DEF ServedInOrder, Tickets
  <2>2. Pending(j)' = Pending(j) \ {t} /\ t \in Pending(j)
      BY <1>1, <1>2, <1>4, <2>1 DEF Pending
  <2>3. /\ Cardinality(Pending(j)') = Cardinality(Pending(j)) - 1
        /\ IsFiniteSet(Pending(j)')
      BY <2>2, PendingFinite, FS_RemoveElement
  <2>4. /\ locks[j].waiters = Cardinality(Pending(j))
        /\ Cardinality(Pending(j)) \in Nat
        /\ locks[j].chain # 0
      BY <2>2, PendingFinite DEF WaitersCounted
  <2>5. Pending(j)' = {} <=> Cardinality(Pending(j)') = 0
      BY <2>3, FS_EmptySet
  <2>6. Pending(j)' = {} <=> locks[j].waiters = 1
      BY <2>3, <2>4, <2>5
  <2>7. locks[j].waiters \in Nat \ {0} /\ locks[j] \in [chain : Chain, waiters : Nat]
    <3>1. Cardinality(Pending(j)) # 0
        BY <2>2, PendingFinite, FS_EmptySet
    <3> QED
        BY <2>4, <3>1 DEF LockTypeOK
  <2>8. locks'[j] = Departed(locks[j])
      BY <1>2, <1>4
  <2>9. CASE locks[j].waiters = 1
    <3>1. locks'[j] = [chain |-> 0, waiters |-> 0]
        BY <2>8, <2>9 DEF Departed, NoEntry
    <3> QED
        BY <2>3, <2>4, <2>6, <2>9, <3>1, LockAssumption DEF Chain
  <2>10. CASE locks[j].waiters # 1
    <3>1. locks'[j] = [chain |-> locks[j].chain, waiters |-> locks[j].waiters - 1]
        BY <2>7, <2>8, <2>10 DEF Departed
    <3> QED
        BY <2>3, <2>4, <2>6, <2>7, <2>10, <3>1
  <2> QED
      BY <2>9, <2>10
<1>5. LockTypeOK'
  <2>1. \A j \in Keys : locks'[j] \in [chain : Chain, waiters : Nat]
      BY <1>3, <1>4 DEF LockTypeOK
  <2>2. locks' \in [Keys -> [chain : Chain, waiters : Nat]]
      BY <1>2, <2>1
  <2> QED
      BY <1>1, <2>2 DEF LockTypeOK
<1>6. WaitersCounted'
    BY <1>3, <1>4 DEF WaitersCounted
<1>7. EntryInv'
  <2> SUFFICES ASSUME NEW j \in Keys
               PROVE  /\ locks'[j].chain # 0 =>
                            /\ locks'[j].chain <= issued
                            /\ key[locks'[j].chain] = j
                            /\ \A u \in Tickets : u <= issued /\ key[u] = j
                                                    => u <= locks'[j].chain
                      /\ locks'[j].chain = 0 =>
                            \A u \in Tickets : u <= issued /\ key[u] = j
                                                 => st'[u] = "released"
      BY <1>1 DEF EntryInv
  <2>1. locks'[j].chain # 0 => locks'[j].chain = locks[j].chain
      BY <1>3, <1>4
  <2>2. ASSUME locks'[j].chain = 0, NEW u \in Tickets, u <= issued, key[u] = j
        PROVE  st'[u] = "released"
    <3>1. u \notin Pending(j)'
        BY <1>6, <2>2 DEF WaitersCounted
    <3>2. st'[u] \notin {"waiting", "held", "timedout"}
        BY <1>1, <2>2, <3>1 DEF Pending
    <3>3. st'[u] # "none"
        BY <1>1, <2>2 DEF IssuedInv, LockTypeOK, Tickets
    <3> QED
        BY <1>1, <3>2, <3>3
  <2> QED
      BY <2>1, <2>2 DEF EntryInv
<1> QED
    BY <1>1, <1>5, <1>6, <1>7

-----------------------------------------------------------------------------
LEMMA NextCountInv == CountInv /\ [LockNext]_lockVars => CountInv'
<1> SUFFICES ASSUME CountInv, [LockNext]_lockVars PROVE CountInv'
    OBVIOUS
<1>1. ASSUME NEW k \in Keys, acquire(k) PROVE CountInv'
    BY <1>1, AcquireCountInv
<1>2. ASSUME NEW t \in Tickets, Granted(t) PROVE CountInv'
    BY <1>2, GrantedCountInv
<1>3. ASSUME NEW t \in Tickets, TimedOut(t) PROVE CountInv'
    BY <1>3, TimedOutCountInv
<1>4. ASSUME NEW S \in SUBSET Tickets, Release(S) PROVE CountInv'
    BY <1>4, ReleaseCountInv
<1>5. CASE UNCHANGED lockVars
  <2>1. ChainInv'
      BY <1>5 DEF lockVars, CountInv, ChainInv, LockTypeOK, IssuedInv, EntryInv,
                  PrevInv, ServedInOrder
  <2>2. \A k \in Keys : Pending(k)' = Pending(k)
      BY <1>5 DEF lockVars, Pending
  <2>3. WaitersCounted'
      BY <1>5, <2>2 DEF lockVars, CountInv, WaitersCounted
  <2> QED
      BY <2>1, <2>3 DEF CountInv
<1> QED
    BY <1>1, <1>2, <1>3, <1>4, <1>5 DEF LockNext

\* The inductive invariant holds in every reachable state of the lock.
THEOREM CountInvariant == LockSpec => []CountInv
<1>1. LockInit => CountInv
    BY InitCountInv
<1>2. CountInv /\ [LockNext]_lockVars => CountInv'
    BY NextCountInv
<1> QED
    BY <1>1, <1>2, PTL DEF LockSpec

\* Every variable of the lock keeps its type: in particular the counter of
\* an entry never goes below zero.
THEOREM LockTypeCorrect == LockSpec => []LockTypeOK
<1>1. CountInv => LockTypeOK
    BY DEF CountInv, ChainInv
<1> QED
    BY <1>1, CountInvariant, PTL

\* acquire() serves the callers of a key one at a time, in order.
THEOREM OrderCorrect == LockSpec => []ServedInOrder
<1>1. CountInv => ServedInOrder
    BY DEF CountInv, ChainInv
<1> QED
    BY <1>1, CountInvariant, PTL

\* The entry of a key is deleted exactly when its last ticket is released.
THEOREM CountCorrect == LockSpec => []WaitersCounted
<1>1. CountInv => WaitersCounted
    BY DEF CountInv
<1> QED
    BY <1>1, CountInvariant, PTL

\* Among several tickets there is a first one.
LEMMA LeastTicket ==
    ASSUME NEW T, T \subseteq Nat, T # {}
    PROVE  \E x \in T : \A y \in T : x <= y
<1> DEFINE Less == {ss \in Nat \X Nat : ss[1] < ss[2]}
<1>1. IsWellFoundedOn(Less, Nat)
    BY NatLessThanWellFounded DEF OpToRel
<1>2. \A x, y \in Nat : x < y => <<x, y>> \in Less
    OBVIOUS
<1> HIDE DEF Less
<1>3. PICK x \in T : \A y \in T : <<y, x>> \notin Less
    BY <1>1, WFMin
<1>4. \A y \in T : ~(y < x)
    BY <1>2, <1>3
<1> QED
    BY <1>3, <1>4

\* The first ticket before a waiting one, or itself, that is not released
\* awaits nothing but a released one.
LEMMA FirstInLine ==
    ASSUME CountInv
    PROVE  NoIdleWait
<1> SUFFICES ASSUME NEW u \in Tickets, st[u] = "waiting"
             PROVE  \E t \in Tickets :
                        /\ t <= u /\ key[t] = key[u]
                        /\ st[t] \in {"held", "timedout"} \/ GrantPending(t)
    BY DEF NoIdleWait
<1> DEFINE T == {t \in Tickets : t <= u /\ key[t] = key[u] /\ st[t] # "released"}
<1>1. MaxTickets \in Nat /\ LockTypeOK /\ IssuedInv /\ PrevInv
    BY LockAssumption DEF CountInv, ChainInv
<1>2. T \subseteq Nat /\ u \in T
    BY <1>1 DEF Tickets
<1>3. PICK t \in T : \A y \in T : t <= y
    BY <1>2, LeastTicket
<1>4. u <= issued /\ t <= issued /\ t \in Tickets /\ st[t] # "none"
    BY <1>1, <1>2, <1>3 DEF IssuedInv, LockTypeOK, Tickets
<1>5. st[t] = "waiting" => Resolved(prev[t])
    <2> SUFFICES ASSUME prev[t] # 0 PROVE st[prev[t]] = "released"
        BY DEF Resolved
    <2>1. prev[t] \in Tickets /\ prev[t] < t /\ key[prev[t]] = key[t]
        BY <1>1, <1>4 DEF PrevInv, LockTypeOK, Chain, Tickets
    <2>2. prev[t] \notin T
        BY <1>2, <1>3, <2>1
    <2> QED
        BY <1>1, <1>2, <1>3, <2>1, <2>2 DEF Tickets
<1> QED
    BY <1>1, <1>3, <1>4, <1>5 DEF GrantPending, LockTypeOK

\* release() lets the next waiter proceed: whoever waits is kept by a
\* holder, by somebody about to become the holder, or by a waiter before it
\* that timed out.
THEOREM NobodyWaitsInVain == LockSpec => []NoIdleWait
<1>1. CountInv => NoIdleWait
    BY FirstInLine
<1> QED
    BY <1>1, CountInvariant, PTL

-----------------------------------------------------------------------------
\* A step of the lock is a step of the mutex, or none.
LEMMA StepRefines ==
    ASSUME ChainInv, ChainInv', [LockNext]_lockVars
    PROVE  [M!Next]_(M!mutexVars)
<1> USE DEF ChainInv
<1> DEFINE ph == [t \in Tickets |-> Phase(t)]
<1>1. ASSUME NEW k \in Keys, acquire(k)
      PROVE  \E r \in Tickets : M!LineUp(r, k)
  <2> DEFINE r == issued + 1
  <2>1. /\ r \in Tickets
        /\ key' = [key EXCEPT ![r] = k]
        /\ st' = [st EXCEPT ![r] = "waiting"]
      BY <1>1, LockAssumption DEF acquire, LockTypeOK, Tickets
  <2>2. \A q \in Tickets : ph[q] = "new" <=> r <= q
    <3>1. \A q \in Tickets : ph[q] = "new" <=> st[q] = "none"
        BY DEF LockTypeOK, Phase
    <3>2. \A q \in Tickets : st[q] = "none" <=> r <= q
        BY DEF IssuedInv, LockTypeOK, Tickets
    <3> QED
        BY <3>1, <3>2
  <2>3. ph' = [ph EXCEPT ![r] = "inLine"]
      BY <2>1 DEF Phase, LockTypeOK
  <2> QED
      BY <2>1, <2>2, <2>3 DEF M!LineUp
<1>2. ASSUME NEW t \in Tickets, Granted(t) PROVE M!Take(t)
  <2>1. st' = [st EXCEPT ![t] = "held"] /\ st[t] = "waiting" /\ key' = key
      BY <1>2 DEF Granted, GrantPending
  <2>2. ph[t] = "inLine" /\ ph' = [ph EXCEPT ![t] = "has"]
      BY <2>1 DEF Phase, LockTypeOK
  <2>3. \A q \in Tickets : q < t /\ key[q] = key[t] => st[q] = "released"
      BY <2>1 DEF ServedInOrder, LockTypeOK, Tickets
  <2>4. \A q \in Tickets : st[q] = "released" => ph[q] = "done"
      BY DEF Phase
  <2> QED
      BY <2>1, <2>2, <2>3, <2>4 DEF M!Take
<1>3. ASSUME NEW t \in Tickets, TimedOut(t) PROVE UNCHANGED <<key, ph>>
    BY <1>3 DEF TimedOut, Phase, LockTypeOK
<1>4. ASSUME NEW S \in SUBSET Tickets, Release(S) PROVE M!LetGo(S)
  <2>1. /\ \A t \in Tickets : st'[t] = IF t \in S THEN "released" ELSE st[t]
        /\ \A t \in S : st[t] = "held"
        /\ key' = key
      BY <1>4 DEF Release, release
  <2>2. \A t \in S : ph[t] = "has"
      BY <2>1 DEF Phase
  <2>3. ph' = [t \in Tickets |-> IF t \in S THEN "done" ELSE ph[t]]
    <3>1. ASSUME NEW t \in Tickets
          PROVE  Phase(t)' = IF t \in S THEN "done" ELSE Phase(t)
      <4>1. CASE t \in S
          BY <2>1, <4>1 DEF Phase
      <4>2. CASE t \notin S
        <5>1. st'[t] = st[t] /\ st[t] \in {"none", "waiting", "held", "released", "timedout"}
            BY <2>1, <4>2 DEF LockTypeOK
        <5> QED
            BY <4>2, <5>1 DEF Phase
      <4> QED
          BY <4>1, <4>2
    <3> QED
        BY <3>1
  <2> QED
      BY <2>1, <2>2, <2>3 DEF M!LetGo
<1>5. CASE UNCHANGED lockVars
    BY <1>5 DEF lockVars, Phase, M!mutexVars
<1> QED
    BY <1>1, <1>2, <1>3, <1>4, <1>5 DEF LockNext, M!Next, M!mutexVars

\* The chain of promises implements the abstract mutex.
THEOREM RefinesMutex == LockSpec => ImplementsMutex
<1>1. LockInit => M!Init
    BY LockAssumption DEF LockInit, M!Init, Phase
<1>2. ChainInv /\ ChainInv' /\ [LockNext]_lockVars => [M!Next]_(M!mutexVars)
    BY StepRefines
<1>3. CountInv => ChainInv
    BY DEF CountInv
<1> QED
    BY <1>1, <1>2, <1>3, CountInvariant, PTL DEF LockSpec, ImplementsMutex, M!Spec

-----------------------------------------------------------------------------
(* The daemon. *)

DaemonInv == TypeOK /\ CountInv /\ HandlesMatchHolders

\* The handle of a client for a key, if any, is a ticket.
LEMMA HandleType ==
    ASSUME TypeOK, NEW c \in Clients, NEW k \in Keys
    PROVE  /\ lockHandles[c][k] \in Chain
           /\ lockHandles[c][k] # 0 => lockHandles[c][k] \in Tickets
  BY LockAssumption DEF TypeOK, Chain, Tickets

\* The tickets close() releases are the locks of the client.
LEMMA ClosedAreHeld ==
    ASSUME DaemonInv, NEW c \in Clients
    PROVE  LET S == {lockHandles[c][k] : k \in Keys} \ {0}
           IN  /\ S \in SUBSET Tickets
               /\ \A t \in S : st[t] = "held"
               /\ \A t \in Tickets : t \in S <=> st[t] = "held" /\ owner[t] = c
  <1> DEFINE S == {lockHandles[c][k] : k \in Keys} \ {0}
  <1>1. S \in SUBSET Tickets
    BY HandleType DEF DaemonInv
  <1>2. \A t \in S : st[t] = "held" /\ owner[t] = c
    BY DEF DaemonInv, HandlesMatchHolders
  <1>3. \A t \in Tickets : st[t] = "held" /\ owner[t] = c => t \in S
    <2> SUFFICES ASSUME NEW t \in Tickets, st[t] = "held", owner[t] = c
                 PROVE  t \in S
      OBVIOUS
    <2>1. lockHandles[c][key[t]] = t /\ key[t] \in Keys
      BY DEF DaemonInv, HandlesMatchHolders, TypeOK, LockTypeOK
    <2>2. t # 0
      BY DEF Tickets
    <2> QED BY <2>1, <2>2
  <1> QED BY <1>1, <1>2, <1>3

\* What a step of the daemon does to the lock.
LEMMA LockStep == DaemonInv /\ [Next]_vars => [LockNext]_lockVars
  <1> SUFFICES ASSUME DaemonInv, [Next]_vars PROVE [LockNext]_lockVars
    OBVIOUS
  <1>1. ASSUME NEW c \in Clients, handleConnection(c) \/ handleAuth(c)
        PROVE  UNCHANGED lockVars
    BY <1>1 DEF handleConnection, handleAuth
  <1>2. ASSUME NEW c \in Clients, NEW k \in Keys, lockAcquire(c, k)
        PROVE  LockNext
    BY <1>2 DEF lockAcquire, LockNext
  <1>3. ASSUME NEW c \in Clients, NEW k \in Keys, lockRelease(c, k)
        PROVE  LockNext
    <2> DEFINE h == lockHandles[c][k]
    <2>1. h # 0 /\ release({h})
      BY <1>3 DEF lockRelease
    <2>2. h \in Tickets /\ st[h] = "held"
      BY <2>1, HandleType DEF DaemonInv, HandlesMatchHolders
    <2>3. {h} \in SUBSET Tickets /\ Release({h})
      BY <2>1, <2>2 DEF Release
    <2> QED BY <2>3 DEF LockNext
  <1>4. ASSUME NEW c \in Clients, close(c) PROVE LockNext
    <2> DEFINE S == {lockHandles[c][k] : k \in Keys} \ {0}
    <2>1. release(S)
      BY <1>4 DEF close
    <2>2. S \in SUBSET Tickets /\ \A t \in S : st[t] = "held"
      BY ClosedAreHeld
    <2>3. Release(S)
      BY <2>1, <2>2 DEF Release
    <2> QED BY <2>2, <2>3 DEF LockNext
  <1>5. ASSUME NEW c \in Clients, destroyTimer(c) PROVE UNCHANGED lockVars
    BY <1>5 DEF destroyTimer
  <1>6. ASSUME NEW t \in Tickets, lockAcquired(t) \/ lockTimedOut(t)
        PROVE  LockNext
    BY <1>6 DEF lockAcquired, lockTimedOut, LockNext
  <1>7. CASE shutdown \/ closeServer \/ serverClosed
    BY <1>7 DEF shutdown, closeServer, serverClosed
  <1>8. CASE UNCHANGED vars
    BY <1>8 DEF vars
  <1> QED BY <1>1, <1>2, <1>3, <1>4, <1>5, <1>6, <1>7, <1>8 DEF Next

-----------------------------------------------------------------------------
LEMMA InitDaemonInv == Init => DaemonInv
  <1> SUFFICES ASSUME Init PROVE DaemonInv
    OBVIOUS
  <1>1. CountInv
    BY InitCountInv DEF Init
  <1>2. TypeOK
    BY <1>1, ClientsAssumption, LockAssumption
       DEF Init, TypeOK, CountInv, ChainInv, NoHandles, Chain
  <1>3. HandlesMatchHolders
    BY DEF Init, LockInit, HandlesMatchHolders, NoHandles
  <1> QED BY <1>1, <1>2, <1>3 DEF DaemonInv

LEMMA NextTypeOK == DaemonInv /\ [Next]_vars => TypeOK'
  <1> SUFFICES ASSUME DaemonInv, [Next]_vars PROVE TypeOK'
    OBVIOUS
  <1>0. LockTypeOK'
    BY LockStep, NextCountInv DEF DaemonInv, CountInv, ChainInv
  <1> USE <1>0 DEF DaemonInv, TypeOK
  <1>1. ASSUME NEW c \in Clients, handleConnection(c) \/ handleAuth(c) \/ destroyTimer(c)
        PROVE  TypeOK'
    BY <1>1 DEF handleConnection, handleAuth, destroyTimer
  <1>2. ASSUME NEW c \in Clients, NEW k \in Keys, lockAcquire(c, k) PROVE TypeOK'
    BY <1>2 DEF lockAcquire
  <1>3. ASSUME NEW c \in Clients, NEW k \in Keys, lockRelease(c, k) PROVE TypeOK'
    <2>1. 0 \in Chain
      BY LockAssumption DEF Chain
    <2> QED BY <1>3, <2>1 DEF lockRelease
  <1>4. ASSUME NEW c \in Clients, close(c) PROVE TypeOK'
    <2>1. NoHandles \in [Keys -> Chain]
      BY LockAssumption DEF Chain, NoHandles
    <2> QED BY <1>4, <2>1 DEF close
  <1>5. ASSUME NEW t \in Tickets, lockAcquired(t) PROVE TypeOK'
    <2>1. t \in Chain
      BY LockAssumption DEF Tickets, Chain
    <2> QED BY <1>5, <2>1 DEF lockAcquired
  <1>6. ASSUME NEW t \in Tickets, lockTimedOut(t) PROVE TypeOK'
    BY <1>6 DEF lockTimedOut, daemonVars
  <1>7. CASE shutdown \/ closeServer \/ serverClosed
    BY <1>7 DEF shutdown, closeServer, serverClosed, Connected
  <1>8. CASE UNCHANGED vars
    BY <1>8 DEF vars, daemonVars
  <1> QED BY <1>1, <1>2, <1>3, <1>4, <1>5, <1>6, <1>7, <1>8 DEF Next

\* Granting a lock to a client that has a handle for its key already would
\* give the key two holders.
LEMMA NoOverwrite ==
    ASSUME DaemonInv, ServedInOrder', NEW t \in Tickets, Granted(t)
    PROVE  lockHandles[owner[t]][key[t]] = 0
  <1> DEFINE h == lockHandles[owner[t]][key[t]]
  <1> SUFFICES ASSUME h # 0 PROVE FALSE
    OBVIOUS
  <1>1. owner[t] \in Clients /\ key[t] \in Keys
    BY DEF DaemonInv, TypeOK, LockTypeOK
  <1>2. h \in Tickets /\ st[h] = "held" /\ key[h] = key[t]
    BY <1>1, HandleType DEF DaemonInv, HandlesMatchHolders
  <1>3. st[t] = "waiting" /\ h # t
    BY <1>2 DEF Granted, GrantPending
  <1>4. st'[t] = "held" /\ st'[h] = "held" /\ key' = key
    BY <1>2, <1>3 DEF Granted, DaemonInv, TypeOK, LockTypeOK
  <1> QED BY <1>2, <1>3, <1>4 DEF ServedInOrder, Tickets

LEMMA NextHandles == DaemonInv /\ [Next]_vars => HandlesMatchHolders'
  <1> SUFFICES ASSUME DaemonInv, [Next]_vars PROVE HandlesMatchHolders'
    OBVIOUS
  <1>0. ServedInOrder'
    BY LockStep, NextCountInv DEF DaemonInv, CountInv, ChainInv
  <1> USE DEF DaemonInv
  <1>1. CASE UNCHANGED <<st, key, owner, lockHandles>>
    BY <1>1 DEF HandlesMatchHolders
  <1>2. ASSUME NEW c \in Clients, NEW k \in Keys, lockAcquire(c, k)
        PROVE  HandlesMatchHolders'
    <2> DEFINE n == issued + 1
    <2>1. /\ n \in Tickets /\ st[n] = "none"
          /\ key' = [key EXCEPT ![n] = k]
          /\ st' = [st EXCEPT ![n] = "waiting"]
          /\ owner' = [owner EXCEPT ![n] = c]
          /\ lockHandles' = lockHandles
      BY <1>2, LockAssumption
         DEF lockAcquire, acquire, TypeOK, LockTypeOK, CountInv, ChainInv, IssuedInv, Tickets
    <2>2. \A t \in Tickets : t # n => st'[t] = st[t] /\ key'[t] = key[t] /\ owner'[t] = owner[t]
      BY <2>1 DEF TypeOK, LockTypeOK
    <2>3. st'[n] # "held"
      BY <2>1 DEF TypeOK, LockTypeOK
    <2>4. \A d \in Clients, j \in Keys : lockHandles[d][j] # 0 =>
              lockHandles[d][j] \in Tickets /\ lockHandles[d][j] # n
      BY <2>1, HandleType DEF HandlesMatchHolders
    <2> QED BY <2>1, <2>2, <2>3, <2>4 DEF HandlesMatchHolders
  <1>3. ASSUME NEW c \in Clients, NEW k \in Keys, lockRelease(c, k)
        PROVE  HandlesMatchHolders'
    <2> DEFINE h == lockHandles[c][k]
    <2>1. h \in Tickets /\ st[h] = "held" /\ owner[h] = c /\ key[h] = k
      BY <1>3, HandleType DEF lockRelease, HandlesMatchHolders
    <2>2. /\ \A t \in Tickets : st'[t] = IF t = h THEN "released" ELSE st[t]
          /\ key' = key /\ owner' = owner
          /\ lockHandles' = [lockHandles EXCEPT ![c][k] = 0]
      BY <1>3 DEF lockRelease, release
    <2>3. \A d \in Clients, j \in Keys :
              lockHandles'[d][j] = IF d = c /\ j = k THEN 0 ELSE lockHandles[d][j]
      BY <2>2 DEF TypeOK
    <2>4. ASSUME NEW t \in Tickets, st'[t] = "held"
          PROVE  lockHandles'[owner[t]][key[t]] = t
      <3>1. t # h /\ st[t] = "held" /\ owner[t] \in Clients /\ key[t] \in Keys
        BY <2>2, <2>4 DEF TypeOK, LockTypeOK
      <3>2. lockHandles[owner[t]][key[t]] = t
        BY <3>1 DEF HandlesMatchHolders
      <3> QED BY <2>3, <3>1, <3>2
    <2>5. ASSUME NEW d \in Clients, NEW j \in Keys, lockHandles'[d][j] # 0
          PROVE  LET t == lockHandles'[d][j]
                 IN st'[t] = "held" /\ owner[t] = d /\ key[t] = j
      <3>1. lockHandles'[d][j] = lockHandles[d][j] /\ ~(d = c /\ j = k)
        BY <2>3, <2>5
      <3>2. LET t == lockHandles[d][j]
            IN t \in Tickets /\ st[t] = "held" /\ owner[t] = d /\ key[t] = j
        BY <2>5, <3>1, HandleType DEF HandlesMatchHolders
      <3>3. lockHandles[d][j] # h
        BY <2>1, <3>1, <3>2
      <3> QED BY <2>2, <3>1, <3>2, <3>3
    <2> QED BY <2>2, <2>4, <2>5 DEF HandlesMatchHolders
  <1>4. ASSUME NEW c \in Clients, close(c) PROVE HandlesMatchHolders'
    <2> DEFINE S == {lockHandles[c][k] : k \in Keys} \ {0}
    <2>1. \A t \in Tickets : t \in S <=> st[t] = "held" /\ owner[t] = c
      BY ClosedAreHeld
    <2>2. /\ \A t \in Tickets : st'[t] = IF t \in S THEN "released" ELSE st[t]
          /\ key' = key /\ owner' = owner
          /\ lockHandles' = [lockHandles EXCEPT ![c] = NoHandles]
      BY <1>4 DEF close, release
    <2>3. \A d \in Clients, j \in Keys :
              lockHandles'[d][j] = IF d = c THEN 0 ELSE lockHandles[d][j]
      BY <2>2 DEF TypeOK, NoHandles
    <2>4. ASSUME NEW t \in Tickets, st'[t] = "held"
          PROVE  lockHandles'[owner[t]][key[t]] = t
      <3>1. st[t] = "held" /\ owner[t] # c /\ owner[t] \in Clients /\ key[t] \in Keys
        BY <2>1, <2>2, <2>4 DEF TypeOK, LockTypeOK
      <3> QED BY <2>3, <3>1 DEF HandlesMatchHolders
    <2>5. ASSUME NEW d \in Clients, NEW j \in Keys, lockHandles'[d][j] # 0
          PROVE  LET t == lockHandles'[d][j]
                 IN st'[t] = "held" /\ owner[t] = d /\ key[t] = j
      <3>1. d # c /\ lockHandles'[d][j] = lockHandles[d][j]
        BY <2>3, <2>5
      <3>2. LET t == lockHandles[d][j]
            IN t \in Tickets /\ st[t] = "held" /\ owner[t] = d /\ key[t] = j
        BY <2>5, <3>1, HandleType DEF HandlesMatchHolders
      <3> QED BY <2>1, <2>2, <3>1, <3>2
    <2> QED BY <2>2, <2>4, <2>5 DEF HandlesMatchHolders
  <1>5. ASSUME NEW t \in Tickets, lockAcquired(t) PROVE HandlesMatchHolders'
    <2>1. /\ st[t] = "waiting" /\ st' = [st EXCEPT ![t] = "held"]
          /\ key' = key /\ owner' = owner
          /\ lockHandles' = [lockHandles EXCEPT ![owner[t]][key[t]] = t]
      BY <1>5 DEF lockAcquired, Granted, GrantPending
    <2>2. lockHandles[owner[t]][key[t]] = 0
      BY <1>0, <1>5, NoOverwrite DEF lockAcquired
    <2>3. \A d \in Clients, j \in Keys :
              lockHandles'[d][j] = IF d = owner[t] /\ j = key[t] THEN t ELSE lockHandles[d][j]
      BY <2>1 DEF TypeOK
    <2>4. \A u \in Tickets : st'[u] = IF u = t THEN "held" ELSE st[u]
      BY <2>1 DEF TypeOK, LockTypeOK
    <2>5. \A u \in Tickets : owner[u] \in Clients /\ key[u] \in Keys
      BY DEF TypeOK, LockTypeOK
    <2>6. ASSUME NEW u \in Tickets, st'[u] = "held"
          PROVE  lockHandles'[owner[u]][key[u]] = u
      <3>1. CASE u = t
        BY <2>3, <2>5, <3>1
      <3>2. CASE u # t
        <4>1. lockHandles[owner[u]][key[u]] = u /\ u # 0
          BY <2>4, <2>6, <3>2 DEF HandlesMatchHolders, Tickets
        <4> QED BY <2>2, <2>3, <2>5, <4>1
      <3> QED BY <3>1, <3>2
    <2>7. ASSUME NEW d \in Clients, NEW j \in Keys, lockHandles'[d][j] # 0
          PROVE  LET u == lockHandles'[d][j]
                 IN st'[u] = "held" /\ owner[u] = d /\ key[u] = j
      <3>1. CASE d = owner[t] /\ j = key[t]
        BY <2>3, <2>4, <3>1
      <3>2. CASE ~(d = owner[t] /\ j = key[t])
        <4>1. lockHandles'[d][j] = lockHandles[d][j]
          BY <2>3, <3>2
        <4>2. LET u == lockHandles[d][j]
              IN u \in Tickets /\ st[u] = "held" /\ owner[u] = d /\ key[u] = j
          BY <2>7, <4>1, HandleType DEF HandlesMatchHolders
        <4> QED BY <2>4, <4>1, <4>2
      <3> QED BY <3>1, <3>2
    <2> QED BY <2>1, <2>6, <2>7 DEF HandlesMatchHolders
  <1>6. ASSUME NEW t \in Tickets, lockTimedOut(t) PROVE HandlesMatchHolders'
    <2>1. /\ st[t] = "waiting" /\ st' = [st EXCEPT ![t] = "timedout"]
          /\ UNCHANGED <<key, owner, lockHandles>>
      BY <1>6 DEF lockTimedOut, TimedOut, daemonVars
    <2>2. \A u \in Tickets : st'[u] = "held" <=> st[u] = "held"
      BY <2>1 DEF TypeOK, LockTypeOK
    <2>3. \A d \in Clients, j \in Keys : lockHandles[d][j] # 0 => lockHandles[d][j] \in Tickets
      BY HandleType
    <2> QED BY <2>1, <2>2, <2>3 DEF HandlesMatchHolders
  <1> QED
    BY <1>1, <1>2, <1>3, <1>4, <1>5, <1>6
       DEF Next, handleConnection, handleAuth, destroyTimer, shutdown, closeServer,
           serverClosed, vars, lockVars, daemonVars

-----------------------------------------------------------------------------
\* The inductive invariant holds in every reachable state of the daemon.
THEOREM DaemonInvariant == Spec => []DaemonInv
  <1>1. Init => DaemonInv
    BY InitDaemonInv
  <1>2. DaemonInv /\ [Next]_vars => DaemonInv'
    <2>1. DaemonInv /\ [Next]_vars => CountInv'
      BY LockStep, NextCountInv DEF DaemonInv
    <2> QED BY <2>1, NextTypeOK, NextHandles DEF DaemonInv
  <1> QED BY <1>1, <1>2, PTL DEF Spec

\* Seen through its lock the daemon is a SharedLock: every theorem about
\* LockSpec holds of it.
THEOREM DaemonUsesLock == Spec => LockSpec
  <1>1. Init => LockInit
    BY DEF Init
  <1>2. DaemonInv /\ [Next]_vars => [LockNext]_lockVars
    BY LockStep
  <1> QED BY <1>1, <1>2, DaemonInvariant, PTL DEF Spec, LockSpec

\* The handles in the ClientStates are exactly the locks that are held.
THEOREM HandlesCorrect == Spec => []HandlesMatchHolders
  <1>1. DaemonInv => HandlesMatchHolders
    BY DEF DaemonInv
  <1> QED BY <1>1, DaemonInvariant, PTL

\* The 'close' handler leaves no lock with the client that disconnected:
\* the handles it releases are all the locks of the client.
THEOREM CloseCorrect == Spec => CloseReleasesAll
  <1>1. ASSUME DaemonInv, NEW c \in Clients, close(c)
        PROVE  \A t \in Tickets : owner[t] = c => st'[t] # "held"
    <2> DEFINE S == {lockHandles[c][k] : k \in Keys} \ {0}
    <2>1. \A t \in Tickets : t \in S <=> st[t] = "held" /\ owner[t] = c
      BY <1>1, ClosedAreHeld
    <2>2. st' = [t \in Tickets |-> IF t \in S THEN "released" ELSE st[t]]
      BY <1>1 DEF close, release
    <2> HIDE DEF S
    <2> QED BY <2>1, <2>2
  <1>2. ASSUME DaemonInv, [Next]_vars, NEW c \in Clients, conn[c] # "closed", conn'[c] = "closed"
        PROVE  close(c)
    <2>0. conn \in [Clients -> {"none", "challenged", "ready", "destroyed", "closed"}]
      BY <1>2 DEF DaemonInv, TypeOK
    <2>1. conn' # conn
      BY <1>2
    <2>2. ASSUME NEW d \in Clients, conn' = [conn EXCEPT ![d] = "closed"]
          PROVE  d = c
      BY <1>2, <2>0, <2>2
    <2>3. ASSUME NEW d \in Clients, handleConnection(d) \/ handleAuth(d) \/ destroyTimer(d)
          PROVE  FALSE
      <3>1. \E s \in {"challenged", "ready", "destroyed"} : conn' = [conn EXCEPT ![d] = s]
        BY <2>3 DEF handleConnection, handleAuth, destroyTimer
      <3> QED BY <1>2, <2>0, <3>1
    <2>4. ASSUME NEW d \in Clients, close(d)
          PROVE  close(c)
      <3>1. conn' = [conn EXCEPT ![d] = "closed"]
        BY <2>4 DEF close
      <3> QED BY <2>2, <2>4, <3>1
    <2>5. ASSUME UNCHANGED conn PROVE FALSE
      BY <2>1, <2>5
    <2> QED BY <1>2, <2>3, <2>4, <2>5 DEF Next, vars, daemonVars, lockAcquire, lockRelease,
         lockAcquired, lockTimedOut, shutdown, closeServer, serverClosed
  <1>3. DaemonInv /\ [Next]_vars =>
           [\A c \in Clients : conn[c] # "closed" /\ conn'[c] = "closed" =>
               \A t \in Tickets : owner[t] = c => st'[t] # "held"]_vars
    BY <1>1, <1>2
  <1> QED BY <1>3, DaemonInvariant, PTL DEF Spec, CloseReleasesAll

\* In the daemon, too, the clients of a key are served in order.
THEOREM DaemonServesInOrder == Spec => []ServedInOrder
  BY DaemonUsesLock, OrderCorrect, PTL

\* The type invariant of the daemon.
THEOREM DaemonTypeCorrect == Spec => []TypeOK
  <1>1. DaemonInv => TypeOK
    BY DEF DaemonInv
  <1> QED BY <1>1, DaemonInvariant, PTL
=============================================================================
