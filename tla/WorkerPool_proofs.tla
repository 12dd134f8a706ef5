------------------------- MODULE WorkerPool_proofs -------------------------
(***************************************************************************)
(* PoolInv and NoOrphans for any size of the pool, number of jobs and jobs *)
(* per worker.                                                             *)
(*                                                                         *)
(* A worker is one of Worker because a replacement is made by a check and  *)
(* a check is the end of a job: the workers made and the checks that are   *)
(* still to run are no more than Size and the jobs that are settled        *)
(* (MadeInv).  That nothing outlives the pool needs to know where a live   *)
(* process can be: in the array, or in the pause of its start; and, once   *)
(* the pool shuts down, only among the workers it waits for (OrphanInv).   *)
(***************************************************************************)
EXTENDS WorkerPool, FiniteSetTheorems, WellFoundedInduction, TLAPS

Continuation == [kind : {"check", "drain", "remove"}, worker : Worker \cup {0},
                 why : {"result", "error", "abort", "none"}]

Settled == {j \in Jobs : jst[j] \in {"done", "failed"}}
Checks(s) == {i \in DOMAIN s : s[i].kind = "check"}

\* The workers made, and those that may be made.
MadeInv ==
    /\ Size <= made
    /\ made + Cardinality(Checks(micro)) <= Size + Cardinality(Settled)
    /\ Elements(workers) \subseteq 1 .. made
    /\ \A w \in Worker : w > made => pending[w] = {}

\* What the continuations are about.
Sound(c) ==
    c.kind \in {"check", "remove"} =>
        /\ c.worker \in 1 .. made
        /\ c.kind = "remove" => proc[c.worker] = "none"
MicroInv == \A c \in Elements(micro) : Sound(c)

\* A worker, its process and its start.
WorkerInv ==
    \A w \in Worker :
        /\ booting[w] =>
              /\ state[w] \in {"starting", "recycling", "dead"}
              /\ pending[w] = {}
              /\ proc[w] # "none"
              /\ w <= Size => w \notin Elements(workers)
        /\ state[w] \in {"idle", "busy"} => proc[w] # "none"
        /\ state[w] = "dead" => proc[w] = "gone"

\* Where a live process may be.
OrphanInv ==
    /\ phase = "up" => draining = {}
    /\ phase = "down" => draining = {}
    /\ \A w \in Worker : proc[w] = "alive" =>
          IF phase = "up" THEN w \in Elements(workers) \/ (w <= Size /\ booting[w])
                          ELSE w \in draining

PoolIInv == PoolInv /\ MadeInv /\ MicroInv /\ WorkerInv /\ OrphanInv

-----------------------------------------------------------------------------
(* Numbers. *)

LEMMA WorkerFacts ==
    /\ IsFiniteSet(Jobs) /\ Cardinality(Jobs) \in Nat
    /\ Size \in Nat /\ Size >= 1
    /\ \A n \in Int : n \in Worker <=> 1 <= n /\ n <= Size + Cardinality(Jobs)
    /\ Worker \subseteq Nat /\ 0 \notin Worker
<1>1. IsFiniteSet(Jobs) /\ Cardinality(Jobs) \in Nat
    BY PoolAssumption, FS_CardinalityType
<1>. QED BY <1>1, PoolAssumption DEF Worker

\* The jobs that are settled are counted.
LEMMA SettledFacts ==
    /\ IsFiniteSet(Settled) /\ Cardinality(Settled) \in Nat
    /\ Cardinality(Settled) <= Cardinality(Jobs)
    /\ IsFiniteSet(Settled') /\ Cardinality(Settled') \in Nat
<1>1. Settled \subseteq Jobs /\ Settled' \subseteq Jobs
    BY DEF Settled
<1>. QED BY <1>1, WorkerFacts, FS_Subset, FS_CardinalityType

\* A settled job stays settled; the one that settles adds one.
LEMMA SettledGrows ==
    ASSUME \A i \in Jobs : jst[i] \in {"done", "failed"} => jst'[i] \in {"done", "failed"}
    PROVE  /\ Cardinality(Settled) <= Cardinality(Settled')
           /\ \A j \in Jobs : jst[j] \notin {"done", "failed"} /\ jst'[j] \in {"done", "failed"}
                                => Cardinality(Settled) + 1 <= Cardinality(Settled')
<1>1. Settled \subseteq Settled'
    BY DEF Settled
<1>2. Cardinality(Settled) <= Cardinality(Settled')
    BY <1>1, SettledFacts, FS_Subset
<1>3. ASSUME NEW j \in Jobs, jst[j] \notin {"done", "failed"}, jst'[j] \in {"done", "failed"}
      PROVE  Cardinality(Settled) + 1 <= Cardinality(Settled')
    <2>1. j \notin Settled /\ Settled \cup {j} \subseteq Settled'
        BY <1>1, <1>3 DEF Settled
    <2>2. Cardinality(Settled \cup {j}) = Cardinality(Settled) + 1
        BY <2>1, SettledFacts, FS_AddElement
    <2>. QED BY <2>1, <2>2, SettledFacts, FS_Subset
<1>. QED BY <1>2, <1>3

\* The checks among the continuations are counted.
LEMMA ChecksFinite ==
    ASSUME NEW S, NEW s \in Seq(S)
    PROVE  IsFiniteSet(Checks(s)) /\ Cardinality(Checks(s)) \in Nat
<1>1. Checks(s) \subseteq 1 .. Len(s) /\ Len(s) \in Nat
    BY DEF Checks
<1>2. IsFiniteSet(1 .. Len(s))
    BY <1>1, FS_Interval
<1>. QED BY <1>1, <1>2, FS_Subset, FS_CardinalityType

LEMMA NoChecks == Cardinality(Checks(<<>>)) = 0
<1>1. Checks(<<>>) = {}
    BY DEF Checks
<1>. QED BY <1>1, FS_EmptySet

LEMMA AppendChecks ==
    ASSUME NEW S, NEW s \in Seq(S), NEW x \in S
    PROVE  /\ Cardinality(Checks(Append(s, x))) <= Cardinality(Checks(s)) + 1
           /\ x.kind # "check" => Cardinality(Checks(Append(s, x))) <= Cardinality(Checks(s))
<1> DEFINE t == Append(s, x)
           n == Len(s)
<1>1. n \in Nat /\ DOMAIN s = 1 .. n /\ t \in Seq(S)
    OBVIOUS
<1>2. DOMAIN t = 1 .. n + 1 /\ t[n + 1] = x /\ \A k \in 1 .. n : t[k] = s[k]
    OBVIOUS
<1> HIDE DEF t, n
<1>3. \A k \in 1 .. n + 1 : k \in 1 .. n \/ k = n + 1
    BY <1>1
<1>4. n + 1 \notin 1 .. n
    BY <1>1
<1>5. Checks(t) \subseteq Checks(s) \cup {n + 1}
    BY <1>1, <1>2, <1>3 DEF Checks
<1>6. x.kind # "check" => Checks(t) \subseteq Checks(s)
    BY <1>1, <1>2, <1>3 DEF Checks
<1>7. n + 1 \notin Checks(s)
    BY <1>1, <1>4 DEF Checks
<1>8. IsFiniteSet(Checks(s)) /\ Cardinality(Checks(s)) \in Nat /\ Cardinality(Checks(t)) \in Nat
    BY <1>1, ChecksFinite
<1>9. /\ IsFiniteSet(Checks(s) \cup {n + 1})
      /\ Cardinality(Checks(s) \cup {n + 1}) = Cardinality(Checks(s)) + 1
    BY <1>7, <1>8, FS_AddElement
<1>10. Cardinality(Checks(t)) <= Cardinality(Checks(s)) + 1
    BY <1>5, <1>9, FS_Subset
<1>11. x.kind # "check" => Cardinality(Checks(t)) <= Cardinality(Checks(s))
    BY <1>6, <1>8, FS_Subset
<1>. QED BY <1>10, <1>11 DEF t

LEMMA TailChecks ==
    ASSUME NEW S, NEW s \in Seq(S), s # <<>>
    PROVE  /\ Cardinality(Checks(Tail(s))) <= Cardinality(Checks(s))
           /\ s[1].kind = "check" => Cardinality(Checks(Tail(s))) + 1 <= Cardinality(Checks(s))
<1> DEFINE t == Tail(s)
           n == Len(s)
           C == Checks(s) \ {1}
           D == {i - 1 : i \in C}
<1>1. n \in Nat \ {0} /\ DOMAIN s = 1 .. n /\ t \in Seq(S)
    OBVIOUS
<1>2. DOMAIN t = 1 .. n - 1 /\ \A k \in 1 .. n - 1 : t[k] = s[k + 1]
    OBVIOUS
<1> HIDE DEF t, n
<1>3. Checks(t) \subseteq D
    <2> SUFFICES ASSUME NEW k \in 1 .. n - 1, t[k].kind = "check" PROVE k \in D
        BY <1>2 DEF Checks
    <2>1. k + 1 \in 1 .. n /\ s[k + 1].kind = "check" /\ k + 1 # 1 /\ k = (k + 1) - 1
        BY <1>1, <1>2
    <2>2. k + 1 \in C
        BY <1>1, <2>1 DEF Checks
    <2>. QED BY <2>1, <2>2
<1>4. IsFiniteSet(Checks(s)) /\ Cardinality(Checks(s)) \in Nat /\ Cardinality(Checks(t)) \in Nat
    BY <1>1, ChecksFinite
<1>5. /\ IsFiniteSet(C) /\ Cardinality(C) \in Nat /\ Cardinality(C) <= Cardinality(Checks(s))
      /\ 1 \in Checks(s) => Cardinality(C) = Cardinality(Checks(s)) - 1
    <2>1. C \subseteq Checks(s)
        OBVIOUS
    <2>. QED BY <1>4, <2>1, FS_Subset, FS_RemoveElement, FS_CardinalityType
<1> HIDE DEF C
<1>6. IsFiniteSet(D) /\ Cardinality(D) <= Cardinality(C)
    <2> DEFINE f == [i \in C |-> i - 1]
    <2>1. f \in Surjection(C, D)
        BY DEF Surjection
    <2>. QED BY <1>5, <2>1, FS_Surjection
<1>7. Cardinality(Checks(t)) <= Cardinality(D) /\ Cardinality(D) \in Nat
    BY <1>3, <1>6, FS_Subset, FS_CardinalityType
<1>8. s[1].kind = "check" => 1 \in Checks(s)
    BY <1>1 DEF Checks
<1>. QED BY <1>4, <1>5, <1>6, <1>7, <1>8 DEF t

-----------------------------------------------------------------------------
(* Helpers of the steps. *)

\* What the types say, taken apart.
LEMMA TypeFacts ==
    ASSUME PoolIInv
    PROVE  /\ TypeOK /\ JobsAccounted /\ RecycledLeaves
           /\ MadeInv /\ MicroInv /\ WorkerInv /\ OrphanInv
           /\ micro \in Seq(Continuation) /\ Cardinality(Checks(micro)) \in Nat
           /\ made \in Nat /\ made <= Size + Cardinality(Jobs) /\ made \in Worker
           /\ Cardinality(Checks(micro)) >= 1 => made + 1 \in Worker
<1>1. /\ TypeOK /\ JobsAccounted /\ RecycledLeaves
      /\ MadeInv /\ MicroInv /\ WorkerInv /\ OrphanInv
    BY DEF PoolIInv, PoolInv
<1>2. micro \in Seq(Continuation) /\ made \in Nat /\ made \in Worker
    BY <1>1, WorkerFacts DEF TypeOK, Continuation
<1>3. Cardinality(Checks(micro)) \in Nat
    BY <1>2, ChecksFinite
<1>4. Size <= made /\ made + Cardinality(Checks(micro)) <= Size + Cardinality(Settled)
    BY <1>1 DEF MadeInv
<1>5. /\ made <= Size + Cardinality(Jobs)
      /\ Cardinality(Checks(micro)) >= 1 => made + 1 <= Size + Cardinality(Jobs)
    BY <1>2, <1>3, <1>4, WorkerFacts, SettledFacts
<1>6. Cardinality(Checks(micro)) >= 1 => made + 1 \in Worker
    BY <1>2, <1>5, WorkerFacts
<1>. QED BY <1>1, <1>2, <1>3, <1>5, <1>6

LEMMA ContinuationFacts ==
    /\ Drain \in Continuation /\ Drain.kind = "drain"
    /\ \A w \in Worker : /\ \A why \in {"result", "error", "abort"} :
                              /\ Check(w, why) \in Continuation
                              /\ Check(w, why).kind = "check" /\ Check(w, why).worker = w
                         /\ Remove(w) \in Continuation
                         /\ Remove(w).kind = "remove" /\ Remove(w).worker = w
BY DEF Drain, Check, Remove, Continuation

LEMMA TailElements ==
    ASSUME NEW S, NEW s \in Seq(S), s # <<>>
    PROVE  /\ Tail(s) \in Seq(S) /\ Elements(Tail(s)) \subseteq Elements(s)
           /\ s[1] \in S /\ s[1] \in Elements(s)
<1> DEFINE t == Tail(s)
           n == Len(s)
<1>1. n \in Nat \ {0} /\ DOMAIN s = 1 .. n /\ t \in Seq(S) /\ 1 \in DOMAIN s /\ s[1] \in S
    OBVIOUS
<1>2. DOMAIN t = 1 .. n - 1 /\ \A k \in 1 .. n - 1 : t[k] = s[k + 1]
    OBVIOUS
<1> HIDE DEF t, n
<1>3. \A k \in 1 .. n - 1 : k + 1 \in 1 .. n
    BY <1>1
<1>4. Elements(t) \subseteq Elements(s)
    BY <1>1, <1>2, <1>3 DEF Elements
<1>. QED BY <1>1, <1>4 DEF t, Elements

\* The continuations stay about workers that were made, and about the ones
\* without a process.
LEMMA MicroStep ==
    ASSUME PoolIInv, made' \in Nat, made <= made',
           \A w \in 1 .. made : proc[w] = "none" => proc'[w] = "none",
           \A c \in Elements(micro') : c \in Elements(micro) \/ Sound(c)'
    PROVE  MicroInv'
<1>1. made \in Nat /\ MicroInv
    BY TypeFacts
<1>2. \A c \in Elements(micro) : Sound(c)'
    BY <1>1 DEF MicroInv, Sound
<1>. QED BY <1>2 DEF MicroInv

\* One continuation, when there was none.
LEMMA OneContinuation ==
    ASSUME NEW c \in Continuation, micro' = <<c>>
    PROVE  /\ micro' \in Seq(Continuation) /\ Elements(micro') = {c}
           /\ Cardinality(Checks(micro)') \in Nat /\ Cardinality(Checks(micro)') <= 1
           /\ c.kind # "check" => Cardinality(Checks(micro)') = 0
<1>1. /\ <<>> \in Seq(Continuation) /\ Append(<<>>, c) = <<c>>
      /\ DOMAIN <<c>> = {1} /\ <<c>>[1] = c /\ <<c>> \in Seq(Continuation)
    OBVIOUS
<1>2. Elements(<<c>>) = {c}
    BY <1>1 DEF Elements
<1>3. Checks(micro)' = Checks(<<c>>)
    BY DEF Checks
<1>4. Cardinality(Checks(<<c>>)) \in Nat
    BY <1>1, ChecksFinite
<1>5. Cardinality(Checks(<<c>>)) <= 0 + 1 /\ (c.kind # "check" => Cardinality(Checks(<<c>>)) <= 0)
    BY <1>1, AppendChecks, NoChecks
<1>. QED BY <1>1, <1>2, <1>3, <1>4, <1>5

\* The promises of the jobs, when no job moves.
LEMMA JobsFrame ==
    ASSUME PoolIInv, UNCHANGED <<queue, jst, pending>>,
           \A w \in Worker : pending[w] # {} =>
               state'[w] \in {"busy", "recycling"} /\ proc'[w] \in {"alive", "killed"}
    PROVE  JobsAccounted'
<1>1. JobsAccounted
    BY TypeFacts
<1>. QED BY <1>1 DEF JobsAccounted

\* Who has a job to settle.
LEMMA PendingFacts ==
    ASSUME PoolIInv, NEW w \in Worker, NEW j \in Jobs, j \in pending[w]
    PROVE  /\ pending[w] = {j} /\ jst[j] = "running"
           /\ state[w] \in {"busy", "recycling"} /\ proc[w] \in {"alive", "killed"}
           /\ ~booting[w] /\ w <= made
           /\ \A v \in Worker : j \in pending[v] => v = w
<1>1. JobsAccounted /\ WorkerInv /\ MadeInv /\ made \in Nat /\ w \in Nat
    BY TypeFacts, WorkerFacts
<1>. QED BY <1>1 DEF JobsAccounted, WorkerInv, MadeInv

\* The promises of the jobs, when the one that is pending at w is settled.
LEMMA JobSettled ==
    ASSUME PoolIInv, NEW w \in Worker, NEW j \in Jobs, j \in pending[w],
           UNCHANGED queue,
           pending' = [pending EXCEPT ![w] = {}],
           jst' \in [Jobs -> {"new", "queued", "running", "done", "failed"}],
           jst'[j] \in {"done", "failed"}, \A i \in Jobs \ {j} : jst'[i] = jst[i],
           \A v \in Worker \ {w} : state'[v] = state[v] /\ proc'[v] = proc[v]
    PROVE  /\ JobsAccounted'
           /\ Cardinality(Settled) + 1 <= Cardinality(Settled')
<1>1. JobsAccounted /\ TypeOK
    BY TypeFacts
<1>2. /\ pending[w] = {j} /\ jst[j] = "running"
      /\ \A v \in Worker : j \in pending[v] => v = w
    BY PendingFacts
<1>3. pending'[w] = {} /\ \A v \in Worker \ {w} : pending'[v] = pending[v]
    BY <1>1 DEF TypeOK
<1>4. ASSUME NEW i \in Jobs
      PROVE  /\ jst'[i] = "queued" <=> i \in Elements(queue)
             /\ jst'[i] = "running" <=> \E v \in Worker : i \in pending'[v]
             /\ \A v \in Worker : i \in pending'[v] =>
                   /\ state'[v] \in {"busy", "recycling"} /\ proc'[v] \in {"alive", "killed"}
                   /\ pending'[v] = {i}
                   /\ \A u \in Worker : i \in pending'[u] => u = v
    <2>1. CASE i = j
        BY <1>1, <1>2, <1>3, <2>1 DEF JobsAccounted
    <2>2. CASE i # j
        <3>1. jst'[i] = jst[i] /\ i \notin pending[w]
            BY <1>2, <2>2
        <3>2. \A v \in Worker : i \in pending'[v] <=> i \in pending[v]
            BY <1>3, <3>1
        <3>. QED BY <1>1, <1>3, <3>1, <3>2 DEF JobsAccounted
    <2>. QED BY <2>1, <2>2
<1>5. JobsAccounted'
    BY <1>1, <1>4 DEF JobsAccounted
<1>6. Cardinality(Settled) + 1 <= Cardinality(Settled')
    BY <1>2, SettledGrows
<1>. QED BY <1>5, <1>6

-----------------------------------------------------------------------------
(* The steps. *)

LEMMA PoolInit == Init => PoolIInv
<1> SUFFICES ASSUME Init PROVE PoolIInv
    OBVIOUS
<1>a. PICK up \in SUBSET (1 .. Size) : booting = [w \in Worker |-> w \in up]
    BY DEF Init
<1>b. \A w \in Worker : booting[w] \in BOOLEAN /\ (booting[w] => w \in up)
    <2>1. booting \in [Worker -> BOOLEAN]
        BY <1>a
    <2>2. \A w \in Worker : booting[w] => w \in up
        BY <1>a
    <2>. QED BY <2>1, <2>2
<1>c. \A w \in Worker : booting[w] => w <= Size
    <2>1. \A w \in up : w <= Size
        BY WorkerFacts
    <2>. QED BY <1>b, <2>1, Zenon
<1>0. /\ \A w \in Worker : /\ state[w] = IF w <= Size THEN "starting" ELSE "none"
                           /\ proc[w] = IF booting[w] THEN "alive" ELSE "none"
                           /\ booting[w] \in BOOLEAN /\ pending[w] = {}
                           /\ booting[w] => w <= Size
      /\ workers = <<>> /\ queue = <<>> /\ micro = <<>> /\ made = Size
      /\ phase = "up" /\ draining = {} /\ \A j \in Jobs : jst[j] = "new"
    BY <1>b, <1>c DEF Init
<1>1. Elements(<<>>) = {} /\ Once(<<>>)
    BY DEF Elements, Once
<1>2. Size \in Worker /\ 0 \in Nat
    BY WorkerFacts
<1>3. TypeOK
    <2>2. booting \in [Worker -> BOOLEAN]
        BY <1>a
    <2>3. <<>> \in Seq(Worker) /\ <<>> \in Seq(Jobs) /\ <<>> \in Seq(Continuation)
        OBVIOUS
    <2>4. proc \in [Worker -> {"none", "alive", "killed", "gone"}]
        BY DEF Init
    <2>5. /\ state \in [Worker -> {"none", "starting", "idle", "busy", "recycling", "dead"}]
          /\ jobsRun \in [Worker -> Nat] /\ aged \in [Worker -> BOOLEAN]
          /\ pending \in [Worker -> SUBSET Jobs] /\ sent \in [Worker -> Seq(Jobs)]
          /\ jst \in [Jobs -> {"new", "queued", "running", "done", "failed"}]
          /\ aborted \subseteq Jobs
        BY <1>2, <2>3 DEF Init
    <2>. QED BY <1>0, <1>2, <2>2, <2>3, <2>4, <2>5 DEF TypeOK, Continuation
<1>4. JobsAccounted /\ RecycledLeaves
    BY <1>0, <1>1 DEF JobsAccounted, RecycledLeaves
<1>5. MadeInv
    <2>1. Cardinality(Checks(micro)) = 0
        BY <1>0, NoChecks
    <2>2. made + Cardinality(Checks(micro)) <= Size + Cardinality(Settled) /\ Size <= made
        BY <1>0, <2>1, WorkerFacts, SettledFacts
    <2>. QED BY <1>0, <1>1, <2>2 DEF MadeInv
<1>6. MicroInv /\ WorkerInv /\ OrphanInv
    BY <1>0, <1>1 DEF MicroInv, WorkerInv, OrphanInv
<1>. QED BY <1>3, <1>4, <1>5, <1>6 DEF PoolIInv, PoolInv

LEMMA StartedStep ==
    ASSUME PoolIInv, NEW w \in Worker, started(w)
    PROVE  PoolIInv'
<1>0. /\ TypeOK /\ JobsAccounted /\ RecycledLeaves
      /\ MadeInv /\ MicroInv /\ WorkerInv /\ OrphanInv
      /\ made \in Nat /\ Cardinality(Checks(micro)) \in Nat /\ Size <= made
    BY TypeFacts DEF MadeInv
<1>1. /\ micro = <<>> /\ booting[w]
      /\ booting' = [booting EXCEPT ![w] = FALSE] /\ state' = [state EXCEPT ![w] = "idle"]
      /\ workers' = IF w <= Size THEN Append(workers, w) ELSE workers
      /\ micro' = IF w <= Size THEN micro ELSE <<Drain>>
      /\ UNCHANGED <<proc, jobsRun, aged, pending, sent, made, queue, phase, draining, jst, aborted>>
    BY DEF started, Quiet
<1>2. /\ state'[w] = "idle" /\ ~booting'[w]
      /\ \A v \in Worker \ {w} : state'[v] = state[v] /\ booting'[v] = booting[v]
    BY <1>0, <1>1 DEF TypeOK
<1>3. /\ w <= Size => w \notin Elements(workers)
      /\ pending[w] = {} /\ proc[w] # "none" /\ state[w] \in {"starting", "recycling", "dead"}
    BY <1>0, <1>1 DEF WorkerInv
<1>4. /\ workers' \in Seq(Worker) /\ Once(workers')
      /\ Elements(workers') = IF w <= Size THEN Elements(workers) \cup {w} ELSE Elements(workers)
    <2>1. workers \in Seq(Worker) /\ Once(workers)
        BY <1>0 DEF TypeOK, RecycledLeaves
    <2>. QED BY <1>1, <1>3, <2>1, AppendFacts
<1>5. /\ micro' \in Seq(Continuation) /\ Cardinality(Checks(micro)') = 0
      /\ \A c \in Elements(micro') : c = Drain
    <2>1. CASE w <= Size
        <3>1. micro' = <<>>
            BY <1>1, <2>1
        <3>2. Elements(<<>>) = {} /\ <<>> \in Seq(Continuation)
            BY DEF Elements
        <3>3. Checks(micro)' = Checks(<<>>)
            BY <3>1 DEF Checks
        <3>. QED BY <3>1, <3>2, <3>3, NoChecks
    <2>2. CASE ~(w <= Size)
        BY <1>1, <2>2, OneContinuation, ContinuationFacts
    <2>. QED BY <2>1, <2>2
<1>6. TypeOK'
    <2>1. booting' \in [Worker -> BOOLEAN]
        BY <1>0, <1>1, Zenon DEF TypeOK
    <2>2. state' \in [Worker -> {"none", "starting", "idle", "busy", "recycling", "dead"}]
        BY <1>0, <1>1 DEF TypeOK
    <2>. QED BY <1>0, <1>1, <1>4, <1>5, <2>1, <2>2 DEF TypeOK, Continuation
<1>7. JobsAccounted'
    <2>1. \A v \in Worker : pending[v] # {} =>
               state'[v] \in {"busy", "recycling"} /\ proc'[v] \in {"alive", "killed"}
        BY <1>0, <1>1, <1>2, <1>3 DEF JobsAccounted, TypeOK
    <2>. QED BY <1>1, <2>1, JobsFrame
<1>8. RecycledLeaves'
    <2>1. \A v \in Elements(workers') : v = w \/ v \in Elements(workers)
        BY <1>4
    <2>2. phase = "up" => \A v \in Elements(workers) : v \in Worker /\ state[v] # "recycling"
        BY <1>0 DEF RecycledLeaves, Elements, TypeOK
    <2>3. phase' = "up" => \A v \in Elements(workers') : state'[v] # "recycling"
        BY <1>1, <1>2, <2>1, <2>2
    <2>. QED BY <1>4, <2>3 DEF RecycledLeaves, Elements
<1>9. MadeInv'
    <2>1. /\ made + Cardinality(Checks(micro)) <= Size + Cardinality(Settled)
          /\ Elements(workers) \subseteq 1 .. made
        BY <1>0 DEF MadeInv
    <2>2. Settled' = Settled
        BY <1>1 DEF Settled
    <2>3. made' + Cardinality(Checks(micro)') <= Size + Cardinality(Settled')
        BY <1>0, <1>1, <1>5, <2>1, <2>2, WorkerFacts, SettledFacts
    <2>4. Elements(workers') \subseteq 1 .. made'
        BY <1>0, <1>1, <1>4, <2>1, WorkerFacts
    <2>. QED BY <1>0, <1>1, <2>3, <2>4 DEF MadeInv
<1>10. MicroInv'
    <2>1. Sound(Drain)'
        BY ContinuationFacts DEF Sound
    <2>. QED BY <1>5, <2>1 DEF MicroInv
<1>11. WorkerInv'
    <2> SUFFICES ASSUME NEW v \in Worker
                 PROVE  /\ booting'[v] =>
                              /\ state'[v] \in {"starting", "recycling", "dead"}
                              /\ pending'[v] = {} /\ proc'[v] # "none"
                              /\ v <= Size => v \notin Elements(workers')
                        /\ state'[v] \in {"idle", "busy"} => proc'[v] # "none"
                        /\ state'[v] = "dead" => proc'[v] = "gone"
        BY DEF WorkerInv
    <2>1. CASE v = w
        BY <1>1, <1>2, <1>3, <2>1
    <2>2. CASE v # w
        BY <1>0, <1>1, <1>2, <1>4, <2>2 DEF WorkerInv
    <2>. QED BY <2>1, <2>2
<1>12. OrphanInv'
    <2>1. ASSUME NEW v \in Worker, proc'[v] = "alive"
          PROVE  IF phase' = "up" THEN v \in Elements(workers') \/ (v <= Size /\ booting'[v])
                                  ELSE v \in draining'
        <3>1. v # w => booting'[v] = booting[v]
            BY <1>2
        <3>2. IF phase = "up" THEN v \in Elements(workers) \/ (v <= Size /\ booting[v])
                              ELSE v \in draining
            BY <1>0, <1>1, <2>1 DEF OrphanInv
        <3>. QED BY <1>1, <1>4, <3>1, <3>2
    <2>. QED BY <1>0, <1>1, <2>1 DEF OrphanInv
<1>. QED BY <1>6, <1>7, <1>8, <1>9, <1>10, <1>11, <1>12 DEF PoolIInv, PoolInv

\* What is true of the workers, when a step only concerns w.
LEMMA WorkerFrame ==
    ASSUME PoolIInv, NEW w \in Worker,
           UNCHANGED <<booting, workers, made, phase, draining>>,
           \A v \in Worker \ {w} : state'[v] = state[v] /\ proc'[v] = proc[v] /\ pending'[v] = pending[v],
           state'[w] = "recycling" => state[w] = "recycling",
           booting[w] => /\ state'[w] \in {"starting", "recycling", "dead"}
                         /\ pending'[w] = {} /\ proc'[w] # "none",
           state'[w] \in {"idle", "busy"} => proc'[w] # "none",
           state'[w] = "dead" => proc'[w] = "gone",
           proc'[w] = "alive" => proc[w] = "alive"
    PROVE  RecycledLeaves' /\ WorkerInv' /\ OrphanInv'
<1>0. TypeOK /\ RecycledLeaves /\ WorkerInv /\ OrphanInv
    BY TypeFacts
<1>1. RecycledLeaves'
    <2>1. \A v \in Worker : state'[v] = "recycling" => state[v] = "recycling"
        OBVIOUS
    <2>2. \A i \in DOMAIN workers : workers[i] \in Worker
        BY <1>0 DEF TypeOK
    <2>. QED BY <1>0, <2>1, <2>2 DEF RecycledLeaves
<1>2. WorkerInv'
    <2> SUFFICES ASSUME NEW v \in Worker
                 PROVE  /\ booting'[v] =>
                              /\ state'[v] \in {"starting", "recycling", "dead"}
                              /\ pending'[v] = {} /\ proc'[v] # "none"
                              /\ v <= Size => v \notin Elements(workers')
                        /\ state'[v] \in {"idle", "busy"} => proc'[v] # "none"
                        /\ state'[v] = "dead" => proc'[v] = "gone"
        BY DEF WorkerInv
    <2>1. CASE v = w
        BY <1>0, <2>1 DEF WorkerInv
    <2>2. CASE v # w
        BY <1>0, <2>2 DEF WorkerInv
    <2>. QED BY <2>1, <2>2
<1>3. OrphanInv'
    <2>1. \A v \in Worker : proc'[v] = "alive" => proc[v] = "alive"
        OBVIOUS
    <2>. QED BY <1>0, <2>1 DEF OrphanInv
<1>. QED BY <1>1, <1>2, <1>3

\* The count of the workers and the checks, when no worker is made.
LEMMA MadeFrame ==
    ASSUME PoolIInv, UNCHANGED <<workers, made>>,
           \A v \in Worker : v > made => pending'[v] = {},
           Cardinality(Checks(micro)') \in Nat,
           Cardinality(Checks(micro)') - Cardinality(Checks(micro))
               <= Cardinality(Settled') - Cardinality(Settled)
    PROVE  MadeInv'
<1>1. /\ Size <= made /\ made + Cardinality(Checks(micro)) <= Size + Cardinality(Settled)
      /\ Elements(workers) \subseteq 1 .. made /\ made \in Nat /\ Cardinality(Checks(micro)) \in Nat
    BY TypeFacts DEF MadeInv
<1>2. made' + Cardinality(Checks(micro)') <= Size + Cardinality(Settled')
    BY <1>1, SettledFacts, WorkerFacts
<1>. QED BY <1>1, <1>2 DEF MadeInv

\* The job that is pending at w is settled, and its check is to follow.
LEMMA SettledStep ==
    ASSUME PoolIInv, NEW w \in Worker, NEW j \in Jobs, j \in pending[w], micro = <<>>,
           NEW why \in {"result", "error", "abort"}, micro' = <<Check(w, why)>>,
           UNCHANGED <<queue, booting, workers, made, phase, draining>>,
           pending' = [pending EXCEPT ![w] = {}],
           jst' \in [Jobs -> {"new", "queued", "running", "done", "failed"}],
           jst'[j] \in {"done", "failed"}, \A i \in Jobs \ {j} : jst'[i] = jst[i],
           state'[w] = "idle", proc'[w] \in {"alive", "killed", "gone"},
           proc'[w] = "alive" => proc[w] = "alive",
           \A v \in Worker \ {w} : state'[v] = state[v] /\ proc'[v] = proc[v]
    PROVE  /\ JobsAccounted' /\ RecycledLeaves' /\ MadeInv' /\ MicroInv' /\ WorkerInv' /\ OrphanInv'
           /\ micro' \in Seq(Continuation)
<1>0. TypeOK /\ MadeInv /\ made \in Nat /\ ~booting[w] /\ w <= made /\ Worker \subseteq Nat /\ 0 \notin Worker
    BY TypeFacts, PendingFacts, WorkerFacts
<1>1. pending'[w] = {} /\ \A v \in Worker \ {w} : pending'[v] = pending[v]
    BY <1>0 DEF TypeOK
<1>2. JobsAccounted' /\ Cardinality(Settled) + 1 <= Cardinality(Settled')
    BY JobSettled
<1>3. RecycledLeaves' /\ WorkerInv' /\ OrphanInv'
    BY <1>0, <1>1, WorkerFrame
<1>4. /\ micro' \in Seq(Continuation) /\ Elements(micro') = {Check(w, why)}
      /\ Cardinality(Checks(micro)') \in Nat /\ Cardinality(Checks(micro)') <= 1
    BY ContinuationFacts, OneContinuation
<1>5. Cardinality(Checks(micro)) = 0
    BY NoChecks
<1>6. MadeInv'
    <2>1. \A v \in Worker : v > made => pending'[v] = {}
        BY <1>0, <1>1 DEF MadeInv
    <2>2. Cardinality(Checks(micro)') - Cardinality(Checks(micro))
               <= Cardinality(Settled') - Cardinality(Settled)
        BY <1>2, <1>4, <1>5, SettledFacts
    <2>. QED BY <1>4, <2>1, <2>2, MadeFrame
<1>7. MicroInv'
    <2>1. w \in 1 .. made'
        BY <1>0
    <2>2. Sound(Check(w, why))'
        BY <2>1, ContinuationFacts DEF Sound
    <2>. QED BY <1>4, <2>2 DEF MicroInv
<1>. QED BY <1>2, <1>3, <1>4, <1>6, <1>7

LEMMA AbortStep == ASSUME PoolIInv, NEW j \in Jobs, abort(j) PROVE PoolIInv'
<1>0. TypeOK
    BY TypeFacts
<1>1. /\ micro = <<>> /\ aborted' = aborted \cup {j} /\ UNCHANGED poolVars
      /\ \/ UNCHANGED <<workerVars, jst, micro>>
         \/ \E w \in Worker :
             /\ j \in pending[w]
             /\ pending' = [pending EXCEPT ![w] = @ \ {j}]
             /\ state' = [state EXCEPT ![w] = "idle"]
             /\ jst' = [jst EXCEPT ![j] = "failed"]
             /\ micro' = <<Check(w, "abort")>>
             /\ UNCHANGED <<proc, booting, jobsRun, aged, sent>>
    BY DEF abort, Quiet
<1>2. CASE UNCHANGED <<workerVars, jst, micro>>
    <2>1. UNCHANGED <<workerVars, poolVars, jst, micro>>
        BY <1>1, <1>2
    <2>2. TypeOK'
        BY <1>0, <1>1, <2>1 DEF TypeOK, workerVars, poolVars
    <2>. QED BY <2>1, <2>2 DEF PoolIInv, PoolInv, JobsAccounted, RecycledLeaves, MadeInv, MicroInv, Sound,
                WorkerInv, OrphanInv, Settled, Checks, workerVars, poolVars
<1>3. ASSUME NEW w \in Worker, j \in pending[w], pending' = [pending EXCEPT ![w] = @ \ {j}],
             state' = [state EXCEPT ![w] = "idle"], jst' = [jst EXCEPT ![j] = "failed"],
             micro' = <<Check(w, "abort")>>, UNCHANGED <<proc, booting, jobsRun, aged, sent>>
      PROVE  PoolIInv'
    <2>1. pending[w] = {j} /\ proc[w] \in {"alive", "killed"}
        BY <1>3, PendingFacts
    <2>2. /\ pending' = [pending EXCEPT ![w] = {}]
          /\ jst' \in [Jobs -> {"new", "queued", "running", "done", "failed"}]
          /\ jst'[j] \in {"done", "failed"} /\ \A i \in Jobs \ {j} : jst'[i] = jst[i]
          /\ state'[w] = "idle" /\ proc'[w] \in {"alive", "killed", "gone"}
          /\ proc'[w] = "alive" => proc[w] = "alive"
          /\ \A v \in Worker \ {w} : state'[v] = state[v] /\ proc'[v] = proc[v]
          /\ UNCHANGED <<queue, booting, workers, made, phase, draining>>
        BY <1>0, <1>1, <1>3, <2>1 DEF TypeOK, poolVars
    <2>3. /\ JobsAccounted' /\ RecycledLeaves' /\ MadeInv' /\ MicroInv' /\ WorkerInv' /\ OrphanInv'
          /\ micro' \in Seq(Continuation)
        BY <1>1, <1>3, <2>2, SettledStep
    <2>4. TypeOK'
        <3>1. /\ state' \in [Worker -> {"none", "starting", "idle", "busy", "recycling", "dead"}]
              /\ pending' \in [Worker -> SUBSET Jobs]
            BY <1>0, <1>3 DEF TypeOK
        <3>2. aborted' \subseteq Jobs
            BY <1>0, <1>1 DEF TypeOK
        <3>. QED BY <1>0, <1>1, <1>3, <2>2, <2>3, <3>1, <3>2 DEF TypeOK, Continuation, poolVars
    <2>. QED BY <2>3, <2>4 DEF PoolIInv, PoolInv
<1>. QED BY <1>1, <1>2, <1>3

LEMMA LineStep == ASSUME PoolIInv, NEW w \in Worker, _handleLine(w) PROVE PoolIInv'
<1> DEFINE j == Head(sent[w])
<1>0. TypeOK
    BY TypeFacts
<1>1. /\ micro = <<>> /\ sent[w] # <<>> /\ sent' = [sent EXCEPT ![w] = Tail(@)]
      /\ UNCHANGED <<proc, booting, jobsRun, aged, poolVars, aborted>>
      /\ j \in pending[w] =>
            /\ pending' = [pending EXCEPT ![w] = @ \ {j}]
            /\ state' = [state EXCEPT ![w] = "idle"]
            /\ jst' = [jst EXCEPT ![j] = "done"]
            /\ micro' = <<Check(w, "result")>>
      /\ j \notin pending[w] => UNCHANGED <<pending, state, jst, micro>>
    BY DEF _handleLine, Quiet
<1>2. sent' \in [Worker -> Seq(Jobs)] /\ j \in Jobs
    <2>1. sent[w] \in Seq(Jobs)
        BY <1>0 DEF TypeOK
    <2>2. Tail(sent[w]) \in Seq(Jobs) /\ j \in Jobs
        BY <1>1, <2>1
    <2>. QED BY <1>0, <1>1, <2>2 DEF TypeOK
<1> HIDE DEF j
<1>3. CASE j \notin pending[w]
    <2>1. UNCHANGED <<state, proc, booting, pending, jst, micro, jobsRun, aged, poolVars, aborted>>
        BY <1>1, <1>3
    <2>2. TypeOK'
        BY <1>0, <1>2, <2>1 DEF TypeOK, poolVars
    <2>. QED BY <2>1, <2>2 DEF PoolIInv, PoolInv, JobsAccounted, RecycledLeaves, MadeInv, MicroInv, Sound,
                WorkerInv, OrphanInv, Settled, Checks, poolVars
<1>4. CASE j \in pending[w]
    <2>1. pending[w] = {j} /\ proc[w] \in {"alive", "killed"}
        BY <1>2, <1>4, PendingFacts
    <2>2. /\ pending' = [pending EXCEPT ![w] = {}]
          /\ jst' \in [Jobs -> {"new", "queued", "running", "done", "failed"}]
          /\ jst'[j] \in {"done", "failed"} /\ \A i \in Jobs \ {j} : jst'[i] = jst[i]
          /\ state'[w] = "idle" /\ proc'[w] \in {"alive", "killed", "gone"}
          /\ proc'[w] = "alive" => proc[w] = "alive"
          /\ \A v \in Worker \ {w} : state'[v] = state[v] /\ proc'[v] = proc[v]
          /\ UNCHANGED <<queue, booting, workers, made, phase, draining>>
          /\ micro' = <<Check(w, "result")>>
        BY <1>0, <1>1, <1>2, <1>4, <2>1 DEF TypeOK, poolVars
    <2>3. /\ JobsAccounted' /\ RecycledLeaves' /\ MadeInv' /\ MicroInv' /\ WorkerInv' /\ OrphanInv'
          /\ micro' \in Seq(Continuation)
        BY <1>1, <1>2, <1>4, <2>2, SettledStep
    <2>4. TypeOK'
        <3>1. /\ state' \in [Worker -> {"none", "starting", "idle", "busy", "recycling", "dead"}]
              /\ pending' \in [Worker -> SUBSET Jobs]
            <4>1. state' = [state EXCEPT ![w] = "idle"]
                BY <1>1, <1>4
            <4>. QED BY <1>0, <2>2, <4>1 DEF TypeOK
        <3>. QED BY <1>0, <1>1, <1>2, <2>2, <2>3, <3>1 DEF TypeOK, Continuation, poolVars
    <2>. QED BY <2>3, <2>4 DEF PoolIInv, PoolInv
<1>. QED BY <1>3, <1>4

LEMMA CloseStep == ASSUME PoolIInv, NEW w \in Worker, _handleClose(w) PROVE PoolIInv'
<1>0. TypeOK /\ JobsAccounted /\ MadeInv
    BY TypeFacts
<1>1. /\ micro = <<>> /\ proc[w] \in {"alive", "killed"}
      /\ proc' = [proc EXCEPT ![w] = "gone"]
      /\ sent' = [sent EXCEPT ![w] = <<>>]
      /\ state' = [state EXCEPT ![w] = IF pending[w] = {} THEN "dead" ELSE "idle"]
      /\ pending' = [pending EXCEPT ![w] = {}]
      /\ jst' = [j \in Jobs |-> IF j \in pending[w] THEN "failed" ELSE jst[j]]
      /\ micro' = IF pending[w] = {} THEN <<>> ELSE <<Check(w, "error")>>
      /\ UNCHANGED <<booting, jobsRun, aged, poolVars, aborted>>
    BY DEF _handleClose, Quiet
<1>2. /\ state' \in [Worker -> {"none", "starting", "idle", "busy", "recycling", "dead"}]
      /\ proc' \in [Worker -> {"none", "alive", "killed", "gone"}]
      /\ pending' \in [Worker -> SUBSET Jobs]
      /\ sent' \in [Worker -> Seq(Jobs)]
      /\ jst' \in [Jobs -> {"new", "queued", "running", "done", "failed"}]
    <2>1. <<>> \in Seq(Jobs)
        OBVIOUS
    <2>. QED BY <1>0, <1>1, <2>1 DEF TypeOK
<1>3. /\ proc'[w] = "gone" /\ pending'[w] = {}
      /\ state'[w] = IF pending[w] = {} THEN "dead" ELSE "idle"
      /\ \A v \in Worker \ {w} : state'[v] = state[v] /\ proc'[v] = proc[v] /\ pending'[v] = pending[v]
    BY <1>0, <1>1 DEF TypeOK
<1>4. UNCHANGED <<booting, jobsRun, aged, workers, made, queue, phase, draining, aborted>>
    BY <1>1 DEF poolVars
<1>5. CASE pending[w] = {}
    <2>1. jst' = jst /\ pending' = pending /\ micro' = <<>> /\ state'[w] = "dead"
        BY <1>0, <1>1, <1>5 DEF TypeOK
    <2>2. TypeOK'
        BY <1>0, <1>1, <1>2, <1>4, <2>1 DEF TypeOK
    <2>3. JobsAccounted'
        <3>1. \A v \in Worker : pending[v] # {} =>
               state'[v] \in {"busy", "recycling"} /\ proc'[v] \in {"alive", "killed"}
            BY <1>0, <1>3, <1>5 DEF JobsAccounted, TypeOK
        <3>. QED BY <1>4, <2>1, <3>1, JobsFrame
    <2>4. RecycledLeaves' /\ WorkerInv' /\ OrphanInv'
        BY <1>3, <1>4, <2>1, WorkerFrame
    <2>5. MadeInv' /\ MicroInv'
        <3>1. Elements(<<>>) = {}
            BY DEF Elements
        <3>. QED BY <1>0, <1>1, <1>4, <2>1, <3>1 DEF MadeInv, MicroInv, Settled, Checks
    <2>. QED BY <2>2, <2>3, <2>4, <2>5 DEF PoolIInv, PoolInv
<1>6. CASE pending[w] # {}
    <2>1. PICK j \in Jobs : j \in pending[w]
        BY <1>0, <1>6 DEF TypeOK
    <2>2. pending[w] = {j}
        BY <2>1, PendingFacts
    <2>3. /\ jst'[j] \in {"done", "failed"} /\ \A i \in Jobs \ {j} : jst'[i] = jst[i]
          /\ state'[w] = "idle" /\ proc'[w] \in {"alive", "killed", "gone"}
          /\ proc'[w] = "alive" => proc[w] = "alive"
          /\ \A v \in Worker \ {w} : state'[v] = state[v] /\ proc'[v] = proc[v]
          /\ micro' = <<Check(w, "error")>>
        BY <1>1, <1>3, <1>6, <2>2
    <2>4. /\ JobsAccounted' /\ RecycledLeaves' /\ MadeInv' /\ MicroInv' /\ WorkerInv' /\ OrphanInv'
          /\ micro' \in Seq(Continuation)
        BY <1>1, <1>2, <1>4, <2>1, <2>3, SettledStep
    <2>5. TypeOK'
        BY <1>0, <1>2, <1>4, <2>4 DEF TypeOK, Continuation
    <2>. QED BY <2>4, <2>5 DEF PoolIInv, PoolInv
<1>. QED BY <1>5, <1>6

\* The promises of the jobs, when one is refused that has not begun: it was in
\* the queue and leaves it, or it was never there.
LEMMA JobRefused ==
    ASSUME PoolIInv, NEW j \in Jobs, jst[j] \in {"new", "queued"},
           jst' = [jst EXCEPT ![j] = "failed"], UNCHANGED <<pending, state, proc>>,
           queue' \in Seq(Jobs), Once(queue'), Elements(queue') = Elements(queue) \ {j}
    PROVE  /\ JobsAccounted'
           /\ jst' \in [Jobs -> {"new", "queued", "running", "done", "failed"}]
           /\ Cardinality(Settled) + 1 <= Cardinality(Settled')
<1>1. TypeOK /\ JobsAccounted
    BY TypeFacts
<1>2. /\ jst' \in [Jobs -> {"new", "queued", "running", "done", "failed"}]
      /\ jst'[j] = "failed" /\ \A i \in Jobs \ {j} : jst'[i] = jst[i]
    BY <1>1 DEF TypeOK
<1>3. JobsAccounted'
    BY <1>1, <1>2 DEF JobsAccounted
<1>4. Cardinality(Settled) + 1 <= Cardinality(Settled')
    BY <1>2, SettledGrows
<1>. QED BY <1>2, <1>3, <1>4

LEMMA QueueTimeoutStep == ASSUME PoolIInv, NEW j \in Jobs, acquireTimeout(j) PROVE PoolIInv'
<1>0. TypeOK /\ JobsAccounted /\ MadeInv /\ micro \in Seq(Continuation) /\ Cardinality(Checks(micro)) \in Nat
    BY TypeFacts
<1>1. /\ jst[j] = "queued" /\ queue' = Removed(queue, j) /\ jst' = [jst EXCEPT ![j] = "failed"]
      /\ UNCHANGED <<state, proc, booting, jobsRun, aged, pending, sent, workers, made, phase, draining,
                     aborted, micro>>
    BY DEF acquireTimeout, workerVars
<1>2. queue' \in Seq(Jobs) /\ Once(queue') /\ Elements(queue') = Elements(queue) \ {j}
    <2>1. queue \in Seq(Jobs) /\ Once(queue)
        BY <1>0 DEF TypeOK, JobsAccounted
    <2>. QED BY <1>1, <2>1, RemovedFacts
<1>3. /\ JobsAccounted' /\ jst' \in [Jobs -> {"new", "queued", "running", "done", "failed"}]
      /\ Cardinality(Settled) + 1 <= Cardinality(Settled')
    BY <1>1, <1>2, JobRefused
<1>4. TypeOK'
    BY <1>0, <1>1, <1>2, <1>3 DEF TypeOK
<1>5. RecycledLeaves' /\ WorkerInv' /\ OrphanInv' /\ MicroInv'
    BY <1>1 DEF PoolIInv, PoolInv, RecycledLeaves, WorkerInv, OrphanInv, MicroInv, Sound
<1>6. MadeInv'
    <2>1. Checks(micro)' = Checks(micro)
        BY <1>1
    <2>2. Cardinality(Checks(micro)') - Cardinality(Checks(micro))
               <= Cardinality(Settled') - Cardinality(Settled)
        BY <1>0, <1>3, <2>1, SettledFacts
    <2>3. \A v \in Worker : v > made => pending'[v] = {}
        BY <1>0, <1>1 DEF MadeInv
    <2>. QED BY <1>0, <1>1, <2>1, <2>2, <2>3, MadeFrame
<1>. QED BY <1>3, <1>4, <1>5, <1>6 DEF PoolIInv, PoolInv

\* The first idle one of the array.
LEMMA IdleFacts ==
    ASSUME PoolIInv, Idle # {}
    PROVE  /\ _findIdle \in Worker /\ state[_findIdle] = "idle" /\ _findIdle \in Elements(workers)
           /\ _findIdle <= made /\ pending[_findIdle] = {} /\ ~booting[_findIdle]
           /\ proc[_findIdle] \in {"alive", "killed", "gone"}
<1> DEFINE Less == {ss \in Nat \X Nat : ss[1] < ss[2]}
<1>0. TypeOK /\ JobsAccounted /\ WorkerInv /\ MadeInv /\ made \in Nat
    BY TypeFacts
<1>1. IsWellFoundedOn(Less, Nat)
    BY NatLessThanWellFounded DEF OpToRel
<1>2. \A x, y \in Nat : x < y => <<x, y>> \in Less
    OBVIOUS
<1> HIDE DEF Less
<1>3. Idle \subseteq DOMAIN workers /\ Idle \subseteq Nat
    BY <1>0 DEF Idle, TypeOK
<1>4. PICK i \in Idle : \A h \in Idle : <<h, i>> \notin Less
    BY <1>1, <1>3, WFMin
<1>5. \A h \in Idle : i <= h
    <2>1. \A h \in Idle : ~(h < i)
        BY <1>2, <1>3, <1>4
    <2>. QED BY <1>3, <2>1
<1> DEFINE k == CHOOSE x \in Idle : \A h \in Idle : x <= h
<1>6. k \in Idle
    BY <1>5
<1>7. _findIdle = workers[k]
    BY DEF _findIdle
<1> HIDE DEF k
<1>8. _findIdle \in Worker /\ state[_findIdle] = "idle" /\ _findIdle \in Elements(workers)
    BY <1>0, <1>3, <1>6, <1>7 DEF Idle, Elements, TypeOK
<1> DEFINE w == _findIdle
<1> HIDE DEF w
<1>9. w \in Worker /\ state[w] = "idle" /\ w \in Elements(workers)
    BY <1>8 DEF w
<1>10. w <= made /\ ~booting[w] /\ proc[w] \in {"alive", "killed", "gone"}
    BY <1>0, <1>9 DEF MadeInv, WorkerInv, TypeOK
<1>11. pending[w] = {}
    BY <1>0, <1>9 DEF JobsAccounted, TypeOK
<1>. QED BY <1>9, <1>10, <1>11 DEF w

\* _runOnWorker on an idle worker, of a job that has not begun.
LEMMA RunStep ==
    ASSUME PoolIInv, NEW w \in Worker, NEW j \in Jobs,
           state[w] = "idle", w <= made, pending[w] = {}, ~booting[w],
           proc[w] \in {"alive", "killed", "gone"},
           jst[j] \in {"new", "queued"}, Run(w, j, micro),
           UNCHANGED <<proc, booting, aged, workers, made, phase, draining, aborted>>,
           queue' \in Seq(Jobs), Once(queue'), Elements(queue') = Elements(queue) \ {j}
    PROVE  PoolIInv'
<1>0. /\ TypeOK /\ JobsAccounted /\ MadeInv /\ MicroInv
      /\ micro \in Seq(Continuation) /\ Cardinality(Checks(micro)) \in Nat
      /\ made \in Nat /\ Worker \subseteq Nat /\ 0 \notin Worker
    BY TypeFacts, WorkerFacts
<1>1. CASE proc[w] = "gone" \/ j \in aborted
    <2> DEFINE c == Check(w, "error")
    <2>1. /\ jst' = [jst EXCEPT ![j] = "failed"] /\ micro' = Append(micro, c)
          /\ UNCHANGED <<state, jobsRun, pending, sent>>
        BY <1>1 DEF Run
    <2>2. c \in Continuation /\ Sound(c)'
        <3>1. w \in 1 .. made'
            BY <1>0
        <3>. QED BY <3>1, ContinuationFacts DEF Sound
    <2> HIDE DEF c
    <2>3. /\ JobsAccounted' /\ jst' \in [Jobs -> {"new", "queued", "running", "done", "failed"}]
          /\ Cardinality(Settled) + 1 <= Cardinality(Settled')
        BY <2>1, JobRefused
    <2>4. /\ micro' \in Seq(Continuation) /\ Elements(micro') = Elements(micro) \cup {c}
          /\ Cardinality(Checks(micro')) <= Cardinality(Checks(micro)) + 1
          /\ Cardinality(Checks(micro')) \in Nat
        <3>1. /\ Append(micro, c) \in Seq(Continuation)
              /\ Elements(Append(micro, c)) = Elements(micro) \cup {c}
            BY <1>0, <2>2, AppendFacts
        <3>2. Cardinality(Checks(Append(micro, c))) <= Cardinality(Checks(micro)) + 1
            BY <1>0, <2>2, AppendChecks
        <3>3. Cardinality(Checks(Append(micro, c))) \in Nat
            BY <3>1, ChecksFinite
        <3>. QED BY <2>1, <3>1, <3>2, <3>3
    <2>5. TypeOK'
        BY <1>0, <2>1, <2>3, <2>4 DEF TypeOK, Continuation
    <2>6. RecycledLeaves' /\ WorkerInv' /\ OrphanInv'
        BY <2>1 DEF PoolIInv, PoolInv, RecycledLeaves, WorkerInv, OrphanInv
    <2>7. MicroInv'
        <3>1. \A d \in Elements(micro) : Sound(d)'
            BY <1>0 DEF MicroInv, Sound
        <3>. QED BY <2>2, <2>4, <3>1 DEF MicroInv
    <2>8. MadeInv'
        <3>1. Checks(micro)' = Checks(micro')
            BY DEF Checks
        <3>2. Cardinality(Checks(micro)') - Cardinality(Checks(micro))
                 <= Cardinality(Settled') - Cardinality(Settled)
            BY <1>0, <2>3, <2>4, <3>1, SettledFacts
        <3>3. \A v \in Worker : v > made => pending'[v] = {}
            BY <1>0, <2>1 DEF MadeInv
        <3>. QED BY <2>4, <3>1, <3>2, <3>3, MadeFrame
    <2>. QED BY <2>3, <2>5, <2>6, <2>7, <2>8 DEF PoolIInv, PoolInv
<1>2. CASE ~(proc[w] = "gone" \/ j \in aborted)
    <2>1. /\ state' = [state EXCEPT ![w] = "busy"]
          /\ jobsRun' = [jobsRun EXCEPT ![w] = @ + 1]
          /\ pending' = [pending EXCEPT ![w] = @ \cup {j}]
          /\ sent' = [sent EXCEPT ![w] = Append(@, j)]
          /\ jst' = [jst EXCEPT ![j] = "running"]
          /\ micro' = micro /\ proc[w] \in {"alive", "killed"}
        BY <1>2 DEF Run
    <2>2. /\ state'[w] = "busy" /\ pending'[w] = {j} /\ jst'[j] = "running"
          /\ \A v \in Worker \ {w} : state'[v] = state[v] /\ pending'[v] = pending[v]
          /\ \A i \in Jobs \ {j} : jst'[i] = jst[i]
        BY <1>0, <2>1 DEF TypeOK
    <2>3. TypeOK'
        <3>1. sent[w] \in Seq(Jobs) /\ jobsRun[w] \in Nat
            BY <1>0 DEF TypeOK
        <3>2. Append(sent[w], j) \in Seq(Jobs) /\ jobsRun[w] + 1 \in Nat
            BY <3>1
        <3>3. /\ state' \in [Worker -> {"none", "starting", "idle", "busy", "recycling", "dead"}]
              /\ jst' \in [Jobs -> {"new", "queued", "running", "done", "failed"}]
            BY <1>0, <2>1 DEF TypeOK
        <3>4. pending' \in [Worker -> SUBSET Jobs]
            BY <1>0, <2>1 DEF TypeOK
        <3>5. sent' \in [Worker -> Seq(Jobs)] /\ jobsRun' \in [Worker -> Nat]
            BY <1>0, <2>1, <3>2 DEF TypeOK
        <3>. QED BY <1>0, <2>1, <3>3, <3>4, <3>5 DEF TypeOK
    <2>4. JobsAccounted'
        <3>0. \A v \in Worker : j \notin pending[v]
            BY <1>0 DEF JobsAccounted
        <3>1. ASSUME NEW i \in Jobs
              PROVE  /\ jst'[i] = "queued" <=> i \in Elements(queue')
                     /\ jst'[i] = "running" <=> \E v \in Worker : i \in pending'[v]
                     /\ \A v \in Worker : i \in pending'[v] =>
                           /\ state'[v] \in {"busy", "recycling"} /\ proc'[v] \in {"alive", "killed"}
                           /\ pending'[v] = {i}
                           /\ \A u \in Worker : i \in pending'[u] => u = v
            <4>1. CASE i = j
                BY <2>1, <2>2, <3>0, <4>1
            <4>2. CASE i # j
                <5>1. \A v \in Worker : i \in pending'[v] <=> v # w /\ i \in pending[v]
                    BY <2>2, <4>2
                <5>2. \A v \in Worker : i \in pending'[v] <=> i \in pending[v]
                    BY <5>1
                <5>. QED BY <1>0, <2>1, <2>2, <4>2, <5>1, <5>2 DEF JobsAccounted
            <4>. QED BY <4>1, <4>2
        <3>. QED BY <3>1 DEF JobsAccounted
    <2>5. RecycledLeaves' /\ WorkerInv' /\ OrphanInv'
        BY <2>1, <2>2, WorkerFrame
    <2>6. MicroInv'
        BY <1>0, <2>1 DEF MicroInv, Sound
    <2>7. MadeInv'
        <3>1. Settled' = Settled /\ Checks(micro)' = Checks(micro)
            <4>1. \A i \in Jobs : jst'[i] \in {"done", "failed"} <=> jst[i] \in {"done", "failed"}
                BY <2>2
            <4>. QED BY <2>1, <4>1 DEF Settled
        <3>2. \A v \in Worker : v > made => pending'[v] = {}
            BY <1>0, <2>2 DEF MadeInv
        <3>3. Cardinality(Checks(micro)') - Cardinality(Checks(micro))
                 <= Cardinality(Settled') - Cardinality(Settled)
            BY <1>0, <3>1, SettledFacts
        <3>. QED BY <1>0, <3>1, <3>2, <3>3, MadeFrame
    <2>. QED BY <2>3, <2>4, <2>5, <2>6, <2>7 DEF PoolIInv, PoolInv
<1>. QED BY <1>1, <1>2

LEMMA ExecuteStep == ASSUME PoolIInv, NEW j \in Jobs, execute(j) PROVE PoolIInv'
<1>0. /\ TypeOK /\ JobsAccounted /\ MadeInv
      /\ micro \in Seq(Continuation) /\ Cardinality(Checks(micro)) \in Nat
    BY TypeFacts
<1>1. jst[j] = "new" /\ UNCHANGED aborted
    BY DEF execute
<1>2. /\ j \notin Elements(queue) /\ Elements(queue) = Elements(queue) \ {j}
      /\ Once(queue) /\ queue \in Seq(Jobs)
    BY <1>0, <1>1 DEF JobsAccounted, TypeOK
<1>3. CASE jst' = [jst EXCEPT ![j] = "failed"] /\ UNCHANGED <<workerVars, poolVars, micro>>
    <2>1. UNCHANGED <<state, proc, booting, jobsRun, aged, pending, sent, workers, made, queue, phase,
                      draining, micro>>
        BY <1>3 DEF workerVars, poolVars
    <2>2. /\ JobsAccounted' /\ jst' \in [Jobs -> {"new", "queued", "running", "done", "failed"}]
          /\ Cardinality(Settled) + 1 <= Cardinality(Settled')
        BY <1>1, <1>2, <1>3, <2>1, JobRefused
    <2>3. TypeOK'
        BY <1>0, <1>1, <2>1, <2>2 DEF TypeOK
    <2>4. RecycledLeaves' /\ WorkerInv' /\ OrphanInv' /\ MicroInv'
        BY <2>1 DEF PoolIInv, PoolInv, RecycledLeaves, WorkerInv, OrphanInv, MicroInv, Sound
    <2>5. MadeInv'
        <3>1. Checks(micro)' = Checks(micro)
            BY <2>1
        <3>2. Cardinality(Checks(micro)') - Cardinality(Checks(micro))
                   <= Cardinality(Settled') - Cardinality(Settled)
            BY <1>0, <2>2, <3>1, SettledFacts
        <3>3. \A v \in Worker : v > made => pending'[v] = {}
            BY <1>0, <2>1 DEF MadeInv
        <3>. QED BY <1>0, <2>1, <3>1, <3>2, <3>3, MadeFrame
    <2>. QED BY <2>2, <2>3, <2>4, <2>5 DEF PoolIInv, PoolInv
<1>4. CASE Idle # {} /\ Run(_findIdle, j, micro) /\ UNCHANGED <<proc, booting, aged, poolVars>>
    <2>1. UNCHANGED <<workers, made, queue, phase, draining>>
        BY <1>4 DEF poolVars
    <2>2. /\ queue' \in Seq(Jobs) /\ Once(queue') /\ Elements(queue') = Elements(queue) \ {j}
          /\ UNCHANGED <<proc, booting, aged, workers, made, phase, draining, aborted>>
        BY <1>1, <1>2, <1>4, <2>1
    <2> DEFINE w == _findIdle
    <2>3. /\ w \in Worker /\ state[w] = "idle" /\ w <= made /\ pending[w] = {} /\ ~booting[w]
          /\ proc[w] \in {"alive", "killed", "gone"} /\ Run(w, j, micro)
        BY <1>4, IdleFacts
    <2> HIDE DEF w
    <2>. QED BY <1>1, <2>2, <2>3, RunStep
<1>5. CASE /\ queue' = Append(queue, j) /\ jst' = [jst EXCEPT ![j] = "queued"]
           /\ UNCHANGED <<workerVars, workers, made, phase, draining, micro>>
    <2>1. UNCHANGED <<state, proc, booting, jobsRun, aged, pending, sent, workers, made, phase,
                      draining, micro>>
        BY <1>5 DEF workerVars
    <2>2. queue' \in Seq(Jobs) /\ Once(queue') /\ Elements(queue') = Elements(queue) \cup {j}
        BY <1>2, <1>5, AppendFacts
    <2>3. /\ jst' \in [Jobs -> {"new", "queued", "running", "done", "failed"}]
          /\ jst'[j] = "queued" /\ \A i \in Jobs \ {j} : jst'[i] = jst[i]
        BY <1>0, <1>5 DEF TypeOK
    <2>4. TypeOK'
        BY <1>0, <1>1, <2>1, <2>2, <2>3 DEF TypeOK
    <2>5. JobsAccounted'
        BY <1>0, <1>1, <2>1, <2>2, <2>3 DEF JobsAccounted
    <2>6. RecycledLeaves' /\ WorkerInv' /\ OrphanInv' /\ MicroInv'
        BY <2>1 DEF PoolIInv, PoolInv, RecycledLeaves, WorkerInv, OrphanInv, MicroInv, Sound
    <2>7. MadeInv'
        <3>1. Settled' = Settled
            <4>1. \A i \in Jobs : jst'[i] \in {"done", "failed"} <=> jst[i] \in {"done", "failed"}
                BY <1>1, <2>3
            <4>. QED BY <4>1 DEF Settled
        <3>. QED BY <1>0, <2>1, <3>1 DEF MadeInv, Checks
    <2>. QED BY <2>4, <2>5, <2>6, <2>7 DEF PoolIInv, PoolInv
<1>. QED BY <1>3, <1>4, <1>5 DEF execute

LEMMA DrainStep == ASSUME PoolIInv, _drainQueue PROVE PoolIInv'
<1>0. /\ TypeOK /\ JobsAccounted /\ MadeInv /\ MicroInv
      /\ micro \in Seq(Continuation) /\ Cardinality(Checks(micro)) \in Nat
    BY TypeFacts
<1>1. micro # <<>> /\ UNCHANGED aborted
    BY DEF _drainQueue, Quiet
<1>2. CASE queue # <<>> /\ Idle # {}
    <2> DEFINE w == _findIdle
               j == Head(queue)
    <2>1. /\ Run(w, j, micro) /\ queue' = Tail(queue)
          /\ UNCHANGED <<proc, booting, aged, workers, made, phase, draining, aborted>>
        BY <1>1, <1>2 DEF _drainQueue
    <2>2. /\ w \in Worker /\ state[w] = "idle" /\ w <= made /\ pending[w] = {} /\ ~booting[w]
          /\ proc[w] \in {"alive", "killed", "gone"}
        BY <1>2, IdleFacts
    <2>3. /\ j \in Jobs /\ j \in Elements(queue)
          /\ queue' \in Seq(Jobs) /\ Once(queue') /\ Elements(queue') = Elements(queue) \ {j}
        <3>1. queue \in Seq(Jobs) /\ Once(queue)
            BY <1>0 DEF TypeOK, JobsAccounted
        <3>. QED BY <1>2, <2>1, <3>1, TailFacts
    <2>4. jst[j] \in {"new", "queued"}
        BY <1>0, <2>3 DEF JobsAccounted
    <2> HIDE DEF w, j
    <2>. QED BY <2>1, <2>2, <2>3, <2>4, RunStep
<1>3. CASE ~(queue # <<>> /\ Idle # {})
    <2>1. /\ micro' = Tail(micro)
          /\ UNCHANGED <<state, proc, booting, jobsRun, aged, pending, sent, workers, made, queue, phase,
                         draining, jst, aborted>>
        BY <1>1, <1>3 DEF _drainQueue, workerVars, poolVars
    <2>2. /\ micro' \in Seq(Continuation) /\ Elements(micro') \subseteq Elements(micro)
          /\ Cardinality(Checks(micro')) <= Cardinality(Checks(micro))
        BY <1>0, <1>1, <2>1, TailElements, TailChecks
    <2>3. Cardinality(Checks(micro')) \in Nat
        BY <2>2, ChecksFinite
    <2>4. TypeOK'
        BY <1>0, <2>1, <2>2 DEF TypeOK, Continuation
    <2>5. JobsAccounted' /\ RecycledLeaves' /\ WorkerInv' /\ OrphanInv'
        BY <2>1 DEF PoolIInv, PoolInv, JobsAccounted, RecycledLeaves, WorkerInv, OrphanInv
    <2>6. MicroInv'
        BY <1>0, <2>1, <2>2 DEF MicroInv, Sound
    <2>7. MadeInv'
        <3>1. Settled' = Settled /\ Checks(micro)' = Checks(micro')
            BY <2>1 DEF Settled, Checks
        <3>2. Cardinality(Checks(micro)') - Cardinality(Checks(micro))
                   <= Cardinality(Settled') - Cardinality(Settled)
            BY <1>0, <2>2, <2>3, <3>1, SettledFacts
        <3>3. \A v \in Worker : v > made => pending'[v] = {}
            BY <1>0, <2>1 DEF MadeInv
        <3>. QED BY <2>1, <2>3, <3>1, <3>2, <3>3, MadeFrame
    <2>. QED BY <2>4, <2>5, <2>6, <2>7 DEF PoolIInv, PoolInv
<1>. QED BY <1>2, <1>3

\* A worker leaves the array: no one is in it twice, no one new is in it.
LEMMA LeavesArray ==
    ASSUME PoolIInv, NEW w, workers' = Removed(workers, w)
    PROVE  /\ workers' \in Seq(Worker) /\ Once(workers')
           /\ Elements(workers') = Elements(workers) \ {w}
<1>1. workers \in Seq(Worker) /\ Once(workers)
    BY TypeFacts DEF TypeOK, RecycledLeaves
<1>. QED BY <1>1, RemovedFacts

LEMMA RemoveStep == ASSUME PoolIInv, _removeWorker PROVE PoolIInv'
<1> DEFINE w == micro[1].worker
<1>0. /\ TypeOK /\ JobsAccounted /\ RecycledLeaves /\ MadeInv /\ MicroInv /\ WorkerInv /\ OrphanInv
      /\ micro \in Seq(Continuation) /\ Cardinality(Checks(micro)) \in Nat
    BY TypeFacts
<1>1. /\ micro # <<>> /\ micro[1].kind = "remove" /\ workers' = Removed(workers, w) /\ micro' = Tail(micro)
      /\ UNCHANGED <<state, proc, booting, jobsRun, aged, pending, sent, made, queue, phase, draining, jst, aborted>>
    BY DEF _removeWorker, Quiet, workerVars
<1>2. /\ micro' \in Seq(Continuation) /\ Elements(micro') \subseteq Elements(micro)
      /\ Cardinality(Checks(micro')) <= Cardinality(Checks(micro)) /\ micro[1] \in Elements(micro)
    BY <1>0, <1>1, TailElements, TailChecks
<1>3. Cardinality(Checks(micro')) \in Nat
    BY <1>2, ChecksFinite
<1>4. proc[w] = "none"
    BY <1>0, <1>1, <1>2 DEF MicroInv, Sound
<1> HIDE DEF w
<1>5. workers' \in Seq(Worker) /\ Once(workers') /\ Elements(workers') = Elements(workers) \ {w}
    BY <1>1, LeavesArray
<1>6. TypeOK'
    BY <1>0, <1>1, <1>2, <1>5 DEF TypeOK, Continuation
<1>7. JobsAccounted' /\ MicroInv'
    BY <1>0, <1>1, <1>2 DEF JobsAccounted, MicroInv, Sound
<1>8. RecycledLeaves'
    <2>1. phase = "up" => \A v \in Elements(workers') : state[v] # "recycling"
        BY <1>0, <1>5 DEF RecycledLeaves, Elements
    <2>. QED BY <1>1, <1>5, <2>1 DEF RecycledLeaves, Elements
<1>9. MadeInv'
    <2>1. Settled' = Settled /\ Checks(micro)' = Checks(micro')
        BY <1>1 DEF Settled, Checks
    <2>2. /\ Size <= made /\ made + Cardinality(Checks(micro)) <= Size + Cardinality(Settled)
          /\ Elements(workers) \subseteq 1 .. made /\ made \in Nat
          /\ \A v \in Worker : v > made => pending[v] = {}
        BY <1>0, TypeFacts DEF MadeInv
    <2>3. made' + Cardinality(Checks(micro)') <= Size + Cardinality(Settled')
        BY <1>0, <1>1, <1>2, <1>3, <2>1, <2>2, SettledFacts, WorkerFacts
    <2>. QED BY <1>1, <1>5, <2>2, <2>3 DEF MadeInv
<1>10. WorkerInv'
    BY <1>0, <1>1, <1>5 DEF WorkerInv
<1>11. OrphanInv'
    BY <1>0, <1>1, <1>4, <1>5 DEF OrphanInv
<1>. QED BY <1>6, <1>7, <1>8, <1>9, <1>10, <1>11 DEF PoolIInv, PoolInv

\* worker.shutdown(false) of the workers in W.
LEMMA TerminatedFacts ==
    ASSUME TypeOK, NEW W, Terminated(W)
    PROVE  /\ state' \in [Worker -> {"none", "starting", "idle", "busy", "recycling", "dead"}]
           /\ proc' \in [Worker -> {"none", "alive", "killed", "gone"}]
           /\ \A v \in Worker :
                 /\ v \notin W \/ state[v] = "dead" => state'[v] = state[v] /\ proc'[v] = proc[v]
                 /\ v \in W /\ state[v] # "dead" =>
                       /\ state'[v] = "recycling"
                       /\ proc'[v] = IF proc[v] = "alive" THEN "killed" ELSE proc[v]
BY DEF TypeOK, Terminated

LEMMA ShutdownStep == ASSUME PoolIInv, shutdown PROVE PoolIInv'
<1>0. /\ TypeOK /\ JobsAccounted /\ RecycledLeaves /\ MadeInv /\ MicroInv /\ WorkerInv /\ OrphanInv
      /\ made \in Nat /\ Cardinality(Checks(micro)) \in Nat /\ Worker \subseteq Nat /\ 0 \notin Worker
    BY TypeFacts, WorkerFacts
<1>1. /\ phase = "up" /\ phase' = "draining" /\ WarmedUp
      /\ jst' = [j \in Jobs |-> IF j \in Elements(queue) THEN "failed" ELSE jst[j]]
      /\ queue' = <<>>
      /\ draining' = {w \in Elements(workers) : state[w] = "busy"}
      /\ Terminated(Elements(workers) \ draining')
      /\ UNCHANGED <<booting, jobsRun, aged, pending, sent, workers, made, aborted, micro>>
    BY DEF shutdown
<1>2. /\ state' \in [Worker -> {"none", "starting", "idle", "busy", "recycling", "dead"}]
      /\ proc' \in [Worker -> {"none", "alive", "killed", "gone"}]
      /\ \A v \in Worker :
            /\ v \notin Elements(workers) \ draining' \/ state[v] = "dead" =>
                  state'[v] = state[v] /\ proc'[v] = proc[v]
            /\ v \in Elements(workers) \ draining' /\ state[v] # "dead" =>
                  /\ state'[v] = "recycling"
                  /\ proc'[v] = IF proc[v] = "alive" THEN "killed" ELSE proc[v]
    BY <1>0, <1>1, TerminatedFacts
<1>3. Elements(workers) \subseteq Worker
    BY <1>0 DEF TypeOK, Elements
<1>4. Elements(<<>>) = {} /\ Once(<<>>) /\ <<>> \in Seq(Jobs)
    BY DEF Elements, Once
<1>5. TypeOK'
    <2>1. jst' \in [Jobs -> {"new", "queued", "running", "done", "failed"}]
        BY <1>0, <1>1 DEF TypeOK
    <2>2. draining' \subseteq Worker
        BY <1>1, <1>3
    <2>. QED BY <1>0, <1>1, <1>2, <1>4, <2>1, <2>2 DEF TypeOK
<1>6. JobsAccounted'
    <2>1. \A j \in Jobs : /\ jst'[j] # "queued"
                          /\ jst'[j] = "running" <=> jst[j] = "running"
        BY <1>0, <1>1 DEF JobsAccounted, TypeOK
    <2>2. \A v \in Worker : pending[v] # {} =>
               state'[v] \in {"busy", "recycling"} /\ proc'[v] \in {"alive", "killed"}
        <3>1. \A v \in Worker : pending[v] # {} =>
                  state[v] \in {"busy", "recycling"} /\ proc[v] \in {"alive", "killed"}
            BY <1>0 DEF JobsAccounted, TypeOK
        <3>. QED BY <1>2, <3>1
    <2>. QED BY <1>0, <1>1, <1>4, <2>1, <2>2 DEF JobsAccounted
<1>7. RecycledLeaves'
    BY <1>0, <1>1 DEF RecycledLeaves
<1>8. MadeInv'
    <2>1. \A j \in Jobs : jst[j] \in {"done", "failed"} => jst'[j] \in {"done", "failed"}
        BY <1>1
    <2>2. Cardinality(Settled) <= Cardinality(Settled')
        BY <2>1, SettledGrows
    <2>3. Checks(micro)' = Checks(micro)
        BY <1>1
    <2>4. Cardinality(Checks(micro)') - Cardinality(Checks(micro))
               <= Cardinality(Settled') - Cardinality(Settled)
        BY <1>0, <2>2, <2>3, SettledFacts
    <2>5. \A v \in Worker : v > made => pending'[v] = {}
        BY <1>0, <1>1 DEF MadeInv
    <2>. QED BY <1>0, <1>1, <2>3, <2>4, <2>5, MadeFrame
<1>9. MicroInv'
    <2>1. \A v \in 1 .. made : v \in Worker
        BY <1>0, TypeFacts, WorkerFacts
    <2>2. \A v \in Worker : proc[v] = "none" => proc'[v] = "none"
        BY <1>2
    <2>. QED BY <1>0, <1>1, <2>1, <2>2 DEF MicroInv, Sound
<1>10. WorkerInv'
    <2> SUFFICES ASSUME NEW v \in Worker
                 PROVE  /\ booting'[v] =>
                              /\ state'[v] \in {"starting", "recycling", "dead"}
                              /\ pending'[v] = {} /\ proc'[v] # "none"
                              /\ v <= Size => v \notin Elements(workers')
                        /\ state'[v] \in {"idle", "busy"} => proc'[v] # "none"
                        /\ state'[v] = "dead" => proc'[v] = "gone"
        BY DEF WorkerInv
    <2>1. /\ state'[v] = state[v] /\ proc'[v] = proc[v]
          \/ /\ state'[v] = "recycling"
             /\ proc'[v] = IF proc[v] = "alive" THEN "killed" ELSE proc[v]
        BY <1>2
    <2>. QED BY <1>0, <1>1, <2>1 DEF WorkerInv
<1>11. OrphanInv'
    <2>1. ASSUME NEW v \in Worker, proc'[v] = "alive" PROVE v \in draining'
        <3>1. proc[v] = "alive" /\ (v \notin Elements(workers) \ draining' \/ state[v] = "dead")
            BY <1>2, <2>1
        <3>2. state[v] # "dead"
            BY <1>0, <3>1 DEF WorkerInv
        <3>3. v \in Elements(workers) \/ (v <= Size /\ booting[v])
            BY <1>0, <1>1, <3>1 DEF OrphanInv
        <3>4. v <= Size => ~booting[v]
            BY <1>0, <1>1 DEF WarmedUp
        <3>. QED BY <3>1, <3>2, <3>3, <3>4
    <2>. QED BY <1>1, <2>1 DEF OrphanInv
<1>. QED BY <1>5, <1>6, <1>7, <1>8, <1>9, <1>10, <1>11 DEF PoolIInv, PoolInv

LEMMA DrainedStep == ASSUME PoolIInv, NEW w \in Worker, drained(w) PROVE PoolIInv'
<1>0. TypeOK /\ JobsAccounted /\ RecycledLeaves /\ MadeInv /\ MicroInv /\ WorkerInv /\ OrphanInv
    BY TypeFacts
<1>1. /\ w \in draining /\ state[w] # "busy" /\ draining' = draining \ {w}
      /\ state' = [state EXCEPT ![w] = "recycling"]
      /\ proc' = [proc EXCEPT ![w] = IF @ = "alive" THEN "killed" ELSE @]
      /\ UNCHANGED <<booting, jobsRun, aged, pending, sent, workers, made, queue, phase, jst, aborted, micro>>
    BY DEF drained
<1>2. /\ state'[w] = "recycling" /\ proc'[w] = IF proc[w] = "alive" THEN "killed" ELSE proc[w]
      /\ \A v \in Worker \ {w} : state'[v] = state[v] /\ proc'[v] = proc[v]
    BY <1>0, <1>1 DEF TypeOK
<1>3. TypeOK'
    <2>1. /\ state' \in [Worker -> {"none", "starting", "idle", "busy", "recycling", "dead"}]
          /\ proc' \in [Worker -> {"none", "alive", "killed", "gone"}]
          /\ draining' \subseteq Worker
        BY <1>0, <1>1 DEF TypeOK
    <2>. QED BY <1>0, <1>1, <2>1 DEF TypeOK
<1>4. JobsAccounted'
    <2>1. \A v \in Worker : pending[v] # {} =>
               state'[v] \in {"busy", "recycling"} /\ proc'[v] \in {"alive", "killed"}
        <3>1. \A v \in Worker : pending[v] # {} =>
                  state[v] \in {"busy", "recycling"} /\ proc[v] \in {"alive", "killed"}
            BY <1>0 DEF JobsAccounted, TypeOK
        <3>. QED BY <1>2, <3>1
    <2>. QED BY <1>1, <2>1, JobsFrame
<1>5. phase = "draining"
    BY <1>0, <1>1 DEF OrphanInv, TypeOK
<1>6. RecycledLeaves' /\ MadeInv'
    BY <1>0, <1>1, <1>5 DEF RecycledLeaves, MadeInv, Settled, Checks
<1>7. MicroInv'
    <2>1. \A v \in 1 .. made : v \in Worker
        BY <1>0, TypeFacts, WorkerFacts
    <2>2. \A v \in Worker : proc[v] = "none" => proc'[v] = "none"
        BY <1>2
    <2>. QED BY <1>0, <1>1, <2>1, <2>2 DEF MicroInv, Sound
<1>8. WorkerInv'
    <2> SUFFICES ASSUME NEW v \in Worker
                 PROVE  /\ booting'[v] =>
                              /\ state'[v] \in {"starting", "recycling", "dead"}
                              /\ pending'[v] = {} /\ proc'[v] # "none"
                              /\ v <= Size => v \notin Elements(workers')
                        /\ state'[v] \in {"idle", "busy"} => proc'[v] # "none"
                        /\ state'[v] = "dead" => proc'[v] = "gone"
        BY DEF WorkerInv
    <2>. QED BY <1>0, <1>1, <1>2 DEF WorkerInv
<1>9. OrphanInv'
    <2>1. \A v \in Worker : proc'[v] = "alive" => v # w /\ proc[v] = "alive"
        BY <1>2
    <2>. QED BY <1>0, <1>1, <1>5, <2>1 DEF OrphanInv
<1>. QED BY <1>3, <1>4, <1>6, <1>7, <1>8, <1>9 DEF PoolIInv, PoolInv

LEMMA CompleteStep == ASSUME PoolIInv, shutdownComplete PROVE PoolIInv'
<1>0. TypeOK /\ JobsAccounted /\ RecycledLeaves /\ MadeInv /\ MicroInv /\ WorkerInv /\ OrphanInv
    BY TypeFacts
<1>1. /\ phase = "draining" /\ draining = {} /\ phase' = "down" /\ workers' = <<>>
      /\ UNCHANGED <<state, proc, booting, jobsRun, aged, pending, sent, made, queue, draining, jst, aborted, micro>>
    BY DEF shutdownComplete, workerVars
<1>2. Elements(<<>>) = {} /\ Once(<<>>) /\ <<>> \in Seq(Worker)
    BY DEF Elements, Once
<1>3. TypeOK'
    BY <1>0, <1>1, <1>2 DEF TypeOK
<1>4. JobsAccounted' /\ MicroInv'
    BY <1>0, <1>1 DEF JobsAccounted, MicroInv, Sound
<1>5. RecycledLeaves' /\ MadeInv' /\ WorkerInv' /\ OrphanInv'
    BY <1>0, <1>1, <1>2 DEF RecycledLeaves, MadeInv, WorkerInv, OrphanInv, Settled, Checks
<1>. QED BY <1>3, <1>4, <1>5 DEF PoolIInv, PoolInv

\* The continuations after a check: one check less, perhaps a drain.
Rest == IF micro[1].why = "result" THEN Append(Tail(micro), Drain) ELSE Tail(micro)

LEMMA RestFacts ==
    ASSUME PoolIInv, micro # <<>>, micro[1].kind = "check"
    PROVE  /\ Rest \in Seq(Continuation)
           /\ Elements(Rest) \subseteq Elements(micro) \cup {Drain}
           /\ Cardinality(Checks(Rest)) \in Nat
           /\ Cardinality(Checks(Rest)) + 1 <= Cardinality(Checks(micro))
           /\ micro[1].worker \in Worker /\ micro[1].worker <= made
           /\ made + 1 \in Worker
<1>0. /\ micro \in Seq(Continuation) /\ MicroInv /\ made \in Nat /\ made \in Worker
      /\ Cardinality(Checks(micro)) \in Nat
      /\ Cardinality(Checks(micro)) >= 1 => made + 1 \in Worker
    BY TypeFacts
<1> DEFINE t == Tail(micro)
<1>1. t \in Seq(Continuation) /\ Elements(t) \subseteq Elements(micro) /\ micro[1] \in Elements(micro)
    BY <1>0, TailElements
<1>2. Cardinality(Checks(t)) + 1 <= Cardinality(Checks(micro))
    BY <1>0, TailChecks
<1>3. Cardinality(Checks(t)) \in Nat
    BY <1>1, ChecksFinite
<1> HIDE DEF t
<1>4. Drain \in Continuation /\ Drain.kind # "check"
    BY ContinuationFacts
<1>5. /\ Append(t, Drain) \in Seq(Continuation)
      /\ Elements(Append(t, Drain)) = Elements(t) \cup {Drain}
    BY <1>1, <1>4, AppendFacts
<1>6. Cardinality(Checks(Append(t, Drain))) <= Cardinality(Checks(t))
    BY <1>1, <1>4, AppendChecks
<1>7. Cardinality(Checks(Append(t, Drain))) \in Nat
    BY <1>5, ChecksFinite
<1>8. Rest = Append(t, Drain) \/ Rest = t
    BY DEF Rest, t
<1>9. /\ Rest \in Seq(Continuation)
      /\ Elements(Rest) \subseteq Elements(micro) \cup {Drain}
      /\ Cardinality(Checks(Rest)) \in Nat
      /\ Cardinality(Checks(Rest)) + 1 <= Cardinality(Checks(micro))
    <2>1. CASE Rest = t
        BY <1>1, <1>2, <1>3, <2>1
    <2>2. CASE Rest = Append(t, Drain)
        <3>1. Cardinality(Checks(Rest)) + 1 <= Cardinality(Checks(micro)) /\ Cardinality(Checks(Rest)) \in Nat
            BY <1>0, <1>2, <1>3, <1>6, <1>7, <2>2
        <3>. QED BY <1>1, <1>5, <2>2, <3>1
    <2>. QED BY <1>8, <2>1, <2>2
<1>10. micro[1].worker \in 1 .. made
    BY <1>0, <1>1 DEF MicroInv, Sound
<1>11. micro[1].worker \in Worker /\ micro[1].worker <= made
    BY <1>0, <1>10, TypeFacts, WorkerFacts
<1>12. made + 1 \in Worker
    BY <1>0, <1>9
<1>. QED BY <1>9, <1>11, <1>12

\* _maybeRecycle puts a replacement in the place of a worker.
LEMMA ReplacedStep ==
    ASSUME PoolIInv, micro # <<>>, micro[1].kind = "check", phase = "up",
           aged' \in [Worker -> BOOLEAN], Replaced(micro[1].worker, made + 1, Rest),
           UNCHANGED <<jobsRun, pending, sent, queue, phase, draining, jst, aborted>>
    PROVE  PoolIInv'
<1> DEFINE w == micro[1].worker
           r == made + 1
<1>0. /\ TypeOK /\ JobsAccounted /\ RecycledLeaves /\ MadeInv /\ MicroInv /\ WorkerInv /\ OrphanInv
      /\ made \in Nat /\ Worker \subseteq Nat /\ 0 \notin Worker /\ Cardinality(Checks(micro)) \in Nat
      /\ Size \in Nat /\ Size <= made
    BY TypeFacts, WorkerFacts DEF MadeInv
<1>1. /\ Rest \in Seq(Continuation)
      /\ Elements(Rest) \subseteq Elements(micro) \cup {Drain}
      /\ Cardinality(Checks(Rest)) \in Nat
      /\ Cardinality(Checks(Rest)) + 1 <= Cardinality(Checks(micro))
      /\ w \in Worker /\ w <= made /\ r \in Worker
    BY RestFacts
<1>2. w # r /\ r > made /\ ~(r <= Size) /\ r \in Nat
    BY <1>0, <1>1
<1>3. PICK ok \in BOOLEAN :
          /\ booting' = [booting EXCEPT ![r] = ok]
          /\ proc' = [proc EXCEPT ![r] = IF ok THEN "alive" ELSE "none",
                                  ![w] = IF @ = "alive" /\ state[w] # "dead" THEN "killed" ELSE @]
          /\ micro' = IF ok THEN Rest ELSE Append(Rest, Remove(r))
    BY DEF Replaced
<1>4. /\ made' = r
      /\ workers' = IF w \in Elements(workers)
                    THEN [i \in DOMAIN workers |-> IF workers[i] = w THEN r ELSE workers[i]]
                    ELSE Append(workers, r)
      /\ state' = [state EXCEPT ![r] = "starting", ![w] = IF @ = "dead" THEN @ ELSE "recycling"]
    BY DEF Replaced
<1> HIDE DEF w, r
<1>5. /\ state' \in [Worker -> {"none", "starting", "idle", "busy", "recycling", "dead"}]
      /\ state'[r] = "starting" /\ state'[w] = IF state[w] = "dead" THEN "dead" ELSE "recycling"
      /\ \A v \in Worker \ {w, r} : state'[v] = state[v]
    BY <1>0, <1>1, <1>2, <1>4 DEF TypeOK
<1>6. /\ proc' \in [Worker -> {"none", "alive", "killed", "gone"}]
      /\ proc'[r] = IF ok THEN "alive" ELSE "none"
      /\ proc'[w] = IF proc[w] = "alive" /\ state[w] # "dead" THEN "killed" ELSE proc[w]
      /\ \A v \in Worker \ {w, r} : proc'[v] = proc[v]
    BY <1>0, <1>1, <1>2, <1>3 DEF TypeOK
<1>7. booting' \in [Worker -> BOOLEAN] /\ booting'[r] = ok /\ \A v \in Worker \ {r} : booting'[v] = booting[v]
    <2>1. booting \in [Worker -> BOOLEAN] /\ booting' = [booting EXCEPT ![r] = ok]
        BY <1>0, <1>3 DEF TypeOK
    <2>. QED BY <1>1, <2>1
<1>8. /\ r \notin Elements(workers) /\ pending[r] = {} /\ Elements(workers) \subseteq Worker
      /\ Elements(workers) \subseteq 1 .. made
    <2>1. Elements(workers) \subseteq 1 .. made /\ pending[r] = {}
        BY <1>0, <1>1, <1>2 DEF MadeInv
    <2>2. r \notin 1 .. made
        BY <1>0, <1>2
    <2>3. Elements(workers) \subseteq Worker
        BY <1>0 DEF TypeOK, Elements
    <2>. QED BY <2>1, <2>2, <2>3
<1>9. /\ workers' \in Seq(Worker) /\ Once(workers')
      /\ Elements(workers') = (Elements(workers) \ {w}) \cup {r}
    <2>0. workers \in Seq(Worker) /\ Once(workers)
        BY <1>0 DEF TypeOK, RecycledLeaves
    <2>1. CASE w \notin Elements(workers)
        BY <1>1, <1>4, <1>8, <2>0, <2>1, AppendFacts
    <2>2. CASE w \in Elements(workers)
        <3> DEFINE n == Len(workers)
        <3>1. n \in Nat /\ DOMAIN workers = 1 .. n /\ \A i \in 1 .. n : workers[i] \in Worker
            BY <2>0
        <3> HIDE DEF n
        <3>2. workers' = [i \in 1 .. n |-> IF workers[i] = w THEN r ELSE workers[i]]
            BY <1>4, <2>2, <3>1
        <3>3. DOMAIN workers' = 1 .. n /\ \A i \in 1 .. n : workers'[i] = IF workers[i] = w THEN r ELSE workers[i]
            BY <3>2
        <3>4. workers' \in Seq(Worker)
            <4>1. workers' \in [1 .. n -> Worker]
                BY <1>1, <3>1, <3>2
            <4>. QED BY <3>1, <4>1
        <3>5. \A i \in 1 .. n : workers[i] # r
            BY <1>8, <3>1 DEF Elements
        <3>6. Once(workers')
            BY <2>0, <3>1, <3>3, <3>5 DEF Once
        <3>7. PICK k \in 1 .. n : workers[k] = w
            BY <2>2, <3>1 DEF Elements
        <3>8. r \in Elements(workers')
            BY <3>3, <3>7 DEF Elements
        <3>9. \A v \in Elements(workers) : v # w => v \in Elements(workers')
            BY <3>1, <3>3 DEF Elements
        <3>10. \A v \in Elements(workers') : v = r \/ (v \in Elements(workers) /\ v # w)
            BY <3>1, <3>3 DEF Elements
        <3>11. w \notin Elements(workers')
            BY <1>2, <3>10
        <3>12. Elements(workers') = (Elements(workers) \ {w}) \cup {r}
            BY <3>8, <3>9, <3>10
        <3>. QED BY <3>4, <3>6, <3>12
    <2>. QED BY <2>1, <2>2
<1>10. /\ micro' \in Seq(Continuation) /\ Elements(micro') \subseteq Elements(Rest) \cup {Remove(r)}
       /\ ok => Elements(micro') \subseteq Elements(Rest)
       /\ Cardinality(Checks(micro')) \in Nat /\ Cardinality(Checks(micro')) <= Cardinality(Checks(Rest))
    <2>1. CASE ok
        BY <1>1, <1>3, <2>1
    <2>2. CASE ~ok
        <3>1. micro' = Append(Rest, Remove(r)) /\ Remove(r) \in Continuation /\ Remove(r).kind # "check"
            BY <1>1, <1>3, <2>2, ContinuationFacts
        <3>2. /\ Append(Rest, Remove(r)) \in Seq(Continuation)
              /\ Elements(Append(Rest, Remove(r))) = Elements(Rest) \cup {Remove(r)}
            BY <1>1, <3>1, AppendFacts
        <3>3. Cardinality(Checks(Append(Rest, Remove(r)))) <= Cardinality(Checks(Rest))
            BY <1>1, <3>1, AppendChecks
        <3>4. Cardinality(Checks(Append(Rest, Remove(r)))) \in Nat
            BY <3>2, ChecksFinite
        <3>. QED BY <2>2, <3>1, <3>2, <3>3, <3>4
    <2>. QED BY <2>1, <2>2
<1>11. TypeOK'
    <2>1. made' \in Worker
        BY <1>1, <1>4
    <2>. QED BY <1>0, <1>5, <1>6, <1>7, <1>9, <1>10, <2>1 DEF TypeOK, Continuation
<1>12. JobsAccounted'
    <2>1. \A v \in Worker : pending[v] # {} =>
               state'[v] \in {"busy", "recycling"} /\ proc'[v] \in {"alive", "killed"}
        <3>1. \A v \in Worker : pending[v] # {} =>
                  v # r /\ state[v] \in {"busy", "recycling"} /\ proc[v] \in {"alive", "killed"}
            BY <1>0, <1>8 DEF JobsAccounted, TypeOK
        <3>. QED BY <1>5, <1>6, <3>1
    <2>. QED BY <2>1, JobsFrame
<1>13. RecycledLeaves'
    <2>1. \A v \in Elements(workers) : state[v] # "recycling"
        BY <1>0 DEF RecycledLeaves, Elements
    <2>2. \A v \in Elements(workers') : state'[v] # "recycling"
        BY <1>5, <1>8, <1>9, <2>1
    <2>. QED BY <1>9, <2>2 DEF RecycledLeaves, Elements
<1>14. MadeInv'
    <2>1. /\ made + Cardinality(Checks(micro)) <= Size + Cardinality(Settled)
          /\ \A v \in Worker : v > made => pending[v] = {}
        BY <1>0 DEF MadeInv
    <2>2. Settled' = Settled /\ Checks(micro)' = Checks(micro')
        BY DEF Settled, Checks
    <2>3. made' = made + 1
        BY <1>4 DEF r
    <2>4. made' + Cardinality(Checks(micro)') <= Size + Cardinality(Settled') /\ Size <= made'
        BY <1>0, <1>1, <1>10, <2>1, <2>2, <2>3, SettledFacts
    <2>5. Elements(workers') \subseteq 1 .. made'
        <3>1. 1 .. made \subseteq 1 .. made' /\ r \in 1 .. made'
            BY <1>0, <2>3 DEF r
        <3>. QED BY <1>8, <1>9, <3>1
    <2>6. \A v \in Worker : v > made' => pending'[v] = {}
        <3>1. \A v \in Worker : v > made' => v > made
            BY <1>0, <2>3
        <3>. QED BY <2>1, <3>1
    <2>. QED BY <2>4, <2>5, <2>6 DEF MadeInv
<1>15. MicroInv'
    <2>1. \A v \in 1 .. made : v \in Worker /\ v # r /\ v \in 1 .. made'
        BY <1>0, <1>2, <1>4, TypeFacts, WorkerFacts DEF r
    <2>2. \A v \in Worker \ {r} : proc[v] = "none" => proc'[v] = "none"
        BY <1>6
    <2>3. \A c \in Elements(micro) : Sound(c)'
        BY <1>0, <2>1, <2>2 DEF MicroInv, Sound
    <2>4. Sound(Drain)'
        BY ContinuationFacts DEF Sound
    <2>0. PICK gone : gone = Remove(r)
        OBVIOUS
    <2>5. ~ok => Sound(gone)'
        <3>1. gone.kind = "remove" /\ gone.worker = r
            BY <1>1, <2>0, ContinuationFacts
        <3>2. r \in 1 .. made'
            BY <1>0, <1>4 DEF r
        <3>. QED BY <1>6, <3>1, <3>2 DEF Sound
    <2>. QED BY <1>1, <1>10, <2>0, <2>3, <2>4, <2>5 DEF MicroInv
<1>16. WorkerInv'
    <2> SUFFICES ASSUME NEW v \in Worker
                 PROVE  /\ booting'[v] =>
                              /\ state'[v] \in {"starting", "recycling", "dead"}
                              /\ pending'[v] = {} /\ proc'[v] # "none"
                              /\ v <= Size => v \notin Elements(workers')
                        /\ state'[v] \in {"idle", "busy"} => proc'[v] # "none"
                        /\ state'[v] = "dead" => proc'[v] = "gone"
        BY DEF WorkerInv
    <2>1. CASE v = r
        BY <1>2, <1>5, <1>6, <1>7, <1>8, <2>1
    <2>2. CASE v # r
        <3>1. booting'[v] = booting[v] /\ (v \in Elements(workers') => v \in Elements(workers))
            BY <1>7, <1>9, <2>2
        <3>2. /\ state'[v] = state[v] \/ (state[v] # "dead" /\ state'[v] = "recycling")
              /\ proc'[v] = proc[v] \/ (state[v] # "dead" /\ proc'[v] = "killed")
            BY <1>5, <1>6, <2>2
        <3>. QED BY <1>0, <3>1, <3>2 DEF WorkerInv
    <2>. QED BY <2>1, <2>2
<1>17. OrphanInv'
    <2>1. ASSUME NEW v \in Worker, proc'[v] = "alive"
          PROVE  v \in Elements(workers') \/ (v <= Size /\ booting'[v])
        <3>1. CASE v = r
            BY <1>9, <3>1
        <3>2. CASE v = w
            <4>1. proc[w] = "alive" /\ state[w] = "dead"
                BY <1>2, <1>6, <2>1, <3>2
            <4>. QED BY <1>0, <1>1, <4>1 DEF WorkerInv
        <3>3. CASE v # r /\ v # w
            <4>1. proc[v] = "alive" /\ booting'[v] = booting[v]
                BY <1>6, <1>7, <2>1, <3>3
            <4>2. v \in Elements(workers) \/ (v <= Size /\ booting[v])
                BY <1>0, <4>1 DEF OrphanInv
            <4>. QED BY <1>9, <3>3, <4>1, <4>2
        <3>. QED BY <3>1, <3>2, <3>3
    <2>. QED BY <1>0, <2>1 DEF OrphanInv
<1>. QED BY <1>11, <1>12, <1>13, <1>14, <1>15, <1>16, <1>17 DEF PoolIInv, PoolInv

LEMMA CheckStep == ASSUME PoolIInv, check PROVE PoolIInv'
<1> DEFINE w == micro[1].worker
<1>0. /\ TypeOK /\ JobsAccounted /\ RecycledLeaves /\ MadeInv /\ MicroInv /\ WorkerInv /\ OrphanInv
      /\ made \in Nat /\ Cardinality(Checks(micro)) \in Nat
    BY TypeFacts
<1>1. /\ micro # <<>> /\ micro[1].kind = "check"
      /\ \E old \in {aged[w], TRUE} : aged' = [aged EXCEPT ![w] = old]
      /\ UNCHANGED <<jobsRun, pending, sent, queue, phase, draining, jst, aborted>>
      /\ \/ micro' = Rest /\ UNCHANGED <<state, proc, booting, workers, made>>
         \/ phase = "up" /\ Replaced(w, made + 1, Rest)
         \/ /\ phase # "up" /\ Terminated({w}) /\ workers' = Removed(workers, w) /\ micro' = Rest
            /\ UNCHANGED <<booting, made>>
    BY DEF check, Quiet, Rest
<1>2. /\ Rest \in Seq(Continuation)
      /\ Elements(Rest) \subseteq Elements(micro) \cup {Drain}
      /\ Cardinality(Checks(Rest)) \in Nat
      /\ Cardinality(Checks(Rest)) + 1 <= Cardinality(Checks(micro))
      /\ w \in Worker /\ w <= made
    BY <1>1, RestFacts
<1>3. aged' \in [Worker -> BOOLEAN]
    <2>1. aged \in [Worker -> BOOLEAN]
        BY <1>0 DEF TypeOK
    <2>2. aged[w] \in BOOLEAN
        BY <1>2, <2>1
    <2>. QED BY <1>1, <2>1, <2>2
<1> HIDE DEF w
<1>4. CASE micro' = Rest /\ (\A v \in Worker : proc[v] = "none" => proc'[v] = "none") /\ made' = made
    <2>1. \A c \in Elements(micro) : Sound(c)'
        <3>1. \A v \in 1 .. made : v \in Worker
            BY <1>0, TypeFacts, WorkerFacts
        <3>. QED BY <1>0, <1>4, <3>1 DEF MicroInv, Sound
    <2>2. Sound(Drain)'
        BY ContinuationFacts DEF Sound
    <2>3. MicroInv'
        BY <1>2, <1>4, <2>1, <2>2 DEF MicroInv
    <2>4. Settled' = Settled /\ Checks(micro)' = Checks(Rest)
        BY <1>1, <1>4 DEF Settled, Checks
    <2>5. /\ Size <= made /\ made + Cardinality(Checks(micro)) <= Size + Cardinality(Settled)
          /\ \A v \in Worker : v > made => pending[v] = {}
        BY <1>0 DEF MadeInv
    <2>6. made' + Cardinality(Checks(micro)') <= Size + Cardinality(Settled')
        BY <1>0, <1>2, <1>4, <2>4, <2>5, SettledFacts, WorkerFacts
    <2>7. Elements(workers') \subseteq Elements(workers) => MadeInv'
        BY <1>0, <1>1, <1>4, <2>5, <2>6 DEF MadeInv
    <2>8. CASE UNCHANGED <<state, proc, booting, workers, made>>
        <3>1. TypeOK'
            BY <1>0, <1>1, <1>2, <1>3, <1>4, <2>8 DEF TypeOK, Continuation
        <3>2. JobsAccounted' /\ RecycledLeaves' /\ WorkerInv' /\ OrphanInv'
            BY <1>0, <1>1, <2>8 DEF JobsAccounted, RecycledLeaves, WorkerInv, OrphanInv
        <3>3. MadeInv'
            BY <2>7, <2>8
        <3>. QED BY <2>3, <3>1, <3>2, <3>3 DEF PoolIInv, PoolInv
    <2>9. CASE /\ phase # "up" /\ Terminated({w}) /\ workers' = Removed(workers, w)
               /\ UNCHANGED <<booting, made>>
        <3>1. /\ state' \in [Worker -> {"none", "starting", "idle", "busy", "recycling", "dead"}]
              /\ proc' \in [Worker -> {"none", "alive", "killed", "gone"}]
              /\ \A v \in Worker :
                    \/ state'[v] = state[v] /\ proc'[v] = proc[v]
                    \/ /\ state[v] # "dead" /\ state'[v] = "recycling"
                       /\ proc'[v] = IF proc[v] = "alive" THEN "killed" ELSE proc[v]
            BY <1>0, <2>9, TerminatedFacts
        <3>2. workers' \in Seq(Worker) /\ Once(workers') /\ Elements(workers') = Elements(workers) \ {w}
            BY <2>9, LeavesArray
        <3>3. TypeOK'
            BY <1>0, <1>1, <1>2, <1>3, <1>4, <2>9, <3>1, <3>2 DEF TypeOK, Continuation
        <3>4. JobsAccounted'
            <4>1. \A v \in Worker : pending[v] # {} =>
                      state[v] \in {"busy", "recycling"} /\ proc[v] \in {"alive", "killed"}
                BY <1>0 DEF JobsAccounted, TypeOK
            <4>2. \A v \in Worker : pending[v] # {} =>
                      state'[v] \in {"busy", "recycling"} /\ proc'[v] \in {"alive", "killed"}
                BY <3>1, <4>1
            <4>. QED BY <1>1, <4>2, JobsFrame
        <3>5. RecycledLeaves'
            BY <1>1, <2>9, <3>2 DEF RecycledLeaves
        <3>6. MadeInv'
            BY <2>7, <3>2
        <3>7. WorkerInv'
            <4> SUFFICES ASSUME NEW v \in Worker
                         PROVE  /\ booting'[v] =>
                                      /\ state'[v] \in {"starting", "recycling", "dead"}
                                      /\ pending'[v] = {} /\ proc'[v] # "none"
                                      /\ v <= Size => v \notin Elements(workers')
                                /\ state'[v] \in {"idle", "busy"} => proc'[v] # "none"
                                /\ state'[v] = "dead" => proc'[v] = "gone"
                BY DEF WorkerInv
            <4>. QED BY <1>0, <1>1, <2>9, <3>1, <3>2 DEF WorkerInv
        <3>8. OrphanInv'
            <4>1. \A v \in Worker : proc'[v] = "alive" => proc[v] = "alive"
                BY <3>1
            <4>. QED BY <1>0, <1>1, <2>9, <4>1 DEF OrphanInv
        <3>. QED BY <2>3, <3>3, <3>4, <3>5, <3>6, <3>7, <3>8 DEF PoolIInv, PoolInv
    <2>10. CASE phase = "up" /\ Replaced(w, made + 1, Rest)
        BY <1>1, <1>3, <2>10, ReplacedStep DEF w
    <2>. QED BY <1>1, <2>8, <2>9, <2>10 DEF w
<1>5. CASE phase = "up" /\ Replaced(w, made + 1, Rest)
    BY <1>1, <1>3, <1>5, ReplacedStep DEF w
<1>6. ASSUME \/ micro' = Rest /\ UNCHANGED <<state, proc, booting, workers, made>>
             \/ /\ Terminated({w}) /\ micro' = Rest /\ UNCHANGED <<booting, made>>
      PROVE  micro' = Rest /\ (\A v \in Worker : proc[v] = "none" => proc'[v] = "none") /\ made' = made
    BY <1>0, <1>6, TerminatedFacts
<1>. QED BY <1>1, <1>4, <1>5, <1>6 DEF w

LEMMA PoolStep == PoolIInv /\ [Next]_vars => PoolIInv'
<1> SUFFICES ASSUME PoolIInv, [Next]_vars PROVE PoolIInv'
    OBVIOUS
<1>1. CASE UNCHANGED vars
    BY <1>1 DEF PoolIInv, PoolInv, TypeOK, JobsAccounted, RecycledLeaves, MadeInv, MicroInv, Sound, WorkerInv,
       OrphanInv, Settled, Checks, vars, workerVars, poolVars
<1>2. ASSUME NEW w \in Worker, started(w) \/ _handleLine(w) \/ _handleClose(w) \/ drained(w)
      PROVE  PoolIInv'
    BY <1>2, StartedStep, LineStep, CloseStep, DrainedStep
<1>3. ASSUME NEW j \in Jobs, execute(j) \/ acquireTimeout(j) \/ abort(j)
      PROVE  PoolIInv'
    BY <1>3, ExecuteStep, QueueTimeoutStep, AbortStep
<1>. QED BY <1>1, <1>2, <1>3, CheckStep, DrainStep, RemoveStep, ShutdownStep, CompleteStep DEF Next

(***************************************************************************)
(* Whatever crashes, aborts, checks that overlap and shutdown() come       *)
(* between: the promise of every job has somebody to settle it, and while  *)
(* the pool is up no worker that was told to stop is in the array, and     *)
(* none is in it twice (PoolInv).                                          *)
(***************************************************************************)
THEOREM PoolCorrect == Spec => []PoolInv
<1>1. PoolIInv => PoolInv
    BY DEF PoolIInv
<1>. QED BY <1>1, PoolInit, PoolStep, PTL DEF Spec

(***************************************************************************)
(* No process outlives the pool, the replacements that shutdown() finds    *)
(* in the pause of their start included (NoOrphans).                       *)
(***************************************************************************)
THEOREM NoProcessOutlives == Spec => []NoOrphans
<1>1. PoolIInv => NoOrphans
    BY DEF PoolIInv, OrphanInv, NoOrphans
<1>. QED BY <1>1, PoolInit, PoolStep, PTL DEF Spec
=============================================================================
