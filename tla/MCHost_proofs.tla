--------------------------- MODULE MCHost_proofs ---------------------------
(***************************************************************************)
(* What the server and the command line keep, part by part, each with its  *)
(* inductive invariant: the books of the server's tools, the path of a     *)
(* bridge call and its observers, the recordings; the watcher, the catalog *)
(* of tools, the configuration files and those of the clients; and the     *)
(* run's specification, whose parts share no variable.                     *)
(***************************************************************************)
EXTENDS MCHost, FiniteSetTheorems, NaturalsInduction, WellFoundedInduction, TLAPS

-----------------------------------------------------------------------------
\* The lists: filter(), the newest of a list, and least numbers.

\* The places of the indices that pass: each has its own, and all are taken.
LEMMA RankFacts ==
    ASSUME NEW n \in Nat, NEW I \in SUBSET (1 .. n)
    PROVE  /\ IsFiniteSet(I) /\ Cardinality(I) \in Nat
           /\ \A i \in I : Rank(I, i) \in 1 .. Cardinality(I)
           /\ \A i, j \in I : Rank(I, i) = Rank(I, j) => i = j
           /\ \A k \in 1 .. Cardinality(I) : \E i \in I : Rank(I, i) = k
<1> DEFINE upTo(i) == {j \in I : j <= i}
           m == Cardinality(I)
<1>1. IsFiniteSet(I) /\ m \in Nat
    <2>1. IsFiniteSet(1 .. n)
        BY FS_Interval
    <2>2. IsFiniteSet(I)
        BY <2>1, FS_Subset
    <2>. QED BY <2>2, FS_CardinalityType
<1>2. ASSUME NEW i \in I
      PROVE  /\ IsFiniteSet(upTo(i)) /\ Cardinality(upTo(i)) \in 1 .. m
    <2>1. IsFiniteSet(upTo(i)) /\ Cardinality(upTo(i)) <= m
        BY <1>1, FS_Subset
    <2>2. i \in upTo(i)
        OBVIOUS
    <2>3. Cardinality(upTo(i)) \in Nat /\ Cardinality(upTo(i)) # 0
        <3>1. upTo(i) # {}
            BY <2>2
        <3> HIDE DEF upTo
        <3>. QED BY <2>1, <3>1, FS_CardinalityType, FS_EmptySet
    <2> HIDE DEF upTo
    <2>. QED BY <1>1, <2>1, <2>3
<1>3. ASSUME NEW i \in I, NEW j \in I, Cardinality(upTo(i)) = Cardinality(upTo(j)), i < j
      PROVE  FALSE
    <2>0. i < j /\ i \in Int /\ j \in Int /\ \A x \in I : x \in Int
        BY <1>3
    <2>1. \A x \in I : (x <= i => x <= j) /\ j <= j /\ ~(j <= i)
        BY <2>0
    <2>2. upTo(i) \in SUBSET upTo(j) /\ j \in upTo(j) /\ j \notin upTo(i)
        BY <2>1
    <2>3. IsFiniteSet(upTo(j))
        BY <1>2
    <2> HIDE DEF upTo
    <2>. QED BY <1>3, <2>2, <2>3, FS_Subset
<1>4. \A i, j \in I : Cardinality(upTo(i)) = Cardinality(upTo(j)) => i = j
    <2> HIDE DEF upTo
    <2> SUFFICES ASSUME NEW i \in I, NEW j \in I, Cardinality(upTo(i)) = Cardinality(upTo(j)) PROVE i = j
        OBVIOUS
    <2>1. ~(i < j) /\ ~(j < i)
        BY <1>3
    <2>. QED BY <2>1
<1>5. \A k \in 1 .. m : \E i \in I : Cardinality(upTo(i)) = k
    <2> DEFINE f == [i \in I |-> Cardinality(upTo(i))]
    <2>1. f \in Injection(I, 1 .. m)
        <3> HIDE DEF upTo, m
        <3>. QED BY <1>2, <1>4 DEF Injection, IsInjective
    <2>2. IsFiniteSet(1 .. m) /\ Cardinality(1 .. m) = m
        BY <1>1, FS_Interval
    <2>3. f \in Surjection(I, 1 .. m)
        <3> HIDE DEF f
        <3>. QED BY <2>1, <2>2, FS_Injection
    <2> HIDE DEF upTo, m
    <2>. QED BY <2>3 DEF Surjection
<1>. QED BY <1>1, <1>2, <1>4, <1>5 DEF Rank

\* filter() keeps just those that pass.
LEMMA FilteredFacts ==
    ASSUME NEW S, NEW s \in Seq(S), NEW I \in SUBSET (DOMAIN s)
    PROVE  /\ Filtered(s, I) \in Seq(S) /\ Len(Filtered(s, I)) = Cardinality(I)
           /\ Cardinality(I) \in Nat
           /\ DOMAIN Filtered(s, I) = 1 .. Cardinality(I)
           /\ \A k \in 1 .. Cardinality(I) : \E i \in I : Filtered(s, I)[k] = s[i]
           /\ Elements(Filtered(s, I)) = {s[i] : i \in I}
<1> DEFINE t == Filtered(s, I)
           m == Cardinality(I)
           at(k) == CHOOSE i \in I : Rank(I, i) = k
<1>1. /\ DOMAIN s = 1 .. Len(s) /\ Len(s) \in Nat
      /\ \A i \in I : s[i] \in S
    OBVIOUS
<1>2. /\ m \in Nat
      /\ \A i \in I : Rank(I, i) \in 1 .. m
      /\ \A i, j \in I : Rank(I, i) = Rank(I, j) => i = j
      /\ \A k \in 1 .. m : \E i \in I : Rank(I, i) = k
    BY <1>1, RankFacts
<1>3. \A k \in 1 .. m : at(k) \in I /\ Rank(I, at(k)) = k
    BY <1>2
<1>4. t = [k \in 1 .. m |-> s[at(k)]]
    BY DEF Filtered
<1> HIDE DEF t, m, at
<1>5. t \in [1 .. m -> S]
    BY <1>1, <1>3, <1>4
<1>6. t \in Seq(S) /\ Len(t) = m /\ DOMAIN t = 1 .. m
    BY <1>2, <1>5
<1>7. \A k \in 1 .. m : \E i \in I : t[k] = s[i]
    BY <1>3, <1>4
<1>8. \A i \in I : \E k \in 1 .. m : t[k] = s[i]
    <2> SUFFICES ASSUME NEW i \in I PROVE \E k \in 1 .. m : t[k] = s[i]
        OBVIOUS
    <2>1. at(Rank(I, i)) = i /\ Rank(I, i) \in 1 .. m
        BY <1>2, <1>3
    <2>. QED BY <1>4, <2>1
<1>9. Elements(t) = {s[i] : i \in I}
    <2>1. Elements(t) = {t[k] : k \in 1 .. m}
        BY <1>6 DEF Elements
    <2>. QED BY <1>7, <1>8, <2>1
<1>. QED BY <1>2, <1>6, <1>7, <1>9 DEF t, m

\* If just those from a on pass, the result is the rest from there.
LEMMA FilteredRest ==
    ASSUME NEW S, NEW s \in Seq(S), NEW a \in 1 .. Len(s) + 1
    PROVE  Filtered(s, a .. Len(s)) = [k \in 1 .. Len(s) - a + 1 |-> s[k + a - 1]]
<1> DEFINE I == a .. Len(s)
           m == Len(s) - a + 1
<1>1. Len(s) \in Nat /\ a \in Nat \ {0} /\ m \in Nat
    OBVIOUS
<1>2. Cardinality(I) = m
    <2>1. Cardinality(a .. Len(s)) = IF a > Len(s) THEN 0 ELSE Len(s) - a + 1
        <3> DEFINE b == Len(s)
        <3>1. a \in Int /\ b \in Int
            BY <1>1
        <3> HIDE DEF b
        <3>2. Cardinality(a .. b) = IF a > b THEN 0 ELSE b - a + 1
            BY <3>1, FS_Interval
        <3>. QED BY <3>2 DEF b
    <2>2. a <= Len(s) + 1
        OBVIOUS
    <2>. QED BY <1>1, <2>1, <2>2
<1>3. \A i \in I : Rank(I, i) = i - a + 1
    <2> SUFFICES ASSUME NEW i \in I PROVE Rank(I, i) = i - a + 1
        OBVIOUS
    <2>1. {j \in I : j <= i} = a .. i
        BY <1>1
    <2>2. Cardinality(a .. i) = i - a + 1
        BY <1>1, FS_Interval
    <2>. QED BY <2>1, <2>2 DEF Rank
<1>4. \A k \in 1 .. m : (CHOOSE i \in I : Rank(I, i) = k) = k + a - 1
    <2> SUFFICES ASSUME NEW k \in 1 .. m PROVE (CHOOSE i \in I : Rank(I, i) = k) = k + a - 1
        OBVIOUS
    <2>1. k + a - 1 \in I
        BY <1>1
    <2>2. \A i \in I : Rank(I, i) = k <=> i = k + a - 1
        BY <1>1, <1>3
    <2> HIDE DEF I, m
    <2>. QED BY <2>1, <2>2
<1>5. Filtered(s, I) = [k \in 1 .. Cardinality(I) |-> s[CHOOSE i \in I : Rank(I, i) = k]]
    BY DEF Filtered
<1>6. Filtered(s, I) = [k \in 1 .. m |-> s[k + a - 1]]
    <2> HIDE DEF I, m
    <2>. QED BY <1>2, <1>4, <1>5
<1>. QED BY <1>6

\* A set of numbers has a least element.
LEMMA LeastNumber ==
    ASSUME NEW T, T \subseteq Nat, T # {}
    PROVE  \E x \in T : \A y \in T : x <= y
<1> DEFINE Less == {ss \in Nat \X Nat : ss[1] < ss[2]}
<1>1. IsWellFoundedOn(Less, Nat)
    BY NatLessThanWellFounded DEF OpToRel
<1>2. \A x, y \in Nat : x < y => <<x, y>> \in Less
    OBVIOUS
<1> HIDE DEF Less
<1>3. PICK x \in T : \A y \in T : <<y, x>> \notin Less
    BY <1>1, WFMin
<1>4. \A y \in T : ~(y < x)
    BY <1>2, <1>3
<1>. QED BY <1>3, <1>4

\* The last n of a list: how many, and which.
LEMMA NewestFacts ==
    ASSUME NEW S, NEW s \in Seq(S), NEW n \in Nat
    PROVE  /\ Newest(s, n) \in Seq(S)
           /\ Len(Newest(s, n)) = IF Len(s) > n THEN n ELSE Len(s)
           /\ \A i \in 1 .. Len(Newest(s, n)) : Newest(s, n)[i] = s[Len(s) - Len(Newest(s, n)) + i]
<1> DEFINE d == IF Len(s) > n THEN Len(s) - n ELSE 0
           b == Len(s)
           t == Newest(s, n)
<1>1. b \in Nat /\ d \in 0 .. b /\ b - d = (IF b > n THEN n ELSE b) /\ \A i \in 1 .. b : s[i] \in S
    OBVIOUS
<1>2. t = SubSeq(s, d + 1, b)
    BY DEF Newest
<1> HIDE DEF d
<1>3. SubSeq(s, d + 1, b) = [i \in 1 .. b - d |-> s[i + d]]
    BY <1>1
<1> HIDE DEF b, t
<1>4. \A i \in 1 .. b - d : s[i + d] \in S /\ i + d = b - (b - d) + i
    BY <1>1
<1>5. t \in [1 .. b - d -> S] /\ b - d \in Nat /\ \A i \in 1 .. b - d : t[i] = s[i + d]
    BY <1>1, <1>2, <1>3, <1>4
<1>6. t \in Seq(S) /\ Len(t) = b - d
    BY <1>5
<1>. QED BY <1>1, <1>4, <1>5, <1>6 DEF b, t

\* Lists of one length with the same elements in their places are the same.
LEMMA SameLists ==
    ASSUME NEW S, NEW s \in Seq(S), NEW t \in Seq(S), Len(s) = Len(t), \A i \in 1 .. Len(s) : s[i] = t[i]
    PROVE  s = t
OBVIOUS

\* A list that keeps the last n of all is told of the next one only.
LEMMA NewestGoesOn ==
    ASSUME NEW S, NEW s \in Seq(S), NEW n \in Nat \ {0}, NEW x \in S
    PROVE  Newest(Append(Newest(s, n), x), n) = Newest(Append(s, x), n)
<1> DEFINE t == Newest(s, n)
           l == Len(s)
           m == Len(t)
           p == Append(t, x)
           q == Append(s, x)
           u == Newest(p, n)
           v == Newest(q, n)
           k == Len(v)
<1>1. t \in Seq(S) /\ m = (IF l > n THEN n ELSE l) /\ l \in Nat
      /\ \A i \in 1 .. m : t[i] = s[l - m + i]
    BY NewestFacts
<1> HIDE DEF t
<1>2. /\ p \in Seq(S) /\ Len(p) = m + 1 /\ p[m + 1] = x /\ \A i \in 1 .. m : p[i] = t[i]
      /\ q \in Seq(S) /\ Len(q) = l + 1 /\ q[l + 1] = x /\ \A i \in 1 .. l : q[i] = s[i]
    BY <1>1
<1> HIDE DEF p, q, l, m
<1>3. /\ u \in Seq(S) /\ Len(u) = (IF m + 1 > n THEN n ELSE m + 1)
      /\ \A i \in 1 .. Len(u) : u[i] = p[m + 1 - Len(u) + i]
    <2>1. /\ u \in Seq(S) /\ Len(u) = (IF Len(p) > n THEN n ELSE Len(p))
          /\ \A i \in 1 .. Len(u) : u[i] = p[Len(p) - Len(u) + i]
        BY <1>2, NewestFacts
    <2>2. Len(p) = m + 1 /\ m \in Nat
        BY <1>1, <1>2
    <2> HIDE DEF u
    <2>. QED BY <2>1, <2>2
<1>4. /\ v \in Seq(S) /\ Len(v) = (IF l + 1 > n THEN n ELSE l + 1)
      /\ \A i \in 1 .. Len(v) : v[i] = q[l + 1 - Len(v) + i]
    <2>1. /\ v \in Seq(S) /\ Len(v) = (IF Len(q) > n THEN n ELSE Len(q))
          /\ \A i \in 1 .. Len(v) : v[i] = q[Len(q) - Len(v) + i]
        BY <1>2, NewestFacts
    <2>2. Len(q) = l + 1 /\ l \in Nat
        BY <1>1, <1>2
    <2> HIDE DEF v
    <2>. QED BY <2>1, <2>2
<1> HIDE DEF u, v
<1>5. k = Len(u) /\ k \in Nat /\ k >= 1 /\ k <= m + 1 /\ m \in Nat /\ m <= l
    BY <1>1, <1>3, <1>4
<1> HIDE DEF k
<1>6. ASSUME NEW i \in 1 .. k PROVE u[i] = v[i]
    <2>1. u[i] = p[m + 1 - k + i] /\ v[i] = q[l + 1 - k + i]
        BY <1>3, <1>4, <1>5 DEF k
    <2>2. CASE i = k
        <3>1. k \in Nat /\ m \in Nat /\ l \in Nat
            BY <1>1, <1>5
        <3>2. m + 1 - k + k = m + 1 /\ l + 1 - k + k = l + 1
            BY <3>1
        <3>3. m + 1 - k + i = m + 1 /\ l + 1 - k + i = l + 1
            BY <2>2, <3>2
        <3>. QED BY <1>2, <2>1, <3>3
    <2>3. CASE i # k
        <3> DEFINE j == m + 1 - k + i
                   h == l + 1 - k + i
        <3>1. l \in Nat /\ k \in Nat /\ k >= 1 /\ k <= m + 1 /\ m \in Nat /\ m <= l
            BY <1>1, <1>5
        <3>2. i \in Int /\ i >= 1 /\ i < k
            BY <2>3, <3>1
        <3>3. j \in 1 .. m /\ h \in 1 .. l /\ h = l - m + j
            BY <3>1, <3>2
        <3> HIDE DEF j, h
        <3>4. p[j] = s[h] /\ q[h] = s[h]
            BY <1>1, <1>2, <3>3
        <3>. QED BY <2>1, <3>4 DEF j, h
    <2>. QED BY <2>2, <2>3
<1>7. u = v
    BY <1>3, <1>4, <1>5, <1>6, SameLists DEF k
<1>. QED BY <1>7 DEF u, v, p, q, t

LEMMA NewestOfNone == ASSUME NEW n \in Nat PROVE Newest(<<>>, n) = <<>>
<1> DEFINE e == <<>>
<1>1. e \in Seq({}) /\ Len(e) = 0
    OBVIOUS
<1> HIDE DEF e
<1>2. Newest(e, n) \in Seq({}) /\ Len(Newest(e, n)) = IF Len(e) > n THEN n ELSE Len(e)
    BY <1>1, NewestFacts
<1>3. Newest(e, n) \in Seq({}) /\ Len(Newest(e, n)) = 0
    BY <1>1, <1>2
<1>4. Newest(e, n) = <<>>
    BY <1>3
<1>. QED BY <1>4 DEF e

-----------------------------------------------------------------------------
\* ToolServer.

CallRec == [kind : Kinds \cup {"none"}, at : {"idle", "calling", "comparing", "answered"},
            success : BOOLEAN, stats : BOOLEAN, trailer : BOOLEAN,
            stream : {"none", "running", "complete"}, wasOn : BOOLEAN]
Execution == [call : ToolCalls, success : BOOLEAN]

\* The types, those of the lists included.
ToolsType ==
    /\ toolCall \in [ToolCalls -> CallRec]
    /\ sinceReset \in Seq(Execution)
    /\ modeMetrics \in [execution : Nat, passthrough : Nat]
    /\ currentMode \in Modes /\ handlerMode = currentMode
    /\ compareMode \in BOOLEAN /\ diagMode \in {"off", "summary"}

\* What was recorded since the reset, the stored executions being the newest.
Direct(s) == {i \in DOMAIN s : toolCall[s[i].call].kind = "passthrough_call"}
RecordedInv ==
    /\ \A i, j \in DOMAIN sinceReset : sinceReset[i].call = sinceReset[j].call => i = j
    /\ \A i \in DOMAIN sinceReset :
          /\ toolCall[sinceReset[i].call].at \in {"comparing", "answered"}
          /\ sinceReset[i].success = toolCall[sinceReset[i].call].success
    /\ executions = Newest(sinceReset, MaxStoredExecutions)
    /\ modeMetrics.execution + modeMetrics.passthrough >= Len(sinceReset)
    /\ modeMetrics.passthrough >= Cardinality(Direct(sinceReset))

\* How far a call is tells how often it reached the backend.
ReachInv ==
    /\ requests \in [ToolCalls -> 0 .. MaxReach]
    /\ \A c \in ToolCalls :
          /\ toolCall[c].at \in {"idle", "calling"} => requests[c] = 0 /\ ~toolCall[c].stats /\ ~toolCall[c].success
          /\ toolCall[c].at = "calling" /\ compareMode => toolCall[c].wasOn
          /\ toolCall[c].at = "comparing" => requests[c] = 1 /\ toolCall[c].wasOn /\ ~toolCall[c].stats
    /\ ReachBounded

ToolsInv == ToolsType /\ RecordedInv /\ ReachInv

LEMMA ReachFacts ==
    /\ GatewayAttempts \in Nat /\ MaxReach \in Nat /\ MaxReach >= 2 /\ MaxReach = 1 + GatewayAttempts
    /\ MaxStoredExecutions \in Nat \ {0}
    /\ 0 \in 0 .. MaxReach /\ 1 \in 0 .. MaxReach
    /\ \A on \in BOOLEAN : 0 <= (IF on THEN MaxReach ELSE 1) /\ 1 <= (IF on THEN MaxReach ELSE 1)
<1>1. GatewayAttempts \in Nat \ {0} /\ MaxStoredExecutions \in Nat \ {0}
    BY ToolServerAssumption
<1>. QED BY <1>1 DEF MaxReach

\* Empty books.
LEMMA NothingStored ==
    ASSUME sinceReset = <<>>, executions = <<>>, modeMetrics \in [execution : Nat, passthrough : Nat]
    PROVE  RecordedInv
<1>1. Direct(sinceReset) = {}
    BY DEF Direct
<1>2. Newest(<<>>, MaxStoredExecutions) = <<>>
    BY NewestOfNone, ReachFacts
<1>3. Cardinality(Direct(sinceReset)) = 0 /\ Len(sinceReset) = 0 /\ DOMAIN sinceReset = {}
    BY <1>1, FS_EmptySet
<1>. QED BY <1>2, <1>3 DEF RecordedInv

LEMMA ToolsInit == TSInit => ToolsInv
<1> SUFFICES ASSUME TSInit PROVE ToolsInv
    OBVIOUS
<1>1. ToolsType
    <2>1. Unused \in CallRec
        BY DEF CallRec, Unused
    <2>2. <<>> \in Seq(Execution) /\ "execution" \in Modes
        BY DEF Modes
    <2>3. [execution |-> 0, passthrough |-> 0] \in [execution : Nat, passthrough : Nat]
        OBVIOUS
    <2>4. toolCall \in [ToolCalls -> CallRec]
        BY <2>1 DEF TSInit
    <2>. QED BY <2>2, <2>3, <2>4 DEF TSInit, ToolsType
<1>2. ReachInv
    BY ReachFacts DEF TSInit, ReachInv, ReachBounded, Unused
<1>3. RecordedInv
    BY NothingStored DEF TSInit
<1>. QED BY <1>1, <1>2, <1>3 DEF ToolsInv

\* A call that changes is not among the recorded ones, or changes nothing that
\* the records say.
LEMMA NothingRecorded ==
    ASSUME ToolsInv, UNCHANGED <<sinceReset, executions, modeMetrics>>,
           \A c \in ToolCalls : toolCall[c].at \in {"comparing", "answered"} =>
               /\ toolCall'[c].at \in {"comparing", "answered"}
               /\ toolCall'[c].success = toolCall[c].success
               /\ toolCall'[c].kind = toolCall[c].kind
    PROVE  RecordedInv'
<1>1. \A i \in DOMAIN sinceReset : sinceReset[i].call \in ToolCalls
    <2>1. sinceReset \in Seq(Execution)
        BY DEF ToolsInv, ToolsType
    <2>2. \A i \in DOMAIN sinceReset : sinceReset[i] \in Execution
        BY <2>1
    <2>. QED BY <2>2 DEF Execution
<1>2. RecordedInv
    BY DEF ToolsInv
<1>3. Direct(sinceReset)' = Direct(sinceReset)
    BY <1>1, <1>2 DEF Direct, RecordedInv
<1>. QED BY <1>1, <1>2, <1>3 DEF RecordedInv

\* recordExecution() of a call that was not recorded, counted by the handler.
LEMMA CallRecorded ==
    ASSUME ToolsInv, NEW c \in ToolCalls, NEW ok \in BOOLEAN, NEW which \in {"execution", "passthrough"},
           toolCall[c].at = "calling", toolCall[c].kind = "passthrough_call" => which = "passthrough",
           recordExecution(c, ok), recordCall(which),
           \A d \in ToolCalls \ {c} : toolCall'[d] = toolCall[d],
           toolCall'[c].at \in {"comparing", "answered"}, toolCall'[c].success = ok,
           toolCall'[c].kind = toolCall[c].kind
    PROVE  RecordedInv' /\ sinceReset' \in Seq(Execution) /\ modeMetrics' \in [execution : Nat, passthrough : Nat]
<1> DEFINE x == [call |-> c, success |-> ok]
           n == Len(sinceReset)
<1>0. RecordedInv /\ x \in Execution /\ x.call = c /\ x.success = ok
      /\ sinceReset \in Seq(Execution) /\ modeMetrics \in [execution : Nat, passthrough : Nat]
    BY DEF ToolsInv, ToolsType, Execution
<1>1. sinceReset' = Append(sinceReset, x)
      /\ executions' = Newest(Append(executions, x), MaxStoredExecutions)
    BY DEF recordExecution, Newest
<1> HIDE DEF x
<1>2. /\ sinceReset' \in Seq(Execution) /\ n \in Nat /\ DOMAIN sinceReset = 1 .. n /\ DOMAIN sinceReset' = 1 .. n + 1
      /\ Len(sinceReset') = n + 1
      /\ sinceReset'[n + 1] = x /\ \A i \in 1 .. n : sinceReset'[i] = sinceReset[i]
      /\ \A i \in 1 .. n : sinceReset[i] \in Execution
    BY <1>0, <1>1
<1> HIDE DEF n
<1>3. executions' = Newest(sinceReset', MaxStoredExecutions)
    BY <1>0, <1>1, NewestGoesOn, ReachFacts DEF RecordedInv
<1>4. \A i \in 1 .. n : /\ sinceReset[i].call \in ToolCalls \ {c}
                        /\ toolCall'[sinceReset[i].call] = toolCall[sinceReset[i].call]
    BY <1>0, <1>2 DEF RecordedInv, Execution
<1>5. \A i \in 1 .. n + 1 : i \in 1 .. n \/ i = n + 1
    BY <1>2
<1>6. \A i, j \in DOMAIN sinceReset' : sinceReset'[i].call = sinceReset'[j].call => i = j
    BY <1>0, <1>2, <1>4, <1>5 DEF RecordedInv
<1>7. \A i \in DOMAIN sinceReset' :
          /\ toolCall'[sinceReset'[i].call].at \in {"comparing", "answered"}
          /\ sinceReset'[i].success = toolCall'[sinceReset'[i].call].success
    BY <1>0, <1>2, <1>4, <1>5 DEF RecordedInv
<1>8. /\ modeMetrics' \in [execution : Nat, passthrough : Nat]
      /\ modeMetrics'.execution + modeMetrics'.passthrough = modeMetrics.execution + modeMetrics.passthrough + 1
      /\ modeMetrics'.passthrough = IF which = "passthrough" THEN modeMetrics.passthrough + 1 ELSE modeMetrics.passthrough
    BY <1>0 DEF recordCall
<1>9. modeMetrics'.passthrough >= Cardinality(Direct(sinceReset)')
    <2> DEFINE D == Direct(sinceReset)
    <2>1. D \subseteq 1 .. n /\ n + 1 \notin 1 .. n
        BY <1>2 DEF Direct
    <2>2. IsFiniteSet(D) /\ Cardinality(D) \in Nat
        <3>0. n \in Int /\ 1 \in Int
            BY <1>2
        <3>1. IsFiniteSet(1 .. n)
            BY <3>0, FS_Interval
        <3>2. IsFiniteSet(D)
            BY <2>1, <3>1, FS_Subset
        <3>. QED BY <3>2, FS_CardinalityType
    <2>3. Direct(sinceReset)' = IF toolCall[c].kind = "passthrough_call" THEN D \cup {n + 1} ELSE D
        <3>1. Direct(sinceReset)' = {i \in 1 .. n + 1 : toolCall'[sinceReset'[i].call].kind = "passthrough_call"}
            BY <1>2 DEF Direct
        <3>2. D = {i \in 1 .. n : toolCall'[sinceReset'[i].call].kind = "passthrough_call"}
            BY <1>2, <1>4 DEF Direct
        <3>3. 1 .. n \subseteq 1 .. n + 1 /\ n + 1 \in 1 .. n + 1
            BY <1>2
        <3> HIDE DEF D
        <3>. QED BY <1>0, <1>2, <1>5, <3>1, <3>2, <3>3
    <2> HIDE DEF D
    <2>4. Cardinality(D \cup {n + 1}) = Cardinality(D) + 1
        BY <2>1, <2>2, FS_AddElement
    <2>5. modeMetrics.passthrough >= Cardinality(D) /\ modeMetrics.passthrough \in Nat
        BY <1>0 DEF RecordedInv, D
    <2>6. CASE toolCall[c].kind = "passthrough_call"
        BY <1>8, <2>2, <2>3, <2>4, <2>5, <2>6
    <2>7. CASE toolCall[c].kind # "passthrough_call"
        BY <1>8, <2>2, <2>3, <2>5, <2>7
    <2>. QED BY <2>6, <2>7
<1>10. modeMetrics'.execution + modeMetrics'.passthrough >= Len(sinceReset')
    <2>1. modeMetrics.execution + modeMetrics.passthrough >= n
        BY <1>0 DEF RecordedInv, n
    <2>2. modeMetrics.execution + modeMetrics.passthrough \in Nat
        BY <1>0
    <2>. QED BY <1>2, <1>8, <2>1, <2>2
<1>. QED BY <1>2, <1>3, <1>6, <1>7, <1>8, <1>9, <1>10 DEF RecordedInv

\* One call changes, and what it has sent.
LEMMA OneCall ==
    ASSUME ToolsInv, NEW c \in ToolCalls, NEW r \in CallRec, NEW q \in 0 .. MaxReach,
           toolCall' = [toolCall EXCEPT ![c] = r], requests' = [requests EXCEPT ![c] = q],
           compareMode' = compareMode,
           r.at \in {"idle", "calling"} => q = 0 /\ ~r.stats /\ ~r.success,
           r.at = "calling" /\ compareMode => r.wasOn,
           r.at = "comparing" => q = 1 /\ r.wasOn /\ ~r.stats,
           r.at = "answered" => q <= (IF r.wasOn THEN MaxReach ELSE 1),
           r.at = "answered" /\ r.success /\ r.kind # "execute_code" => q >= 1,
           r.stats => r.wasOn
    PROVE  /\ ReachInv' /\ toolCall' \in [ToolCalls -> CallRec] /\ toolCall'[c] = r
           /\ \A d \in ToolCalls \ {c} : toolCall'[d] = toolCall[d]
<1>1. /\ toolCall' \in [ToolCalls -> CallRec] /\ toolCall'[c] = r
      /\ \A d \in ToolCalls \ {c} : toolCall'[d] = toolCall[d]
    BY DEF ToolsInv, ToolsType
<1>2. /\ requests' \in [ToolCalls -> 0 .. MaxReach] /\ requests'[c] = q
      /\ \A d \in ToolCalls \ {c} : requests'[d] = requests[d]
    BY DEF ToolsInv, ReachInv
<1>3. r.at \in {"idle", "calling", "comparing", "answered"}
    BY DEF CallRec
<1>4. ReachInv
    BY DEF ToolsInv
<1>5. ASSUME NEW d \in ToolCalls
      PROVE  /\ toolCall'[d].at \in {"idle", "calling"} => requests'[d] = 0 /\ ~toolCall'[d].stats /\ ~toolCall'[d].success
             /\ toolCall'[d].at = "calling" /\ compareMode => toolCall'[d].wasOn
             /\ toolCall'[d].at = "comparing" => requests'[d] = 1 /\ toolCall'[d].wasOn /\ ~toolCall'[d].stats
             /\ requests'[d] <= (IF toolCall'[d].wasOn THEN MaxReach ELSE 1)
             /\ toolCall'[d].at = "answered" /\ toolCall'[d].success /\ toolCall'[d].kind # "execute_code" => requests'[d] >= 1
             /\ toolCall'[d].stats => toolCall'[d].wasOn
    <2>1. CASE d = c
        BY <1>1, <1>2, <1>3, <2>1
    <2>2. CASE d # c
        <3>1. toolCall'[d] = toolCall[d] /\ requests'[d] = requests[d]
            BY <1>1, <1>2, <2>2
        <3>. QED BY <1>4, <3>1 DEF ReachInv, ReachBounded
    <2>. QED BY <2>1, <2>2
<1>. QED BY <1>1, <1>2, <1>5 DEF ReachInv, ReachBounded

\* What is known of a call.
LEMMA CallFacts ==
    ASSUME ToolsInv, NEW c \in ToolCalls
    PROVE  /\ toolCall[c] \in CallRec /\ requests[c] \in 0 .. MaxReach /\ requests \in [ToolCalls -> 0 .. MaxReach]
           /\ requests = [requests EXCEPT ![c] = requests[c]]
           /\ toolCall[c].at = "calling" => /\ requests[c] = 0 /\ ~toolCall[c].stats /\ ~toolCall[c].success
                                         /\ (compareMode => toolCall[c].wasOn)
           /\ toolCall[c].at = "comparing" => requests[c] = 1 /\ toolCall[c].wasOn /\ ~toolCall[c].stats
           /\ toolCall[c].at = "idle" => requests[c] = 0
BY DEF ToolsInv, ToolsType, ReachInv

\* A call that is not recorded goes on without a record.
LEMMA SilentStep ==
    ASSUME ToolsInv, NEW c \in ToolCalls, NEW r \in CallRec, NEW q \in 0 .. MaxReach,
           toolCall' = [toolCall EXCEPT ![c] = r], requests' = [requests EXCEPT ![c] = q],
           toolCall[c].at \in {"idle", "calling"}
              \/ (r.at = "answered" /\ r.success = toolCall[c].success /\ r.kind = toolCall[c].kind),
           UNCHANGED settings, NotRecorded,
           r.at \in {"idle", "calling"} => q = 0 /\ ~r.stats /\ ~r.success,
           r.at = "calling" /\ compareMode => r.wasOn,
           r.at = "comparing" => q = 1 /\ r.wasOn /\ ~r.stats,
           r.at = "answered" => q <= (IF r.wasOn THEN MaxReach ELSE 1),
           r.at = "answered" /\ r.success /\ r.kind # "execute_code" => q >= 1,
           r.stats => r.wasOn
    PROVE  ToolsInv'
<1>0. UNCHANGED <<executions, modeMetrics, sinceReset, currentMode, handlerMode, compareMode, diagMode>>
    BY DEF settings, NotRecorded
<1>1. /\ ReachInv' /\ toolCall' \in [ToolCalls -> CallRec] /\ toolCall'[c] = r
      /\ \A d \in ToolCalls \ {c} : toolCall'[d] = toolCall[d]
    BY <1>0, OneCall
<1>2. RecordedInv'
    BY <1>0, <1>1, NothingRecorded
<1>3. ToolsType'
    BY <1>0, <1>1 DEF ToolsInv, ToolsType
<1>. QED BY <1>1, <1>2, <1>3 DEF ToolsInv

\* A call that is recorded goes on.
LEMMA BookedStep ==
    ASSUME ToolsInv, NEW c \in ToolCalls, NEW r \in CallRec, NEW q \in 0 .. MaxReach,
           toolCall' = [toolCall EXCEPT ![c] = r], requests' = [requests EXCEPT ![c] = q],
           toolCall[c].at = "calling", r.at \in {"comparing", "answered"}, r.kind = toolCall[c].kind,
           NEW which \in {"execution", "passthrough"},
           r.kind = "passthrough_call" => which = "passthrough",
           recordExecution(c, r.success), recordCall(which), UNCHANGED settings,
           r.at = "comparing" => q = 1 /\ r.wasOn /\ ~r.stats,
           r.at = "answered" => q <= (IF r.wasOn THEN MaxReach ELSE 1),
           r.at = "answered" /\ r.success /\ r.kind # "execute_code" => q >= 1,
           r.stats => r.wasOn
    PROVE  ToolsInv'
<1>0. UNCHANGED <<currentMode, handlerMode, compareMode, diagMode>> /\ r.success \in BOOLEAN
    BY DEF settings, CallRec
<1>1. /\ ReachInv' /\ toolCall' \in [ToolCalls -> CallRec] /\ toolCall'[c] = r
      /\ \A d \in ToolCalls \ {c} : toolCall'[d] = toolCall[d]
    BY <1>0, OneCall
<1>2. RecordedInv' /\ sinceReset' \in Seq(Execution) /\ modeMetrics' \in [execution : Nat, passthrough : Nat]
    BY <1>0, <1>1, CallRecorded
<1>3. ToolsType'
    BY <1>0, <1>1, <1>2 DEF ToolsInv, ToolsType
<1>. QED BY <1>1, <1>2, <1>3 DEF ToolsInv

LEMMA BeginStep ==
    ASSUME ToolsInv, NEW c \in ToolCalls, NEW kind \in Kinds, NEW streamed \in BOOLEAN, Begin(c, kind, streamed)
    PROVE  ToolsInv'
<1> DEFINE r == [Unused EXCEPT !.kind = kind, !.at = "calling",
                               !.stream = IF streamed THEN "running" ELSE "none", !.wasOn = compareMode]
<1>1. r \in CallRec /\ r.at = "calling" /\ ~r.stats /\ ~r.success /\ (compareMode => r.wasOn)
    BY DEF Unused, CallRec, ToolsInv, ToolsType
<1>2. toolCall[c].at = "idle" /\ toolCall' = [toolCall EXCEPT ![c] = r] /\ UNCHANGED <<settings, requests>> /\ NotRecorded
    BY DEF Begin
<1> HIDE DEF r
<1>3. 0 \in 0 .. MaxReach /\ requests' = [requests EXCEPT ![c] = 0]
    BY <1>2, CallFacts, ReachFacts
<1>4. UNCHANGED settings
    BY <1>2
<1>. QED BY <1>1, <1>2, <1>3, <1>4, SilentStep

LEMMA RefusedStep == ASSUME ToolsInv, NEW c \in ToolCalls, passthroughRefused(c) PROVE ToolsInv'
<1> DEFINE r == [Unused EXCEPT !.kind = "passthrough_call", !.at = "answered", !.wasOn = compareMode]
<1>1. r \in CallRec /\ r.at = "answered" /\ ~r.stats /\ ~r.success
    BY DEF Unused, CallRec, ToolsInv, ToolsType, Kinds
<1>2. toolCall[c].at = "idle" /\ toolCall' = [toolCall EXCEPT ![c] = r] /\ UNCHANGED <<settings, requests>> /\ NotRecorded
    BY DEF passthroughRefused
<1> HIDE DEF r
<1>3. 0 \in 0 .. MaxReach /\ requests' = [requests EXCEPT ![c] = 0] /\ 0 <= (IF r.wasOn THEN MaxReach ELSE 1)
    BY <1>2, CallFacts, ReachFacts
<1>4. UNCHANGED settings
    BY <1>2
<1>. QED BY <1>1, <1>2, <1>3, <1>4, SilentStep

LEMMA FinaliseStep == ASSUME ToolsInv, NEW c \in ToolCalls, finaliseExecuteCodeResult(c) PROVE ToolsInv'
<1>1. PICK ok \in BOOLEAN :
          /\ recordExecution(c, ok) /\ recordCall("execution")
          /\ toolCall' = [toolCall EXCEPT ![c].at = "answered", ![c].success = ok,
                            ![c].stats = compareMode, ![c].trailer = diagMode # "off",
                            ![c].stream = IF @ = "running" THEN "complete" ELSE @]
    BY DEF finaliseExecuteCodeResult
<1> DEFINE p == toolCall[c]
           r == [p EXCEPT !.at = "answered", !.success = ok, !.stats = compareMode, !.trailer = diagMode # "off",
                          !.stream = IF @ = "running" THEN "complete" ELSE @]
<1>2. p \in CallRec /\ p.kind = "execute_code" /\ p.at = "calling" /\ compareMode \in BOOLEAN /\ UNCHANGED <<settings, requests>>
    BY CallFacts DEF finaliseExecuteCodeResult, ToolsInv, ToolsType
<1>3. toolCall' = [toolCall EXCEPT ![c] = r]
    BY <1>1
<1>4. /\ r \in CallRec /\ r.at = "answered" /\ r.success = ok /\ r.stats = compareMode
      /\ r.kind = "execute_code" /\ r.wasOn = p.wasOn
    <2> HIDE DEF p
    <2>. QED BY <1>2 DEF CallRec
<1>5. 0 \in 0 .. MaxReach /\ requests' = [requests EXCEPT ![c] = 0] /\ (compareMode => r.wasOn)
      /\ 0 <= (IF r.wasOn THEN MaxReach ELSE 1)
    BY <1>2, <1>4, CallFacts, ReachFacts
<1> HIDE DEF r
<1>6. UNCHANGED settings /\ recordExecution(c, r.success) /\ recordCall("execution")
    BY <1>1, <1>2, <1>4
<1>. QED BY <1>2, <1>3, <1>4, <1>5, <1>6, BookedStep

LEMMA ThrowsStep == ASSUME ToolsInv, NEW c \in ToolCalls, executeThrows(c) PROVE ToolsInv'
<1> DEFINE p == toolCall[c]
           r == [p EXCEPT !.at = "answered"]
<1>1. p \in CallRec /\ p.kind = "execute_code" /\ p.at = "calling" /\ UNCHANGED <<settings, requests>> /\ NotRecorded
    BY CallFacts DEF executeThrows
<1>2. toolCall' = [toolCall EXCEPT ![c] = r]
    BY DEF executeThrows
<1>3. r \in CallRec /\ r.at = "answered" /\ r.stats = p.stats /\ r.kind = "execute_code"
    <2> HIDE DEF p
    <2>. QED BY <1>1 DEF CallRec
<1>4. 0 \in 0 .. MaxReach /\ requests' = [requests EXCEPT ![c] = 0] /\ 0 <= (IF r.wasOn THEN MaxReach ELSE 1) /\ ~p.stats
    BY <1>1, CallFacts, ReachFacts
<1> HIDE DEF r
<1>5. UNCHANGED settings
    BY <1>1
<1>. QED BY <1>1, <1>2, <1>3, <1>4, <1>5, SilentStep

\* The backend has answered a direct call: it is answered, or compared.
LEMMA DirectAnswer ==
    ASSUME ToolsInv, NEW c \in ToolCalls, toolCall[c].at = "calling",
           requests' = [requests EXCEPT ![c] = @ + 1],
           \/ compareMode /\ toolCall' = [toolCall EXCEPT ![c].at = "comparing", ![c].success = TRUE]
           \/ Answer(c, TRUE, FALSE)
           \/ toolCall' = [toolCall EXCEPT ![c].at = "answered", ![c].success = TRUE]
    PROVE  \E r \in CallRec, q \in 0 .. MaxReach :
              /\ toolCall' = [toolCall EXCEPT ![c] = r] /\ q = 1 /\ requests' = [requests EXCEPT ![c] = q]
              /\ r.kind = toolCall[c].kind /\ r.at \in {"comparing", "answered"} /\ r.success
              /\ r.at = "comparing" => r.wasOn
              /\ ~r.stats /\ q <= (IF r.wasOn THEN MaxReach ELSE 1)
<1> DEFINE p == toolCall[c]
<1>1. /\ p \in CallRec /\ p.at = "calling" /\ ~p.stats /\ (compareMode => p.wasOn)
      /\ 1 \in 0 .. MaxReach /\ requests' = [requests EXCEPT ![c] = 1]
    <2>1. requests[c] + 1 = 1
        BY CallFacts
    <2>2. requests' = [requests EXCEPT ![c] = 1]
        BY <2>1
    <2>3. p \in CallRec /\ p.at = "calling" /\ ~p.stats /\ (compareMode => p.wasOn)
        BY CallFacts
    <2>4. 1 \in 0 .. MaxReach
        BY ReachFacts
    <2>. QED BY <2>2, <2>3, <2>4
<1>2. CASE compareMode /\ toolCall' = [toolCall EXCEPT ![c].at = "comparing", ![c].success = TRUE]
    <2> DEFINE r == [p EXCEPT !.at = "comparing", !.success = TRUE]
    <2>1. toolCall' = [toolCall EXCEPT ![c] = r]
        BY <1>2
    <2>2. r \in CallRec /\ r.kind = p.kind /\ r.at = "comparing" /\ r.success /\ r.wasOn = p.wasOn /\ r.stats = p.stats
        <3> HIDE DEF p
        <3>. QED BY <1>1 DEF CallRec
    <2>3. 1 <= (IF r.wasOn THEN MaxReach ELSE 1)
        BY ReachFacts
    <2> HIDE DEF r
    <2>. QED BY <1>1, <1>2, <2>1, <2>2, <2>3
<1>3. CASE Answer(c, TRUE, FALSE)
    <2> DEFINE t == diagMode # "off"
               r == [p EXCEPT !.at = "answered", !.success = TRUE, !.stats = FALSE, !.trailer = t]
    <2>1. toolCall' = [toolCall EXCEPT ![c] = r]
        BY <1>3 DEF Answer
    <2>2. r \in CallRec /\ r.kind = p.kind /\ r.at = "answered" /\ r.success /\ ~r.stats
        <3>1. t \in BOOLEAN
            OBVIOUS
        <3> HIDE DEF p, t
        <3>. QED BY <1>1, <3>1 DEF CallRec
    <2>3. 1 <= (IF r.wasOn THEN MaxReach ELSE 1)
        BY ReachFacts
    <2> HIDE DEF r
    <2>. QED BY <1>1, <2>1, <2>2, <2>3
<1>4. CASE toolCall' = [toolCall EXCEPT ![c].at = "answered", ![c].success = TRUE]
    <2> DEFINE r == [p EXCEPT !.at = "answered", !.success = TRUE]
    <2>1. toolCall' = [toolCall EXCEPT ![c] = r]
        BY <1>4
    <2>2. r \in CallRec /\ r.kind = p.kind /\ r.at = "answered" /\ r.success /\ r.stats = p.stats
        <3> HIDE DEF p
        <3>. QED BY <1>1 DEF CallRec
    <2>3. 1 <= (IF r.wasOn THEN MaxReach ELSE 1)
        BY ReachFacts
    <2> HIDE DEF r
    <2>. QED BY <1>1, <2>1, <2>2, <2>3
<1>. QED BY <1>2, <1>3, <1>4

\* A direct call fails, whether or not it reached the backend.
LEMMA DirectFailure ==
    ASSUME ToolsInv, NEW c \in ToolCalls, toolCall[c].at = "calling",
           \E reached \in {0, 1} : requests' = [requests EXCEPT ![c] = @ + reached],
           toolCall' = [toolCall EXCEPT ![c].at = "answered"]
    PROVE  \E r \in CallRec, q \in 0 .. MaxReach :
              /\ toolCall' = [toolCall EXCEPT ![c] = r] /\ requests' = [requests EXCEPT ![c] = q]
              /\ r.kind = toolCall[c].kind /\ r.at = "answered" /\ ~r.success
              /\ ~r.stats /\ q <= (IF r.wasOn THEN MaxReach ELSE 1)
<1> DEFINE p == toolCall[c]
           r == [p EXCEPT !.at = "answered"]
<1>1. PICK q \in {0, 1} : requests' = [requests EXCEPT ![c] = @ + q]
    OBVIOUS
<1>2. p \in CallRec /\ ~p.stats /\ ~p.success /\ q \in 0 .. MaxReach /\ requests' = [requests EXCEPT ![c] = q]
    <2>1. requests[c] + q = q
        BY CallFacts
    <2>2. requests' = [requests EXCEPT ![c] = q]
        BY <1>1, <2>1
    <2>3. p \in CallRec /\ ~p.stats /\ ~p.success
        BY CallFacts
    <2>4. q \in 0 .. MaxReach
        BY ReachFacts
    <2> HIDE DEF p
    <2>. QED BY <2>2, <2>3, <2>4
<1>3. toolCall' = [toolCall EXCEPT ![c] = r]
    OBVIOUS
<1>4. r \in CallRec /\ r.kind = p.kind /\ r.at = "answered" /\ r.success = p.success /\ r.stats = p.stats
    <2> HIDE DEF p
    <2>. QED BY <1>2 DEF CallRec
<1>5. q <= (IF r.wasOn THEN MaxReach ELSE 1)
    BY ReachFacts
<1> HIDE DEF r
<1>. QED BY <1>2, <1>3, <1>4, <1>5

LEMMA PassthroughStep == ASSUME ToolsInv, NEW c \in ToolCalls, passthroughReturns(c) PROVE ToolsInv'
<1>1. /\ toolCall[c].at = "calling" /\ toolCall[c].kind = "passthrough_call"
      /\ requests' = [requests EXCEPT ![c] = @ + 1]
      /\ recordExecution(c, TRUE) /\ recordCall("passthrough") /\ UNCHANGED settings
      /\ \/ compareMode /\ toolCall' = [toolCall EXCEPT ![c].at = "comparing", ![c].success = TRUE]
         \/ Answer(c, TRUE, FALSE)
    BY DEF passthroughReturns
<1>2. PICK r \in CallRec, q \in 0 .. MaxReach :
              /\ toolCall' = [toolCall EXCEPT ![c] = r] /\ q = 1 /\ requests' = [requests EXCEPT ![c] = q]
              /\ r.kind = toolCall[c].kind /\ r.at \in {"comparing", "answered"} /\ r.success
              /\ r.at = "comparing" => r.wasOn
              /\ ~r.stats /\ q <= (IF r.wasOn THEN MaxReach ELSE 1)
    BY <1>1, DirectAnswer
<1>3. r.success = TRUE /\ q >= 1
    BY <1>2 DEF CallRec
<1>. QED BY <1>1, <1>2, <1>3, BookedStep

LEMMA PassthroughFailsStep == ASSUME ToolsInv, NEW c \in ToolCalls, passthroughFails(c) PROVE ToolsInv'
<1>1. /\ toolCall[c].at = "calling" /\ toolCall[c].kind = "passthrough_call"
      /\ \E reached \in {0, 1} : requests' = [requests EXCEPT ![c] = @ + reached]
      /\ recordExecution(c, FALSE) /\ recordCall("passthrough") /\ UNCHANGED settings
      /\ toolCall' = [toolCall EXCEPT ![c].at = "answered"]
    BY DEF passthroughFails
<1>2. PICK r \in CallRec, q \in 0 .. MaxReach :
              /\ toolCall' = [toolCall EXCEPT ![c] = r] /\ requests' = [requests EXCEPT ![c] = q]
              /\ r.kind = toolCall[c].kind /\ r.at = "answered" /\ ~r.success
              /\ ~r.stats /\ q <= (IF r.wasOn THEN MaxReach ELSE 1)
    BY <1>1, DirectFailure
<1>3. r.success = FALSE
    BY <1>2 DEF CallRec
<1>. QED BY <1>1, <1>2, <1>3, BookedStep

\* The registered tools: the same without records.
LEMMA UnbookedStep ==
    ASSUME ToolsInv, NEW c \in ToolCalls, passthroughToolReturns(c) \/ braveReturns(c) PROVE ToolsInv'
<1>1. /\ toolCall[c].at = "calling"
      /\ requests' = [requests EXCEPT ![c] = @ + 1] /\ UNCHANGED settings /\ NotRecorded
      /\ \/ compareMode /\ toolCall' = [toolCall EXCEPT ![c].at = "comparing", ![c].success = TRUE]
         \/ Answer(c, TRUE, FALSE)
         \/ toolCall' = [toolCall EXCEPT ![c].at = "answered", ![c].success = TRUE]
    BY DEF passthroughToolReturns, braveReturns
<1>2. PICK r \in CallRec, q \in 0 .. MaxReach :
              /\ toolCall' = [toolCall EXCEPT ![c] = r] /\ q = 1 /\ requests' = [requests EXCEPT ![c] = q]
              /\ r.kind = toolCall[c].kind /\ r.at \in {"comparing", "answered"} /\ r.success
              /\ r.at = "comparing" => r.wasOn
              /\ ~r.stats /\ q <= (IF r.wasOn THEN MaxReach ELSE 1)
    BY <1>1, DirectAnswer
<1>3. q >= 1
    BY <1>2
<1>. QED BY <1>1, <1>2, <1>3, SilentStep

LEMMA HubCallFailsStep == ASSUME ToolsInv, NEW c \in ToolCalls, hubCallFails(c) PROVE ToolsInv'
<1>1. /\ toolCall[c].at = "calling" /\ UNCHANGED settings /\ NotRecorded
      /\ \E reached \in {0, 1} : requests' = [requests EXCEPT ![c] = @ + reached]
      /\ toolCall' = [toolCall EXCEPT ![c].at = "answered"]
    BY DEF hubCallFails
<1>2. PICK r \in CallRec, q \in 0 .. MaxReach :
              /\ toolCall' = [toolCall EXCEPT ![c] = r] /\ requests' = [requests EXCEPT ![c] = q]
              /\ r.kind = toolCall[c].kind /\ r.at = "answered" /\ ~r.success
              /\ ~r.stats /\ q <= (IF r.wasOn THEN MaxReach ELSE 1)
    BY <1>1, DirectFailure
<1>. QED BY <1>1, <1>2, SilentStep

LEMMA CompareStep == ASSUME ToolsInv, NEW c \in ToolCalls, runCompareExecuteCode(c) PROVE ToolsInv'
<1> DEFINE p == toolCall[c]
           t == diagMode # "off"
           r == [p EXCEPT !.at = "answered", !.success = p.success, !.stats = TRUE, !.trailer = t]
<1>1. PICK reached \in 0 .. GatewayAttempts : requests' = [requests EXCEPT ![c] = @ + reached]
    BY DEF runCompareExecuteCode
<1>2. p \in CallRec /\ p.at = "comparing" /\ p.wasOn /\ requests[c] = 1 /\ UNCHANGED settings /\ NotRecorded
    BY CallFacts DEF runCompareExecuteCode
<1>3. PICK q \in 1 .. MaxReach : requests' = [requests EXCEPT ![c] = q]
    <2>1. requests[c] + reached \in 1 .. MaxReach
        BY <1>2, ReachFacts
    <2>. QED BY <1>1, <2>1
<1>4. toolCall' = [toolCall EXCEPT ![c] = r]
    BY DEF runCompareExecuteCode, Answer
<1>5. r \in CallRec /\ r.at = "answered" /\ r.success = p.success /\ r.kind = p.kind /\ r.stats /\ r.wasOn
    <2>1. t \in BOOLEAN
        OBVIOUS
    <2> HIDE DEF p, t
    <2>. QED BY <1>2, <2>1 DEF CallRec
<1>6. q \in 0 .. MaxReach /\ q >= 1 /\ q <= (IF r.wasOn THEN MaxReach ELSE 1)
    BY <1>5, ReachFacts
<1> HIDE DEF r
<1>. QED BY <1>2, <1>3, <1>4, <1>5, <1>6, SilentStep

\* The switches, and the reset.
LEMMA SwitchStep ==
    ASSUME ToolsInv, \/ \E m \in Modes : set_mode(m)
                     \/ \E m \in {"off", "summary"} : set_diag_mode(m)
    PROVE  ToolsInv'
<1>1. /\ UNCHANGED <<toolCall, compareMode, requests, executions, modeMetrics, sinceReset>>
      /\ currentMode' \in Modes /\ handlerMode' = currentMode' /\ diagMode' \in {"off", "summary"}
    BY DEF set_mode, set_diag_mode, NotRecorded, ToolsInv, ToolsType
<1>2. ToolsType'
    BY <1>1 DEF ToolsInv, ToolsType
<1>3. RecordedInv'
    BY <1>1, NothingRecorded
<1>4. ReachInv'
    BY <1>1 DEF ToolsInv, ReachInv, ReachBounded
<1>. QED BY <1>2, <1>3, <1>4 DEF ToolsInv

LEMMA CompareModeStep == ASSUME ToolsInv, NEW on \in BOOLEAN, set_compare_mode(on) PROVE ToolsInv'
<1>1. /\ UNCHANGED <<currentMode, handlerMode, diagMode, requests, executions, modeMetrics, sinceReset>>
      /\ compareMode' = on
      /\ toolCall' = [c \in ToolCalls |-> IF toolCall[c].at \in {"calling", "comparing"}
                        THEN [toolCall[c] EXCEPT !.wasOn = @ \/ on] ELSE toolCall[c]]
    BY DEF set_compare_mode, NotRecorded
<1>2. ASSUME NEW c \in ToolCalls
      PROVE  LET p == toolCall[c] r == toolCall'[c]
             IN  /\ r \in CallRec /\ r.at = p.at /\ r.success = p.success /\ r.kind = p.kind /\ r.stats = p.stats
                 /\ p.wasOn => r.wasOn
                 /\ p.at \notin {"calling", "comparing"} => r.wasOn = p.wasOn
                 /\ p.at = "calling" /\ on => r.wasOn
    <2> DEFINE p == toolCall[c]
               w == p.wasOn \/ on
    <2>1. p \in CallRec /\ w \in BOOLEAN
        BY CallFacts
    <2>2. toolCall'[c] = IF p.at \in {"calling", "comparing"} THEN [p EXCEPT !.wasOn = w] ELSE p
        BY <1>1
    <2>3. LET r == [p EXCEPT !.wasOn = w]
          IN  r \in CallRec /\ r.at = p.at /\ r.success = p.success /\ r.kind = p.kind /\ r.stats = p.stats /\ r.wasOn = w
        <3> HIDE DEF p, w
        <3>. QED BY <2>1 DEF CallRec
    <2>. QED BY <2>1, <2>2, <2>3
<1>3. toolCall' \in [ToolCalls -> CallRec]
    BY <1>1, <1>2
<1>4. ToolsType'
    BY <1>1, <1>3 DEF ToolsInv, ToolsType
<1>5. RecordedInv'
    BY <1>1, <1>2, NothingRecorded
<1>6. ReachInv'
    BY <1>1, <1>2 DEF ToolsInv, ReachInv, ReachBounded
<1>. QED BY <1>4, <1>5, <1>6 DEF ToolsInv

LEMMA ResetStep == ASSUME ToolsInv, get_metrics_reset PROVE ToolsInv'
<1>1. /\ UNCHANGED <<toolCall, currentMode, handlerMode, compareMode, diagMode, modeMetrics, requests>>
      /\ executions' = <<>> /\ sinceReset' = <<>> /\ modeMetrics \in [execution : Nat, passthrough : Nat]
    BY DEF get_metrics_reset, settings, ToolsInv, ToolsType
<1>2. ToolsType'
    BY <1>1 DEF ToolsInv, ToolsType
<1>3. RecordedInv'
    <2>1. (sinceReset = <<>> /\ executions = <<>> /\ modeMetrics \in [execution : Nat, passthrough : Nat])'
        BY <1>1
    <2>2. (sinceReset = <<>> /\ executions = <<>> /\ modeMetrics \in [execution : Nat, passthrough : Nat])' => RecordedInv'
        BY NothingStored, PTL
    <2>. QED BY <2>1, <2>2
<1>4. ReachInv'
    BY <1>1 DEF ToolsInv, ReachInv, ReachBounded
<1>. QED BY <1>2, <1>3, <1>4 DEF ToolsInv

LEMMA ToolsStep == ASSUME ToolsInv, [TSNext]_tsVars PROVE ToolsInv'
<1>1. ASSUME NEW c \in ToolCalls, execute_code(c) \/ passthrough_call(c) \/ passthroughTool(c) \/ brave_web_search(c)
      PROVE  ToolsInv'
    <2>1. \E kind \in Kinds, streamed \in BOOLEAN : Begin(c, kind, streamed)
        BY <1>1 DEF execute_code, passthrough_call, passthroughTool, brave_web_search, Kinds
    <2>. QED BY <2>1, BeginStep
<1>2. CASE UNCHANGED tsVars
    <2>1. UNCHANGED <<toolCall, executions, modeMetrics, currentMode, handlerMode, compareMode, diagMode, requests, sinceReset>>
        BY <1>2 DEF tsVars
    <2>2. RecordedInv'
        BY <2>1, NothingRecorded
    <2>. QED BY <2>1, <2>2 DEF ToolsInv, ToolsType, ReachInv, ReachBounded
<1>. QED BY <1>1, <1>2, RefusedStep, FinaliseStep, ThrowsStep, PassthroughStep, PassthroughFailsStep, UnbookedStep,
            HubCallFailsStep, CompareStep, SwitchStep, CompareModeStep, ResetStep DEF TSNext

\* The stored executions are the newest of the recorded ones.
LEMMA ImpliesTSInv == ToolsInv => TSInv
<1> SUFFICES ASSUME ToolsInv PROVE TSInv
    OBVIOUS
<1> DEFINE s == sinceReset
           e == executions
           l == Len(s)
           m == Len(e)
           d == l - m
<1>1. /\ e = Newest(s, MaxStoredExecutions) /\ s \in Seq(Execution) /\ RecordedInv /\ ReachInv /\ ToolsType
      /\ MaxStoredExecutions \in Nat
    BY ReachFacts DEF ToolsInv, ToolsType, RecordedInv
<1>2. /\ e \in Seq(Execution) /\ m = (IF l > MaxStoredExecutions THEN MaxStoredExecutions ELSE l)
      /\ l \in Nat /\ \A i \in 1 .. m : e[i] = s[l - m + i]
    <2> DEFINE t == Newest(s, MaxStoredExecutions)
    <2> HIDE DEF s, e
    <2>1. /\ t \in Seq(Execution) /\ Len(t) = (IF l > MaxStoredExecutions THEN MaxStoredExecutions ELSE l)
          /\ \A i \in 1 .. Len(t) : t[i] = s[l - Len(t) + i]
        BY <1>1, NewestFacts
    <2>2. l \in Nat
        BY <1>1
    <2>. QED BY <1>1, <2>1, <2>2
<1>3. DOMAIN s = 1 .. l /\ DOMAIN e = 1 .. m /\ m \in Nat /\ m <= l /\ d \in Nat /\ m <= MaxStoredExecutions
    BY <1>1, <1>2
<1>4. \A i \in 1 .. m : d + i \in 1 .. l /\ e[i] = s[d + i]
    <2>1. \A i \in 1 .. m : d + i \in 1 .. l /\ l - m + i = d + i
        BY <1>2, <1>3
    <2>. QED BY <1>2, <2>1
<1>5. \A i, j \in 1 .. m : d + i = d + j => i = j
    BY <1>3
<1> HIDE DEF d
<1>6. TSTypeOK
    <2>1. \A c \in ToolCalls : toolCall[c].kind \in Kinds \cup {"none"}
        BY <1>1 DEF ToolsType, CallRec
    <2>. QED BY <1>1, <1>3, <2>1 DEF TSTypeOK, ToolsType, ReachInv
<1>7. e = SubSeq(s, l - m + 1, l)
    <2>1. (IF l > MaxStoredExecutions THEN l - MaxStoredExecutions + 1 ELSE 1) = l - m + 1
        BY <1>1, <1>2
    <2>. QED BY <1>1, <2>1 DEF Newest
<1>8. m = MaxStoredExecutions \/ e = s
    <2>1. CASE l > MaxStoredExecutions
        BY <1>2, <2>1
    <2>2. CASE ~(l > MaxStoredExecutions)
        <3>1. m = l /\ \A i \in 1 .. m : l - m + i = i
            BY <1>2, <1>3, <2>2
        <3>2. \A i \in 1 .. m : e[i] = s[i]
            BY <1>2, <3>1
        <3>. QED BY <1>1, <1>2, <3>1, <3>2, SameLists
    <2>. QED BY <2>1, <2>2
<1>9. modeMetrics.passthrough >= passthroughModeCount
    <2> DEFINE P == {i \in 1 .. m : toolCall[e[i].call].kind = "passthrough_call"}
               D == Direct(s)
               f == [i \in P |-> d + i]
    <2>1. D = {i \in 1 .. l : toolCall[s[i].call].kind = "passthrough_call"}
        BY <1>3 DEF Direct
    <2>2. IsFiniteSet(D) /\ Cardinality(D) \in Nat
        <3>1. IsFiniteSet(1 .. l)
            BY <1>2, FS_Interval
        <3>2. IsFiniteSet(D)
            BY <2>1, <3>1, FS_Subset
        <3>. QED BY <3>2, FS_CardinalityType
    <2>3. f \in [P -> D] /\ \A i, j \in P : f[i] = f[j] => i = j
        BY <1>4, <1>5, <2>1
    <2>4. Cardinality(P) <= Cardinality(D) /\ Cardinality(P) \in Nat
        <3>1. f \in Injection(P, D)
            <4> HIDE DEF f, P, D
            <4>. QED BY <2>3 DEF Injection, IsInjective
        <3> HIDE DEF f, P, D
        <3>. QED BY <2>2, <3>1, FS_Injection, FS_CardinalityType
    <2>5. passthroughModeCount = Cardinality(P)
        BY <1>3 DEF passthroughModeCount
    <2>6. modeMetrics.passthrough >= Cardinality(D) /\ modeMetrics.passthrough \in Nat
        BY <1>1 DEF RecordedInv, ToolsType
    <2> HIDE DEF P, D
    <2>. QED BY <2>2, <2>4, <2>5, <2>6
<1>10. \A i, j \in DOMAIN e : e[i].call = e[j].call => i = j
    <2> SUFFICES ASSUME NEW i \in 1 .. m, NEW j \in 1 .. m, e[i].call = e[j].call PROVE i = j
        BY <1>3
    <2>1. d + i = d + j
        <3> DEFINE a == d + i
                   b == d + j
        <3>1. a \in DOMAIN s /\ b \in DOMAIN s /\ s[a] = e[i] /\ s[b] = e[j]
            BY <1>3, <1>4
        <3> HIDE DEF a, b
        <3>2. a = b
            BY <1>1, <3>1 DEF RecordedInv
        <3>. QED BY <3>2 DEF a, b
    <2>. QED BY <1>5, <2>1
<1>11. \A i \in DOMAIN e :
          /\ toolCall[e[i].call].at \in {"comparing", "answered"}
          /\ e[i].success = toolCall[e[i].call].success
    BY <1>1, <1>3, <1>4 DEF RecordedInv
<1>12. BooksAgree
    BY <1>1, <1>7, <1>8, <1>9, <1>10, <1>11 DEF BooksAgree, totalExecutions, RecordedInv, ToolsType
<1>. QED BY <1>1, <1>6, <1>12 DEF TSInv, ReachInv

-----------------------------------------------------------------------------
\* CallPath.

CallState == [at : {"idle", "tokenized", "looking", "gateway", "storing", "answered"},
              from : {"nowhere", "tokens", "cache", "backend", "error"}, began : BOOLEAN]
Sample == [call : BridgeCalls, expired : BOOLEAN]

PathType ==
    /\ bridgeCall \in [BridgeCalls -> CallState]
    /\ entry \in {"none", "fresh", "stale"}
    /\ redacts \in BOOLEAN /\ wouldCache \in BOOLEAN /\ refreshing \in BOOLEAN
    /\ hotSamples \in Seq(Sample)
    /\ sampled \in Seq(BridgeCalls)

\* Where a call is, who answers it, and whether it was sampled.
Fine(r, seen) ==
    /\ r.at # "answered" => r.from = "nowhere"
    /\ r.at = "tokenized" => r.began
    /\ r.at \in {"looking", "gateway", "storing"} => ~r.began
    /\ r.at \in {"idle", "tokenized", "looking", "gateway"} => ~seen
    /\ r.at = "storing" => seen
    /\ r.from \in {"tokens", "backend"} => seen
    /\ r.from = "cache" => ~seen
    /\ r.at = "answered" => IF r.began THEN r.from \in {"tokens", "error"}
                                       ELSE r.from \in {"cache", "backend", "error"}
AnsweredInv == \A c \in BridgeCalls : Fine(bridgeCall[c], c \in Elements(sampled))

\* The profiler has the newest samples, the expired ones first.
HotInv ==
    /\ Len(hotSamples) <= Len(sampled) /\ Len(hotSamples) <= MaxSamplesPerBucket
    /\ \A i \in DOMAIN hotSamples : hotSamples[i].call = sampled[Len(sampled) - Len(hotSamples) + i]
    /\ \A i, j \in DOMAIN hotSamples : i < j /\ hotSamples[j].expired => hotSamples[i].expired

SeenInv ==
    /\ Once(sampled)
    /\ anomalyCount = Len(sampled)
    /\ costSamples = Newest(sampled, MaxSamplesPerBucket)
    /\ HotInv

PathInv == PathType /\ AnsweredInv /\ SeenInv

LEMMA PathInit == CPathInit => PathInv
<1> SUFFICES ASSUME CPathInit PROVE PathInv
    OBVIOUS
<1> DEFINE r == [at |-> "idle", from |-> "nowhere", began |-> FALSE]
<1>1. r \in CallState /\ r.at = "idle" /\ r.from = "nowhere"
    BY DEF CallState
<1>2. bridgeCall = [c \in BridgeCalls |-> r]
    BY DEF CPathInit
<1> HIDE DEF r
<1>3. sampled = <<>> /\ hotSamples = <<>> /\ costSamples = <<>> /\ anomalyCount = 0 /\ Elements(sampled) = {}
    BY DEF CPathInit, Elements
<1>4. PathType
    <2>1. entry = "none"
        BY DEF CPathInit
    <2>2. <<>> \in Seq(Sample) /\ <<>> \in Seq(BridgeCalls)
        OBVIOUS
    <2>3. bridgeCall \in [BridgeCalls -> CallState]
        BY <1>1, <1>2
    <2>. QED BY <1>3, <2>1, <2>2, <2>3 DEF PathType, CPathInit
<1>5. AnsweredInv
    BY <1>1, <1>2, <1>3 DEF AnsweredInv, Fine
<1>6. SeenInv
    <2>1. Newest(<<>>, MaxSamplesPerBucket) = <<>>
        <3>1. MaxSamplesPerBucket \in Nat
            BY CallPathAssumption
        <3>. QED BY <3>1, NewestOfNone
    <2>2. Len(<<>>) = 0 /\ DOMAIN <<>> = {} /\ 0 <= MaxSamplesPerBucket
        BY CallPathAssumption
    <2>. QED BY <1>3, <2>1, <2>2 DEF SeenInv, HotInv, Once
<1>. QED BY <1>4, <1>5, <1>6 DEF PathInv

\* record() of the three, for a call that none of them has seen.
LEMMA Observation ==
    ASSUME PathInv, NEW c \in BridgeCalls, c \notin Elements(sampled), Observed(c)
    PROVE  /\ SeenInv' /\ sampled' \in Seq(BridgeCalls) /\ hotSamples' \in Seq(Sample)
           /\ Elements(sampled') = Elements(sampled) \cup {c}
<1> DEFINE x == [call |-> c, expired |-> FALSE]
           n == MaxSamplesPerBucket
           q == Append(hotSamples, x)
           h == Len(hotSamples)
           l == Len(sampled)
<1>1. /\ hotSamples' = Newest(q, n) /\ anomalyCount' = anomalyCount + 1
      /\ costSamples' = Newest(Append(costSamples, c), n) /\ sampled' = Append(sampled, c)
    BY DEF Observed, recordHot, recordAnomaly, recordCost
<1>2. /\ sampled \in Seq(BridgeCalls) /\ hotSamples \in Seq(Sample) /\ x \in Sample /\ x.call = c /\ ~x.expired
      /\ n \in Nat \ {0} /\ SeenInv /\ HotInv
    BY CallPathAssumption DEF PathInv, PathType, SeenInv, Sample
<1> HIDE DEF x, n
<1>3. /\ sampled' \in Seq(BridgeCalls) /\ Len(sampled') = l + 1 /\ Elements(sampled') = Elements(sampled) \cup {c}
      /\ Once(sampled') /\ l \in Nat
    <2>1. Once(sampled)
        BY <1>2 DEF SeenInv
    <2>. QED BY <1>1, <1>2, <2>1, AppendFacts
<1>4. anomalyCount' = Len(sampled') /\ costSamples' = Newest(sampled', n)
    BY <1>1, <1>2, <1>3, NewestGoesOn DEF SeenInv, n
<1>5. /\ q \in Seq(Sample) /\ Len(q) = h + 1 /\ q[h + 1] = x /\ \A i \in 1 .. h : q[i] = hotSamples[i]
      /\ h \in Nat /\ DOMAIN hotSamples = 1 .. h
    BY <1>2
<1>6. \A i \in 1 .. l : sampled'[i] = sampled[i]
    BY <1>1, <1>2
<1>7. sampled'[l + 1] = c
    BY <1>1, <1>2
<1> HIDE DEF q, h, l
<1>8. h <= l /\ h <= n
    BY <1>2 DEF HotInv, h, l, n
<1>9. \A i \in 1 .. h + 1 : q[i].call = sampled'[l - h + i]
    <2> SUFFICES ASSUME NEW i \in 1 .. h + 1 PROVE q[i].call = sampled'[l - h + i]
        OBVIOUS
    <2>1. CASE i = h + 1
        <3>1. l - h + i = l + 1
            BY <1>3, <1>5, <2>1
        <3>. QED BY <1>2, <1>5, <1>7, <2>1, <3>1
    <2>2. CASE i # h + 1
        <3> DEFINE k == l - h + i
        <3>1. i \in 1 .. h /\ k \in 1 .. l
            BY <1>3, <1>5, <1>8, <2>2
        <3>2. hotSamples[i].call = sampled[k]
            BY <1>2, <1>5, <3>1 DEF HotInv, h, l
        <3> HIDE DEF k
        <3>3. q[i].call = sampled'[k]
            BY <1>5, <1>6, <3>1, <3>2
        <3>. QED BY <3>3 DEF k
    <2>. QED BY <2>1, <2>2
<1>10. \A i, j \in 1 .. h + 1 : i < j /\ q[j].expired => q[i].expired
    <2> SUFFICES ASSUME NEW i \in 1 .. h + 1, NEW j \in 1 .. h + 1, i < j, q[j].expired PROVE q[i].expired
        OBVIOUS
    <2>1. j # h + 1
        BY <1>2, <1>5
    <2>2. i \in 1 .. h /\ j \in 1 .. h
        BY <1>5, <2>1
    <2>. QED BY <1>2, <1>5, <2>2 DEF HotInv
<1> DEFINE t == Newest(q, n)
           m == Len(t)
           d == h + 1 - m
<1>11. /\ t \in Seq(Sample) /\ m = (IF Len(q) > n THEN n ELSE Len(q))
       /\ \A i \in 1 .. m : t[i] = q[Len(q) - m + i]
    BY <1>2, <1>5, NewestFacts
<1>12. m \in Nat /\ m <= h + 1 /\ m <= n /\ d \in Nat /\ DOMAIN t = 1 .. m /\ Len(q) - m = d
    BY <1>2, <1>5, <1>11
<1> HIDE DEF t, m
<1>13. \A i \in 1 .. m : d + i \in 1 .. h + 1 /\ t[i] = q[d + i]
    BY <1>5, <1>11, <1>12
<1>14. ASSUME NEW i \in 1 .. m PROVE t[i].call = sampled'[(l + 1) - m + i]
    <2>1. t[i].call = sampled'[l - h + (d + i)]
        BY <1>9, <1>13
    <2>2. l - h + (d + i) = (l + 1) - m + i
        BY <1>3, <1>5, <1>12
    <2>. QED BY <2>1, <2>2
<1>15. ASSUME NEW i \in 1 .. m, NEW j \in 1 .. m, i < j, t[j].expired PROVE t[i].expired
    <2>1. d + i < d + j /\ d + i \in 1 .. h + 1 /\ d + j \in 1 .. h + 1
        BY <1>12, <1>13, <1>15
    <2>. QED BY <1>10, <1>13, <1>15, <2>1
<1>16. HotInv'
    <2>1. hotSamples' = t /\ Len(hotSamples') = m /\ DOMAIN hotSamples' = 1 .. m
        BY <1>1, <1>12 DEF t, m
    <2>2. m <= l + 1
        BY <1>3, <1>5, <1>8, <1>12
    <2>. QED BY <1>3, <1>12, <1>14, <1>15, <2>1, <2>2 DEF HotInv, n
<1>. QED BY <1>1, <1>3, <1>4, <1>11, <1>16 DEF SeenInv, n, t

\* A call goes on; of the others it changes nothing.
LEMMA OnePathCall ==
    ASSUME PathInv, NEW c \in BridgeCalls, NEW r \in CallState, bridgeCall' = [bridgeCall EXCEPT ![c] = r],
           \A d \in BridgeCalls \ {c} : d \in Elements(sampled)' <=> d \in Elements(sampled),
           Fine(r, c \in Elements(sampled)')
    PROVE  AnsweredInv' /\ bridgeCall' \in [BridgeCalls -> CallState]
<1>1. /\ bridgeCall' \in [BridgeCalls -> CallState] /\ bridgeCall'[c] = r
      /\ \A d \in BridgeCalls \ {c} : bridgeCall'[d] = bridgeCall[d]
    BY DEF PathInv, PathType
<1>2. ASSUME NEW d \in BridgeCalls PROVE Fine(bridgeCall'[d], d \in Elements(sampled)')
    <2>1. CASE d = c
        BY <1>1, <2>1
    <2>2. CASE d # c
        <3>1. Fine(bridgeCall[d], d \in Elements(sampled)) /\ bridgeCall'[d] = bridgeCall[d]
              /\ (d \in Elements(sampled)' <=> d \in Elements(sampled))
            BY <1>1, <2>2 DEF PathInv, AnsweredInv
        <3>. QED BY <3>1 DEF Fine
    <2>. QED BY <2>1, <2>2
<1>. QED BY <1>1, <1>2 DEF AnsweredInv

\* Nobody records anything.
LEMMA NobodyLooks == ASSUME PathInv, NotObserved PROVE SeenInv' /\ UNCHANGED <<sampled, hotSamples>>
BY DEF PathInv, NotObserved, SeenInv, HotInv

\* What is known of a call.
LEMMA PathCallFacts ==
    ASSUME PathInv, NEW c \in BridgeCalls
    PROVE  /\ bridgeCall[c] \in CallState /\ Fine(bridgeCall[c], c \in Elements(sampled))
           /\ \A at \in {"idle", "tokenized", "looking", "gateway", "storing", "answered"},
                 from \in {"nowhere", "tokens", "cache", "backend", "error"} :
                 LET r == [bridgeCall[c] EXCEPT !.at = at, !.from = from]
                 IN  r \in CallState /\ r.at = at /\ r.from = from /\ r.began = bridgeCall[c].began
<1>1. bridgeCall[c] \in CallState /\ Fine(bridgeCall[c], c \in Elements(sampled))
    BY DEF PathInv, PathType, AnsweredInv
<1>. QED BY <1>1 DEF CallState

\* The steps of a call that is not sampled.
LEMMA QuietCall ==
    ASSUME PathInv, NEW c \in BridgeCalls, NEW r \in CallState, bridgeCall' = [bridgeCall EXCEPT ![c] = r],
           Fine(r, c \in Elements(sampled)), NotObserved, UNCHANGED <<redacts, wouldCache>>, refreshing' \in BOOLEAN,
           entry' \in {"none", "fresh", "stale"}
    PROVE  PathInv'
<1>1. SeenInv' /\ UNCHANGED <<sampled, hotSamples>>
    BY NobodyLooks
<1>2. Elements(sampled)' = Elements(sampled)
    BY <1>1
<1>3. AnsweredInv' /\ bridgeCall' \in [BridgeCalls -> CallState]
    BY <1>2, OnePathCall
<1>. QED BY <1>1, <1>3 DEF PathInv, PathType

LEMMA CallToolStep == ASSUME PathInv, NEW c \in BridgeCalls, callTool(c) PROVE PathInv'
<1> DEFINE p == bridgeCall[c]
           a == IF redacts THEN "tokenized" ELSE IF wouldCache THEN "looking" ELSE "gateway"
           r == [p EXCEPT !.began = redacts, !.at = a]
<1>1. p \in CallState /\ p.at = "idle" /\ redacts \in BOOLEAN /\ Fine(p, c \in Elements(sampled))
    BY PathCallFacts DEF callTool, PathInv, PathType
<1>2. bridgeCall' = [bridgeCall EXCEPT ![c] = r]
    BY DEF callTool
<1>3. r \in CallState /\ r.at = a /\ r.began = redacts /\ r.from = p.from
    <2>1. a \in {"tokenized", "looking", "gateway"}
        OBVIOUS
    <2> HIDE DEF p, a
    <2>. QED BY <1>1, <2>1 DEF CallState
<1>4. Fine(r, c \in Elements(sampled))
    <2>1. a \in {"tokenized", "looking", "gateway"} /\ (a = "tokenized" <=> redacts)
        BY <1>1
    <2> HIDE DEF p, a, r
    <2>. QED BY <1>1, <1>3, <2>1 DEF Fine
<1> HIDE DEF r
<1>. QED BY <1>2, <1>3, <1>4, QuietCall DEF callTool, PathInv, PathType

LEMMA LookupStep == ASSUME PathInv, NEW c \in BridgeCalls, cacheLookup(c) PROVE PathInv'
<1> DEFINE p == bridgeCall[c]
<1>1. /\ p \in CallState /\ p.at = "looking" /\ Fine(p, c \in Elements(sampled))
      /\ NotObserved /\ UNCHANGED <<redacts, wouldCache, entry>> /\ refreshing' \in BOOLEAN
      /\ entry' \in {"none", "fresh", "stale"}
    <2>1. p \in CallState /\ Fine(p, c \in Elements(sampled))
        BY PathCallFacts
    <2>2. p.at = "looking" /\ NotObserved /\ UNCHANGED <<redacts, wouldCache, entry>>
        BY DEF cacheLookup
    <2>3. entry \in {"none", "fresh", "stale"}
        BY DEF PathInv, PathType
    <2>4. refreshing' \in BOOLEAN
        BY DEF cacheLookup
    <2>. QED BY <2>1, <2>2, <2>3, <2>4
<1>2. CASE bridgeCall' = [bridgeCall EXCEPT ![c].at = "gateway"]
    <2> DEFINE r == [p EXCEPT !.at = "gateway"]
    <2>1. bridgeCall' = [bridgeCall EXCEPT ![c] = r]
        BY <1>2
    <2>2. r \in CallState /\ r.at = "gateway" /\ r.began = p.began /\ r.from = p.from
        <3> HIDE DEF p
        <3>. QED BY <1>1 DEF CallState
    <2>3. Fine(r, c \in Elements(sampled))
        <3> HIDE DEF p, r
        <3>. QED BY <1>1, <2>2 DEF Fine
    <2> HIDE DEF r
    <2>. QED BY <1>1, <2>1, <2>2, <2>3, QuietCall
<1>3. CASE bridgeCall' = [bridgeCall EXCEPT ![c].at = "answered", ![c].from = "cache"]
    <2> DEFINE r == [p EXCEPT !.at = "answered", !.from = "cache"]
    <2>1. bridgeCall' = [bridgeCall EXCEPT ![c] = r]
        BY <1>3
    <2>2. r \in CallState /\ r.at = "answered" /\ r.began = p.began /\ r.from = "cache"
        <3> HIDE DEF p
        <3>. QED BY <1>1 DEF CallState
    <2>3. Fine(r, c \in Elements(sampled))
        <3> HIDE DEF p, r
        <3>. QED BY <1>1, <2>2 DEF Fine
    <2> HIDE DEF r
    <2>. QED BY <1>1, <2>1, <2>2, <2>3, QuietCall
<1>. QED BY <1>1, <1>2, <1>3 DEF cacheLookup, Move, Answered

LEMMA FailsStep == ASSUME PathInv, NEW c \in BridgeCalls, backendFails(c) PROVE PathInv'
<1> DEFINE p == bridgeCall[c]
           r == [p EXCEPT !.at = "answered", !.from = "error"]
<1>1. p \in CallState /\ p.at \in {"gateway", "tokenized"} /\ Fine(p, c \in Elements(sampled))
    BY PathCallFacts DEF backendFails
<1>2. bridgeCall' = [bridgeCall EXCEPT ![c] = r]
    BY DEF backendFails, Answered
<1>3. r \in CallState /\ r.at = "answered" /\ r.began = p.began /\ r.from = "error"
    <2> HIDE DEF p
    <2>. QED BY <1>1 DEF CallState
<1>4. Fine(r, c \in Elements(sampled))
    <2> HIDE DEF p, r
    <2>. QED BY <1>1, <1>3 DEF Fine
<1> HIDE DEF r
<1>. QED BY <1>2, <1>3, <1>4, QuietCall DEF backendFails, PathInv, PathType

LEMMA CacheSetStep == ASSUME PathInv, NEW c \in BridgeCalls, cacheSet(c) PROVE PathInv'
<1> DEFINE p == bridgeCall[c]
<1>1. PICK from \in {"backend", "error"} : bridgeCall' = [bridgeCall EXCEPT ![c].at = "answered", ![c].from = from]
    BY DEF cacheSet, Answered
<1>2. p \in CallState /\ p.at = "storing" /\ Fine(p, c \in Elements(sampled))
    BY PathCallFacts DEF cacheSet
<1>3. /\ NotObserved /\ UNCHANGED <<redacts, wouldCache>> /\ refreshing' \in BOOLEAN
      /\ entry' \in {"none", "fresh", "stale"}
    <2>1. NotObserved /\ UNCHANGED <<redacts, wouldCache, refreshing>>
        BY DEF cacheSet
    <2>2. refreshing \in BOOLEAN /\ entry \in {"none", "fresh", "stale"}
        BY DEF PathInv, PathType
    <2>3. entry' = entry \/ entry' = "fresh"
        BY DEF cacheSet
    <2>. QED BY <2>1, <2>2, <2>3
<1> DEFINE r == [p EXCEPT !.at = "answered", !.from = from]
<1>4. bridgeCall' = [bridgeCall EXCEPT ![c] = r]
    BY <1>1
<1>5. r \in CallState /\ r.at = "answered" /\ r.began = p.began /\ r.from = from
    <2> HIDE DEF p
    <2>. QED BY <1>2 DEF CallState
<1>6. Fine(r, c \in Elements(sampled))
    <2> HIDE DEF p, r
    <2>. QED BY <1>2, <1>5 DEF Fine
<1> HIDE DEF r
<1>. QED BY <1>3, <1>4, <1>5, <1>6, QuietCall

\* The answers that are sampled.
LEMMA SampledStep ==
    ASSUME PathInv, NEW c \in BridgeCalls, tokenizedReturns(c) \/ gatewayReturns(c) PROVE PathInv'
<1> DEFINE p == bridgeCall[c]
<1>1. /\ p \in CallState /\ Fine(p, c \in Elements(sampled)) /\ Observed(c) /\ UNCHANGED <<redacts, wouldCache, entry, refreshing>>
      /\ p.at \in {"tokenized", "gateway"}
    BY PathCallFacts DEF tokenizedReturns, gatewayReturns
<1>2. c \notin Elements(sampled)
    BY <1>1 DEF Fine
<1>3. /\ SeenInv' /\ sampled' \in Seq(BridgeCalls) /\ hotSamples' \in Seq(Sample)
      /\ Elements(sampled') = Elements(sampled) \cup {c}
    BY <1>1, <1>2, Observation
<1>4. (c \in Elements(sampled)') /\ \A d \in BridgeCalls \ {c} : d \in Elements(sampled)' <=> d \in Elements(sampled)
    BY <1>3
<1>5. PICK at \in {"storing", "answered"}, from \in {"nowhere", "tokens", "backend"} :
          LET r == [p EXCEPT !.at = at, !.from = from]
          IN  /\ bridgeCall' = [bridgeCall EXCEPT ![c] = r]
              /\ at = "storing" => p.at = "gateway" /\ from = "nowhere"
              /\ at = "answered" => from = (IF p.at = "tokenized" THEN "tokens" ELSE "backend")
    <2>1. CASE tokenizedReturns(c)
        <3>1. bridgeCall' = [bridgeCall EXCEPT ![c] = [p EXCEPT !.at = "answered", !.from = "tokens"]] /\ p.at = "tokenized"
            BY <2>1 DEF tokenizedReturns, Answered
        <3>. QED BY <3>1
    <2>2. CASE gatewayReturns(c) /\ wouldCache
        <3>1. p.from = "nowhere" /\ p.at = "gateway"
            BY <1>1, <2>2 DEF gatewayReturns, Fine
        <3>2. bridgeCall' = [bridgeCall EXCEPT ![c] = [p EXCEPT !.at = "storing"]]
            BY <2>2 DEF gatewayReturns, Move
        <3>3. [p EXCEPT !.at = "storing"] = [p EXCEPT !.at = "storing", !.from = "nowhere"]
            <4> HIDE DEF p
            <4>. QED BY <1>1, <3>1 DEF CallState
        <3>. QED BY <3>1, <3>2, <3>3
    <2>3. CASE gatewayReturns(c) /\ ~wouldCache
        <3>1. bridgeCall' = [bridgeCall EXCEPT ![c] = [p EXCEPT !.at = "answered", !.from = "backend"]] /\ p.at = "gateway"
            BY <2>3 DEF gatewayReturns, Answered
        <3>. QED BY <3>1
    <2>. QED BY <2>1, <2>2, <2>3
<1> DEFINE r == [p EXCEPT !.at = at, !.from = from]
<1>6. bridgeCall' = [bridgeCall EXCEPT ![c] = r]
    BY <1>5
<1>7. r \in CallState /\ r.at = at /\ r.began = p.began /\ r.from = from
    <2> HIDE DEF p
    <2>. QED BY <1>1 DEF CallState
<1>8. Fine(r, c \in Elements(sampled)')
    <2> HIDE DEF p, r
    <2>. QED BY <1>1, <1>4, <1>5, <1>7 DEF Fine
<1> HIDE DEF r
<1>9. AnsweredInv' /\ bridgeCall' \in [BridgeCalls -> CallState]
    BY <1>4, <1>6, <1>7, <1>8, OnePathCall
<1>. QED BY <1>1, <1>3, <1>9 DEF PathInv, PathType

\* The steps of the refresh, of time and of the registry.
LEMMA AsideStep ==
    ASSUME PathInv, refreshEnds \/ entryAges \/ annotationChanges \/ UNCHANGED cpathVars
    PROVE  PathInv'
<1> DEFINE Entries == {"none", "fresh", "stale"}
<1>1. NotObserved /\ UNCHANGED <<bridgeCall, wouldCache>>
    BY DEF refreshEnds, entryAges, annotationChanges, cpathVars, NotObserved
<1>2. entry' \in Entries
    <2>1. entry \in Entries
        BY DEF PathInv, PathType
    <2>2. entry' \in {entry, "fresh", "stale", "none"}
        BY DEF refreshEnds, entryAges, annotationChanges, cpathVars
    <2>. QED BY <2>1, <2>2
<1>3. redacts' \in BOOLEAN
    BY DEF PathInv, PathType, refreshEnds, entryAges, annotationChanges, cpathVars
<1>4. refreshing' \in BOOLEAN
    BY DEF PathInv, PathType, refreshEnds, entryAges, annotationChanges, cpathVars
<1>5. SeenInv' /\ UNCHANGED <<sampled, hotSamples>>
    BY <1>1, NobodyLooks
<1>6. AnsweredInv'
    BY <1>1, <1>5 DEF PathInv, AnsweredInv, Fine, Elements
<1>. QED BY <1>1, <1>2, <1>3, <1>4, <1>5, <1>6 DEF PathInv, PathType

\* Only the profiler's bucket changes.
LEMMA BucketStep ==
    ASSUME PathInv, hotSamples' \in Seq(Sample), HotInv',
           UNCHANGED <<bridgeCall, redacts, wouldCache, entry, refreshing, anomalyCount, costSamples, sampled>>
    PROVE  PathInv'
<1>1. AnsweredInv'
    BY DEF PathInv, AnsweredInv, Fine, Elements
<1>2. SeenInv'
    BY DEF PathInv, SeenInv, Once
<1>. QED BY <1>1, <1>2 DEF PathInv, PathType

LEMMA ExpiresStep == ASSUME PathInv, sampleExpires PROVE PathInv'
<1> DEFINE h == hotSamples
           n == Len(h)
<1>1. PICK i \in DOMAIN h : /\ \A j \in 1 .. i - 1 : h[j].expired
                            /\ h' = [h EXCEPT ![i].expired = TRUE]
    BY DEF sampleExpires
<1>2. h \in Seq(Sample) /\ n \in Nat /\ DOMAIN h = 1 .. n /\ HotInv
    BY DEF PathInv, PathType, SeenInv
<1> DEFINE x == [h[i] EXCEPT !.expired = TRUE]
<1>3. x \in Sample /\ x.call = h[i].call /\ x.expired = TRUE
    <2>1. h[i] \in Sample
        BY <1>2
    <2>. QED BY <2>1 DEF Sample
<1>4. h' = [h EXCEPT ![i] = x]
    BY <1>1
<1> HIDE DEF x
<1>5. /\ h' \in Seq(Sample) /\ Len(h') = n /\ DOMAIN h' = 1 .. n /\ h'[i] = x
      /\ \A j \in 1 .. n : j # i => h'[j] = h[j]
    BY <1>2, <1>3, <1>4
<1>6. UNCHANGED <<bridgeCall, redacts, wouldCache, entry, refreshing, anomalyCount, costSamples, sampled>>
    BY DEF sampleExpires
<1>7. \A j \in 1 .. n : h'[j].call = h[j].call
    BY <1>3, <1>5
<1>8. ASSUME NEW j \in 1 .. n, NEW k \in 1 .. n, j < k, h'[k].expired PROVE h'[j].expired
    <2>1. CASE j = i
        BY <1>3, <1>5, <2>1
    <2>2. CASE j # i /\ k # i
        BY <1>2, <1>5, <1>8, <2>2 DEF HotInv
    <2>3. CASE k = i
        <3>1. j \in 1 .. i - 1 /\ j # i
            BY <1>2, <1>8, <2>3
        <3>. QED BY <1>1, <1>5, <3>1
    <2>. QED BY <2>1, <2>2, <2>3
<1>9. HotInv'
    BY <1>2, <1>5, <1>6, <1>7, <1>8 DEF HotInv
<1>. QED BY <1>5, <1>6, <1>9, BucketStep

\* evictExpired(): the expired ones are the first.
LEMMA EvictStep == ASSUME PathInv, getHotPaths PROVE PathInv'
<1> DEFINE h == hotSamples
           n == Len(h)
           l == Len(sampled)
           Left == {i \in DOMAIN h : ~h[i].expired}
<1>1. h' = Filtered(h, Left) /\ UNCHANGED <<bridgeCall, redacts, wouldCache, entry, refreshing, anomalyCount, costSamples, sampled>>
    BY DEF getHotPaths
<1>2. h \in Seq(Sample) /\ n \in Nat /\ DOMAIN h = 1 .. n /\ HotInv /\ l \in Nat
    BY DEF PathInv, PathType, SeenInv
<1>3. \E a \in 1 .. n + 1 : Left = a .. n
    <2>1. CASE Left = {}
        <3>1. n + 1 \in 1 .. n + 1 /\ n + 1 .. n = {}
            BY <1>2
        <3>. QED BY <2>1, <3>1
    <2>2. CASE Left # {}
        <3>1. Left \subseteq Nat
            BY <1>2
        <3>2. PICK a \in Left : \A y \in Left : a <= y
            BY <2>2, <3>1, LeastNumber
        <3>3. a \in 1 .. n /\ ~h[a].expired
            BY <1>2, <3>2
        <3>4. \A i \in 1 .. n : a <= i => ~h[i].expired
            <4> SUFFICES ASSUME NEW i \in 1 .. n, a <= i PROVE ~h[i].expired
                OBVIOUS
            <4>1. a = i \/ a < i
                BY <3>3
            <4>. QED BY <1>2, <3>3, <4>1 DEF HotInv
        <3>5. \A i \in 1 .. n : ~h[i].expired => a <= i
            BY <1>2, <3>2
        <3> HIDE DEF h, n
        <3>6. \A i \in 1 .. n : i \in Left <=> i \in a .. n
            BY <1>2, <3>3, <3>4, <3>5
        <3>7. a .. n \subseteq 1 .. n /\ Left \subseteq 1 .. n
            BY <1>2, <3>3
        <3>8. Left = a .. n
            <4> HIDE DEF Left
            <4>. QED BY <3>6, <3>7
        <3>9. a \in 1 .. n + 1
            BY <1>2, <3>3
        <3>. QED BY <3>8, <3>9
    <2>. QED BY <2>1, <2>2
<1>4. PICK a \in 1 .. n + 1 : Left = a .. n
    BY <1>3
<1> HIDE DEF Left
<1>5. h' = [k \in 1 .. n - a + 1 |-> h[k + a - 1]]
    BY <1>1, <1>2, <1>4, FilteredRest
<1> DEFINE m == n - a + 1
<1>6. m \in Nat /\ m <= n /\ \A k \in 1 .. m : k + a - 1 \in 1 .. n
    BY <1>2, <1>4
<1>7. \A k \in 1 .. m : h[k + a - 1] \in Sample
    BY <1>2, <1>6
<1>8. h' \in Seq(Sample) /\ Len(h') = m /\ DOMAIN h' = 1 .. m /\ \A k \in 1 .. m : h'[k] = h[k + a - 1]
    <2> DEFINE g == [k \in 1 .. m |-> h[k + a - 1]]
    <2> HIDE DEF n, m
    <2>1. g \in [1 .. m -> Sample] /\ DOMAIN g = 1 .. m /\ \A k \in 1 .. m : g[k] = h[k + a - 1]
        BY <1>7
    <2>2. hotSamples' = g
        BY <1>5 DEF m
    <2> HIDE DEF g
    <2>3. g \in Seq(Sample) /\ Len(g) = m
        BY <1>6, <2>1
    <2>. QED BY <2>1, <2>2, <2>3
<1>9. l - m = (l - n) + (a - 1) /\ n <= l /\ n <= MaxSamplesPerBucket
    BY <1>2, <1>4 DEF HotInv
<1>10. ASSUME NEW k \in 1 .. m PROVE h'[k].call = sampled[l - m + k]
    <2>1. h[k + a - 1].call = sampled[l - n + (k + a - 1)]
        BY <1>2, <1>6 DEF HotInv
    <2>2. l - n + (k + a - 1) = l - m + k
        BY <1>2, <1>4
    <2>. QED BY <1>8, <2>1, <2>2
<1>11. ASSUME NEW i \in 1 .. m, NEW j \in 1 .. m, i < j, h'[j].expired PROVE h'[i].expired
    <2>1. i + a - 1 < j + a - 1
        BY <1>11, <1>4
    <2>2. h[j + a - 1].expired
        BY <1>8, <1>11
    <2>3. h[i + a - 1].expired
        BY <1>2, <1>6, <2>1, <2>2 DEF HotInv
    <2>. QED BY <1>8, <2>3
<1>12. HotInv'
    <2>1. m <= l /\ m <= MaxSamplesPerBucket
        BY <1>2, <1>4, <1>6, <1>9, CallPathAssumption
    <2>2. sampled' = sampled
        BY <1>1
    <2> HIDE DEF n, m
    <2>. QED BY <1>8, <1>10, <1>11, <2>1, <2>2 DEF HotInv
<1>. QED BY <1>1, <1>8, <1>12, BucketStep

LEMMA PathStep == ASSUME PathInv, [CPathNext]_cpathVars PROVE PathInv'
<1>1. CASE UNCHANGED cpathVars
    BY <1>1, AsideStep
<1>2. CASE \E c \in BridgeCalls :
               \/ callTool(c) \/ tokenizedReturns(c) \/ cacheLookup(c) \/ gatewayReturns(c)
               \/ backendFails(c) \/ cacheSet(c)
    BY <1>2, CallToolStep, SampledStep, LookupStep, FailsStep, CacheSetStep
<1>3. CASE refreshEnds \/ entryAges \/ annotationChanges
    BY <1>3, AsideStep
<1>4. CASE sampleExpires
    BY <1>4, ExpiresStep
<1>5. CASE getHotPaths
    BY <1>5, EvictStep
<1>. QED BY <1>1, <1>2, <1>3, <1>4, <1>5 DEF CPathNext

LEMMA ImpliesCPathInv == PathInv => CPathInv
<1> SUFFICES ASSUME PathInv PROVE CPathInv
    OBVIOUS
<1> DEFINE n == Len(hotSamples)
           t == Newest(sampled, n)
           u == [i \in DOMAIN hotSamples |-> hotSamples[i].call]
<1>1. /\ sampled \in Seq(BridgeCalls) /\ hotSamples \in Seq(Sample) /\ n \in Nat /\ DOMAIN hotSamples = 1 .. n
      /\ n <= Len(sampled) /\ n <= MaxSamplesPerBucket
      /\ \A i \in 1 .. n : hotSamples[i].call = sampled[Len(sampled) - n + i]
    BY DEF PathInv, PathType, SeenInv, HotInv
<1>2. RedactedByTokens
    BY DEF PathInv, AnsweredInv, Fine, RedactedByTokens
<1>3. CPathTypeOK
    <2>1. entry \in {"none", "fresh", "stale"}
        BY DEF PathInv, PathType
    <2>2. redacts \in BOOLEAN /\ wouldCache \in BOOLEAN /\ refreshing \in BOOLEAN
        BY DEF PathInv, PathType
    <2>3. \A c \in BridgeCalls :
             /\ bridgeCall[c].at \in {"idle", "tokenized", "looking", "gateway", "storing", "answered"}
             /\ bridgeCall[c].from \in {"nowhere", "tokens", "cache", "backend", "error"}
        BY DEF PathInv, PathType, CallState
    <2>4. Len(costSamples) <= MaxSamplesPerBucket
        <3>1. costSamples = Newest(sampled, MaxSamplesPerBucket) /\ MaxSamplesPerBucket \in Nat
            BY CallPathAssumption DEF PathInv, SeenInv
        <3>2. Len(costSamples) = IF Len(sampled) > MaxSamplesPerBucket THEN MaxSamplesPerBucket ELSE Len(sampled)
            BY <1>1, <3>1, NewestFacts
        <3>3. Len(sampled) \in Nat
            BY <1>1
        <3>. QED BY <3>1, <3>2, <3>3
    <2>. QED BY <1>1, <2>1, <2>2, <2>3, <2>4 DEF CPathTypeOK
<1>4. u = t
    <2> HIDE DEF n
    <2>1. t \in Seq(BridgeCalls) /\ Len(t) = n /\ \A i \in 1 .. n : t[i] = sampled[Len(sampled) - n + i]
        <3>1. /\ t \in Seq(BridgeCalls) /\ Len(t) = (IF Len(sampled) > n THEN n ELSE Len(sampled))
              /\ \A i \in 1 .. Len(t) : t[i] = sampled[Len(sampled) - Len(t) + i]
            BY <1>1, NewestFacts
        <3>2. Len(t) = n
            BY <1>1, <3>1
        <3>. QED BY <3>1, <3>2
    <2>2. \A i \in 1 .. n : hotSamples[i].call \in BridgeCalls
        BY <1>1 DEF Sample
    <2>3. u \in Seq(BridgeCalls) /\ Len(u) = n /\ \A i \in 1 .. n : u[i] = hotSamples[i].call
        <3>1. u = [i \in 1 .. n |-> hotSamples[i].call]
            BY <1>1
        <3>2. u \in [1 .. n -> BridgeCalls]
            BY <2>2, <3>1
        <3>. QED BY <1>1, <3>1, <3>2
    <2> HIDE DEF t, u
    <2>. QED BY <1>1, <2>1, <2>3, SameLists
<1>5. ObserversAgree
    <2>1. \A c : c \in Elements(sampled) <=> \E i \in DOMAIN sampled : sampled[i] = c
        BY DEF Elements
    <2>2. \A c \in BridgeCalls :
              /\ bridgeCall[c].from \in {"tokens", "backend"} => c \in Elements(sampled)
              /\ bridgeCall[c].from = "cache" => c \notin Elements(sampled)
        BY DEF PathInv, AnsweredInv, Fine
    <2>3. anomalyCount = Len(sampled) /\ costSamples = Newest(sampled, MaxSamplesPerBucket) /\ Once(sampled)
        BY DEF PathInv, SeenInv
    <2>. QED BY <1>4, <2>1, <2>2, <2>3 DEF ObserversAgree, Once
<1>. QED BY <1>2, <1>3, <1>5 DEF CPathInv

-----------------------------------------------------------------------------
\* Recordings.

Line == [seq : Nat, type : EventTypes] \cup {Half}

LinesType ==
    /\ session \in [Recordings -> [active : BOOLEAN, seq : 0 .. MaxEvents]]
    /\ journal \in [Recordings -> Seq(Line) \cup {NoFile}]
    /\ byAge \in Seq(Recordings) /\ Elements(byAge) = {r \in Recordings : Exists(r)}
    /\ unsafe \subseteq Recordings

\* The journal of an active session: whole lines with the last numbers given,
\* all of them unless the file was lost.
Numbered(lines, n, lost) ==
    IF lines = NoFile
    THEN lost
    ELSE /\ \A i \in DOMAIN lines : lines[i] # Half /\ lines[i].seq = n - Len(lines) + i - 1
         /\ ~lost => Len(lines) = n
NumberedInv == \A r \in Recordings : session[r].active => Numbered(journal[r], session[r].seq, r \in unsafe)

RecordingsInv == LinesType /\ NumberedInv

LEMMA RecordingsInit == RecInit => RecordingsInv
<1> SUFFICES ASSUME RecInit PROVE RecordingsInv
    OBVIOUS
<1>1. Inactive \in [active : BOOLEAN, seq : 0 .. MaxEvents] /\ ~Inactive.active
    BY RecordingsAssumption DEF Inactive
<1>2. byAge \in Seq(Recordings) /\ Elements(byAge) = {}
    BY DEF RecInit, Elements
<1>3. \A r \in Recordings : ~Exists(r) /\ ~session[r].active
    BY <1>1 DEF RecInit, Exists
<1>4. session \in [Recordings -> [active : BOOLEAN, seq : 0 .. MaxEvents]]
    BY <1>1 DEF RecInit
<1>. QED BY <1>2, <1>3, <1>4 DEF RecInit, RecordingsInv, LinesType, NumberedInv

\* A written line is not the mark of a missing file, nor is an empty file.
LEMMA WrittenLine ==
    ASSUME NEW lines \in Seq(Line), NEW x \in Line
    PROVE  Append(lines, x) \in Seq(Line) /\ Append(lines, x) # NoFile
<1>1. Append(lines, x) \in Seq(Line) /\ Len(Append(lines, x)) = Len(lines) + 1 /\ Append(lines, x)[Len(lines) + 1] = x
    OBVIOUS
<1>2. x.type # "no file"
    <2>1. CASE x = Half
        BY <2>1 DEF Half
    <2>2. CASE x \in [seq : Nat, type : EventTypes]
        BY <2>2 DEF EventTypes
    <2>. QED BY <2>1, <2>2 DEF Line
<1>3. Len(NoFile) = 1 /\ NoFile[1].type = "no file"
    BY DEF NoFile
<1>4. Len(lines) \in Nat
    OBVIOUS
<1> HIDE DEF NoFile
<1>5. ASSUME Append(lines, x) = NoFile PROVE FALSE
    <2>1. Len(lines) + 1 = 1
        BY <1>1, <1>3, <1>5
    <2>. QED BY <1>1, <1>2, <1>3, <1>5, <2>1
<1>. QED BY <1>1, <1>5

LEMMA EmptyFile == <<>> # NoFile /\ <<>> \in Seq(Line) /\ Len(<<>>) = 0 /\ DOMAIN <<>> = {}
<1>1. Len(NoFile) = 1 /\ Len(<<>>) = 0
    BY DEF NoFile
<1> HIDE DEF NoFile
<1>2. <<>> # NoFile
    BY <1>1
<1>. QED BY <1>2

\* The files after one was written and some were removed.
LEMMA NewerFacts ==
    ASSUME byAge \in Seq(Recordings), NEW r \in Recordings, NEW gone
    PROVE  /\ Newer(r, gone) \in Seq(Recordings)
           /\ Elements(Newer(r, gone)) = {x \in Elements(byAge) : x # r /\ x \notin gone} \cup {r}
<1> DEFINE I == {i \in DOMAIN byAge : byAge[i] # r /\ byAge[i] \notin gone}
           t == Filtered(byAge, I)
<1>1. I \in SUBSET (DOMAIN byAge)
    OBVIOUS
<1> HIDE DEF I
<1>2. t \in Seq(Recordings) /\ Elements(t) = {byAge[i] : i \in I}
    BY <1>1, FilteredFacts
<1> HIDE DEF t
<1>3. Append(t, r) \in Seq(Recordings) /\ Elements(Append(t, r)) = Elements(t) \cup {r}
    BY <1>2, AppendFacts
<1>4. {byAge[i] : i \in I} = {x \in Elements(byAge) : x # r /\ x \notin gone}
    BY DEF I, Elements
<1>. QED BY <1>2, <1>3, <1>4 DEF Newer, t, I

\* No file takes no space.
LEMMA NoBytes == ASSUME NEW e, Len(e) = 0 PROVE dirTotalBytes(e) = 0
<1> DEFINE F(f) == [i \in 0 .. Len(e) |-> IF i = 0 THEN 0 ELSE f[i - 1] + Len(journal[e[i]])]
           z == [i \in 0 .. 0 |-> 0]
           from == CHOOSE f : f = F(f)
<1>1. z = F(z)
    OBVIOUS
<1>2. from = F(from)
    BY <1>1, Zenon
<1>3. dirTotalBytes(e) = from[Len(e)]
    BY Zenon DEF dirTotalBytes
<1> HIDE DEF from
<1>4. from[0] = 0
    BY <1>2
<1>. QED BY <1>3, <1>4

\* rotate() removes existing files only.
LEMMA RotatedFacts ==
    ASSUME byAge \in Seq(Recordings)
    PROVE  {rotated[i] : i \in DOMAIN rotated} \subseteq Elements(byAge)
<1> DEFINE b == Len(byAge)
           fits == {n \in 0 .. b : dirTotalBytes(SubSeq(byAge, n + 1, b)) <= MaxTotalBytes}
           n == CHOOSE m \in fits : \A k \in fits : m <= k
<1>1. b \in Nat /\ DOMAIN byAge = 1 .. b
    OBVIOUS
<1>2. b \in fits
    <2>1. Len(SubSeq(byAge, b + 1, b)) = 0
        BY <1>1
    <2>2. dirTotalBytes(SubSeq(byAge, b + 1, b)) = 0
        BY <2>1, NoBytes
    <2>. QED BY <1>1, <2>2, RecordingsAssumption
<1>3. fits \subseteq Nat /\ fits \subseteq 0 .. b
    BY <1>1
<1> HIDE DEF fits
<1>4. \E m \in fits : \A k \in fits : m <= k
    BY <1>2, <1>3, LeastNumber
<1>5. n \in 0 .. b
    BY <1>3, <1>4
<1>6. rotated = SubSeq(byAge, 1, n)
    BY Zenon DEF rotated, fits
<1> HIDE DEF n
<1>7. SubSeq(byAge, 1, n) = [i \in 1 .. n |-> byAge[i]]
    BY <1>1, <1>5
<1>8. 1 .. n \subseteq 1 .. b
    BY <1>1, <1>5
<1>. QED BY <1>1, <1>6, <1>7, <1>8 DEF Elements

LEMMA StartRecordingStep ==
    ASSUME RecordingsInv, NEW r \in Recordings, startRecording(r)
    PROVE  RecordingsInv'
<1> DEFINE gone == {rotated[i] : i \in DOMAIN rotated}
           begun == [active |-> TRUE, seq |-> 0]
<1>1. /\ journal' = [x \in Recordings |-> IF x = r THEN <<>> ELSE IF x \in gone THEN NoFile ELSE journal[x]]
      /\ byAge' = Newer(r, gone)
      /\ session' = [session EXCEPT ![r] = begun]
      /\ unsafe' = (unsafe \cup {x \in gone : session[x].active}) \ {r}
    BY DEF startRecording
<1>2. LinesType /\ NumberedInv
    BY DEF RecordingsInv
<1>3. gone \subseteq Elements(byAge) /\ gone \subseteq Recordings
    BY <1>2, RotatedFacts DEF LinesType
<1> HIDE DEF gone
<1>4. begun \in [active : BOOLEAN, seq : 0 .. MaxEvents] /\ begun.seq = 0
    BY RecordingsAssumption
<1> HIDE DEF begun
<1>5. session' \in [Recordings -> [active : BOOLEAN, seq : 0 .. MaxEvents]]
    BY <1>1, <1>2, <1>4 DEF LinesType
<1>6. journal' \in [Recordings -> Seq(Line) \cup {NoFile}]
    BY <1>1, <1>2, EmptyFile DEF LinesType
<1>7. byAge' \in Seq(Recordings) /\ Elements(byAge') = {x \in Elements(byAge) : x # r /\ x \notin gone} \cup {r}
    BY <1>1, <1>2, NewerFacts DEF LinesType
<1>8. \A x \in Recordings : Exists(x)' <=> x = r \/ (x \notin gone /\ Exists(x))
    BY <1>1, EmptyFile DEF Exists
<1>9. Elements(byAge') = {x \in Recordings : Exists(x)'}
    BY <1>2, <1>7, <1>8 DEF LinesType
<1>10. LinesType'
    BY <1>1, <1>2, <1>3, <1>5, <1>6, <1>7, <1>9 DEF LinesType
<1>11. ASSUME NEW x \in Recordings, session'[x].active PROVE Numbered(journal'[x], session'[x].seq, x \in unsafe')
    <2>1. CASE x = r
        <3>1. journal'[x] = <<>> /\ session'[x].seq = 0
            BY <1>1, <1>2, <1>4, <2>1 DEF LinesType
        <3>. QED BY <3>1, EmptyFile DEF Numbered
    <2>2. CASE x # r
        <3>1. session'[x] = session[x]
            BY <1>1, <1>2, <2>2 DEF LinesType
        <3>2. CASE x \in gone
            <4>1. journal'[x] = NoFile /\ x \in unsafe'
                BY <1>1, <1>11, <2>2, <3>1, <3>2
            <4>. QED BY <4>1 DEF Numbered
        <3>3. CASE x \notin gone
            <4>1. journal'[x] = journal[x] /\ (x \in unsafe' <=> x \in unsafe)
                BY <1>1, <2>2, <3>3
            <4>2. Numbered(journal[x], session[x].seq, x \in unsafe)
                BY <1>2, <1>11, <3>1 DEF NumberedInv
            <4>. QED BY <3>1, <4>1, <4>2 DEF Numbered
        <3>. QED BY <3>2, <3>3
    <2>. QED BY <2>1, <2>2
<1>. QED BY <1>10, <1>11 DEF RecordingsInv, NumberedInv

\* A file is written, or made again, and no other changes.
LEMMA FileWritten ==
    ASSUME LinesType, NEW r \in Recordings, NEW lines \in Seq(Line), lines # NoFile,
           journal' = [journal EXCEPT ![r] = lines], byAge' = Touched(r), UNCHANGED unsafe,
           session' \in [Recordings -> [active : BOOLEAN, seq : 0 .. MaxEvents]]
    PROVE  LinesType'
<1>1. journal' \in [Recordings -> Seq(Line) \cup {NoFile}]
    BY DEF LinesType
<1>2. byAge' \in Seq(Recordings) /\ Elements(byAge') = {x \in Elements(byAge) : x # r} \cup {r}
    BY NewerFacts DEF Touched, LinesType
<1>3. \A x \in Recordings : Exists(x)' <=> x = r \/ Exists(x)
    BY DEF Exists, LinesType
<1>4. Elements(byAge') = {x \in Recordings : Exists(x)'}
    BY <1>2, <1>3 DEF LinesType
<1>. QED BY <1>1, <1>2, <1>4 DEF LinesType

\* What the next line adds.
LEMMA NextLine ==
    ASSUME NEW lines \in Seq(Line), NEW n \in Nat, NEW lost \in BOOLEAN, NEW type \in EventTypes, lines # NoFile,
           Numbered(lines, n, lost)
    PROVE  LET x == [seq |-> n, type |-> type]
           IN  x \in Line /\ Numbered(Append(lines, x), n + 1, lost)
<1> DEFINE x == [seq |-> n, type |-> type]
           l == Len(lines)
           t == Append(lines, x)
<1>1. x \in Line /\ x # Half /\ x.seq = n
    BY DEF Line, Half, EventTypes
<1> HIDE DEF x
<1>2. /\ t \in Seq(Line) /\ t # NoFile /\ Len(t) = l + 1 /\ DOMAIN t = 1 .. l + 1 /\ t[l + 1] = x /\ l \in Nat
      /\ \A i \in 1 .. l : t[i] = lines[i]
    BY <1>1, WrittenLine
<1>3. /\ \A i \in 1 .. l : lines[i] # Half /\ lines[i].seq = n - l + i - 1
      /\ ~lost => l = n
    BY DEF Numbered
<1> HIDE DEF t, l
<1>4. ASSUME NEW i \in 1 .. l + 1 PROVE t[i] # Half /\ t[i].seq = (n + 1) - (l + 1) + i - 1
    <2>1. CASE i = l + 1
        <3>1. (n + 1) - (l + 1) + i - 1 = n
            BY <1>2, <2>1
        <3>. QED BY <1>1, <1>2, <2>1, <3>1
    <2>2. CASE i # l + 1
        <3>1. i \in 1 .. l /\ (n + 1) - (l + 1) + i - 1 = n - l + i - 1
            BY <1>2, <2>2
        <3>. QED BY <1>2, <1>3, <3>1
    <2>. QED BY <2>1, <2>2
<1>5. ~lost => l + 1 = n + 1
    BY <1>3
<1>6. Numbered(t, n + 1, lost)
    BY <1>2, <1>4, <1>5 DEF Numbered
<1>. QED BY <1>1, <1>6 DEF t, x

LEMMA AppendEventStep ==
    ASSUME RecordingsInv, NEW r \in Recordings, NEW type \in EventTypes, appendEvent(r, type)
    PROVE  RecordingsInv'
<1> DEFINE n == session[r].seq
           x == [seq |-> n, type |-> type]
           old == IF Exists(r) THEN journal[r] ELSE <<>>
           s == [session[r] EXCEPT !.seq = @ + 1]
<1>1. LinesType /\ NumberedInv
    BY DEF RecordingsInv
<1>2. session[r] \in [active : BOOLEAN, seq : 0 .. MaxEvents] /\ session[r].active /\ n < MaxEvents
    BY <1>1 DEF LinesType, appendEvent
<1>3. n \in Nat /\ n + 1 \in 0 .. MaxEvents
    BY <1>2, RecordingsAssumption
<1>4. s \in [active : BOOLEAN, seq : 0 .. MaxEvents] /\ s.seq = n + 1
    BY <1>2, <1>3
<1>5. /\ session' = [session EXCEPT ![r] = s] /\ journal' = [journal EXCEPT ![r] = Append(old, x)]
      /\ byAge' = Touched(r) /\ UNCHANGED unsafe
    BY DEF appendEvent
<1>6. Numbered(journal[r], n, r \in unsafe) /\ journal[r] \in Seq(Line) \cup {NoFile}
    BY <1>1, <1>2 DEF NumberedInv, LinesType
<1>7. old \in Seq(Line) /\ old # NoFile /\ (r \in unsafe) \in BOOLEAN /\ Numbered(old, n, r \in unsafe)
    <2>1. CASE Exists(r)
        BY <1>6, <2>1 DEF Exists
    <2>2. CASE ~Exists(r)
        <3>1. r \in unsafe
            BY <1>6, <2>2 DEF Exists, Numbered
        <3>2. old = <<>>
            BY <2>2
        <3>. QED BY <3>1, <3>2, EmptyFile DEF Numbered
    <2>. QED BY <2>1, <2>2
<1> HIDE DEF s, old, n
<1>8. x \in Line /\ Numbered(Append(old, x), n + 1, r \in unsafe)
    BY <1>3, <1>7, NextLine
<1> HIDE DEF x
<1>9. Append(old, x) \in Seq(Line) /\ Append(old, x) # NoFile
    BY <1>7, <1>8, WrittenLine
<1>10. /\ session' \in [Recordings -> [active : BOOLEAN, seq : 0 .. MaxEvents]] /\ session'[r] = s
       /\ \A y \in Recordings : y # r => session'[y] = session[y] /\ journal'[y] = journal[y]
       /\ journal'[r] = Append(old, x)
    BY <1>1, <1>4, <1>5 DEF LinesType
<1>11. LinesType'
    BY <1>1, <1>5, <1>9, <1>10, FileWritten
<1>12. ASSUME NEW y \in Recordings, session'[y].active PROVE Numbered(journal'[y], session'[y].seq, y \in unsafe')
    <2>1. CASE y = r
        BY <1>4, <1>5, <1>8, <1>10, <2>1
    <2>2. CASE y # r
        BY <1>1, <1>5, <1>10, <1>12, <2>2 DEF NumberedInv
    <2>. QED BY <2>1, <2>2
<1>. QED BY <1>11, <1>12 DEF RecordingsInv, NumberedInv

LEMMA StopStep ==
    ASSUME RecordingsInv, NEW r \in Recordings, stopRecording(r)
    PROVE  RecordingsInv'
<1>1. LinesType /\ NumberedInv
    BY DEF RecordingsInv
<1>2. session' = [session EXCEPT ![r] = Inactive] /\ UNCHANGED <<journal, byAge, unsafe>>
    BY DEF stopRecording
<1>3. Inactive \in [active : BOOLEAN, seq : 0 .. MaxEvents] /\ ~Inactive.active
    BY RecordingsAssumption DEF Inactive
<1>4. /\ session' \in [Recordings -> [active : BOOLEAN, seq : 0 .. MaxEvents]]
      /\ \A y \in Recordings : session'[y].active => session'[y] = session[y]
    BY <1>1, <1>2, <1>3 DEF LinesType
<1>5. LinesType'
    BY <1>1, <1>2, <1>4 DEF LinesType, Exists, Elements
<1>6. NumberedInv'
    BY <1>1, <1>2, <1>4 DEF NumberedInv
<1>. QED BY <1>5, <1>6 DEF RecordingsInv

LEMMA RecorderCrashStep == ASSUME RecordingsInv, recorderCrash PROVE RecordingsInv'
<1>1. LinesType /\ NumberedInv
    BY DEF RecordingsInv
<1>2. session' = [r \in Recordings |-> Inactive] /\ UNCHANGED unsafe
    BY DEF recorderCrash
<1>3. Inactive \in [active : BOOLEAN, seq : 0 .. MaxEvents] /\ ~Inactive.active
    BY RecordingsAssumption DEF Inactive
<1>4. session' \in [Recordings -> [active : BOOLEAN, seq : 0 .. MaxEvents]] /\ \A r \in Recordings : ~session'[r].active
    BY <1>2, <1>3
<1>5. LinesType'
    <2>1. CASE UNCHANGED <<journal, byAge>>
        BY <1>1, <1>2, <1>4, <2>1 DEF LinesType, Exists, Elements
    <2>2. CASE \E r \in Recordings : /\ Exists(r) /\ journal' = [journal EXCEPT ![r] = Append(@, Half)]
                                     /\ byAge' = Touched(r)
        <3>1. PICK r \in Recordings : /\ Exists(r) /\ journal' = [journal EXCEPT ![r] = Append(journal[r], Half)]
                                      /\ byAge' = Touched(r)
            BY <2>2
        <3>2. journal[r] \in Seq(Line) /\ Half \in Line
            BY <1>1, <3>1 DEF LinesType, Exists, Line
        <3>3. Append(journal[r], Half) \in Seq(Line) /\ Append(journal[r], Half) # NoFile
            BY <3>2, WrittenLine
        <3>. QED BY <1>1, <1>2, <1>4, <3>1, <3>3, FileWritten
    <2>. QED BY <2>1, <2>2 DEF recorderCrash
<1>. QED BY <1>4, <1>5 DEF RecordingsInv, NumberedInv

LEMMA RecordingsStep == ASSUME RecordingsInv, [RecNext]_recVars PROVE RecordingsInv'
<1>1. CASE UNCHANGED recVars
    BY <1>1 DEF recVars, RecordingsInv, LinesType, NumberedInv, Exists, Elements
<1>2. CASE \E r \in Recordings : startRecording(r)
    BY <1>2, StartRecordingStep
<1>3. CASE \E r \in Recordings : stopRecording(r)
    BY <1>3, StopStep
<1>4. CASE \E r \in Recordings : \E type \in EventTypes : appendEvent(r, type)
    BY <1>4, AppendEventStep
<1>5. CASE recorderCrash
    BY <1>5, RecorderCrashStep
<1>. QED BY <1>1, <1>2, <1>3, <1>4, <1>5 DEF RecNext

\* Replay, of whatever the modifications skip.
LEMMA ReplayFacts ==
    ASSUME NEW events \in Seq(Line), \A i \in DOMAIN events : events[i].seq \in 0 .. MaxEvents,
           NEW mods \in Modifications
    PROVE  /\ diverges(events, mods) => \E s \in DOMAIN mods : mods[s] = "replace"
           /\ replayResult(events, mods) = "replaced" => diverges(events, mods)
           /\ Len(replayed(events, mods)) = Cardinality({i \in DOMAIN events : mods[events[i].seq] # "skip"})
<1> DEFINE I == {i \in DOMAIN events : mods[events[i].seq] # "skip"}
           kept == Kept(events, mods)
           m == Cardinality(I)
           event(i) == [seq |-> i - 1, type |-> kept[i].type,
                        result |-> IF mods[kept[i].seq] = "replace" /\ kept[i].type # "tool_call"
                                   THEN "replaced" ELSE "recorded"]
           all == [i \in DOMAIN kept |-> event(i)]
<1>1. I \in SUBSET (DOMAIN events) /\ kept = Filtered(events, I) /\ all = replayed(events, mods)
    BY DEF Kept, replayed
<1> HIDE DEF I
<1>2. m \in Nat /\ DOMAIN kept = 1 .. m /\ \A k \in 1 .. m : \E i \in I : kept[k] = events[i]
    BY <1>1, FilteredFacts
<1>3. \A k \in 1 .. m : kept[k].seq \in 0 .. MaxEvents
    BY <1>1, <1>2
<1> HIDE DEF m, kept
<1>4. diverges(events, mods) => \E s \in DOMAIN mods : mods[s] = "replace"
    <2>1. DOMAIN mods = 0 .. MaxEvents
        BY DEF Modifications
    <2>. QED BY <1>2, <1>3, <2>1 DEF diverges, kept
<1>5. /\ DOMAIN all = 1 .. m /\ \A i \in 1 .. m : all[i] = event(i)
      /\ all \in Seq(Elements(all)) /\ Len(all) = m
    <2>1. DOMAIN all = 1 .. m /\ \A i \in 1 .. m : all[i] = event(i)
        BY <1>2
    <2>2. all = [i \in 1 .. m |-> all[i]]
        BY <1>2
    <2> HIDE DEF all, event
    <2>3. all \in [1 .. m -> Elements(all)]
        BY <2>1, <2>2 DEF Elements
    <2>. QED BY <1>2, <2>1, <2>3
<1>6. \A i \in 1 .. m : /\ all[i].type = kept[i].type
                        /\ all[i].result = "replaced" => mods[kept[i].seq] = "replace"
    BY <1>5
<1> DEFINE C == {i \in DOMAIN all : all[i].type = "code_result"}
           codes == Filtered(all, C)
<1> HIDE DEF all
<1>7. C \in SUBSET (DOMAIN all)
    OBVIOUS
<1>8. replayResult(events, mods) = IF codes = <<>> THEN "undefined" ELSE codes[Len(codes)].result
    BY <1>1 DEF replayResult
<1> HIDE DEF C
<1>9. /\ codes \in Seq(Elements(all)) /\ Len(codes) = Cardinality(C) /\ Cardinality(C) \in Nat
      /\ \A k \in 1 .. Cardinality(C) : \E i \in C : codes[k] = all[i]
    BY <1>5, <1>7, FilteredFacts
<1> HIDE DEF codes
<1>10. ASSUME replayResult(events, mods) = "replaced" PROVE diverges(events, mods)
    <2>1. codes # <<>> /\ codes[Len(codes)].result = "replaced"
        BY <1>8, <1>10
    <2>2. Len(codes) \in 1 .. Cardinality(C)
        BY <1>9, <2>1
    <2>3. PICK i \in C : codes[Len(codes)] = all[i]
        BY <1>9, <2>2
    <2>4. i \in 1 .. m /\ all[i].type = "code_result" /\ all[i].result = "replaced"
        BY <1>5, <2>1, <2>3 DEF C
    <2>5. i \in DOMAIN kept /\ kept[i].type = "code_result" /\ mods[kept[i].seq] = "replace"
        BY <1>2, <1>6, <2>4
    <2>. QED BY <2>5 DEF diverges, kept
<1>. QED BY <1>1, <1>4, <1>5, <1>10 DEF I, m

\* Replay without a modification.
LEMMA ReplayUnmodified ==
    ASSUME NEW events \in Seq(Line), \A i \in DOMAIN events : events[i].seq = i - 1, Len(events) <= MaxEvents
    PROVE  \A i \in DOMAIN events : /\ replayed(events, NoModification)[i].seq = events[i].seq
                                    /\ replayed(events, NoModification)[i].type = events[i].type
<1> DEFINE l == Len(events)
           kept == Kept(events, NoModification)
<1>1. l \in Nat /\ DOMAIN events = 1 .. l /\ MaxEvents \in Nat
    BY RecordingsAssumption
<1>2. \A i \in DOMAIN events : NoModification[events[i].seq] = "none"
    <2>1. \A i \in 1 .. l : i - 1 \in 0 .. MaxEvents
        BY <1>1
    <2>. QED BY <1>1, <2>1 DEF NoModification
<1>3. {i \in DOMAIN events : NoModification[events[i].seq] # "skip"} = 1 .. l
    BY <1>1, <1>2
<1>4. kept = Filtered(events, 1 .. Len(events))
    BY <1>3 DEF Kept
<1>5. kept = [k \in 1 .. Len(events) - 1 + 1 |-> events[k + 1 - 1]]
    <2>1. 1 \in 1 .. Len(events) + 1
        BY <1>1
    <2>. QED BY <1>4, <2>1, FilteredRest
<1>6. DOMAIN kept = 1 .. l /\ \A k \in 1 .. l : kept[k] = events[k]
    <2>1. l - 1 + 1 = l /\ \A k \in 1 .. l : k + 1 - 1 = k
        BY <1>1
    <2>. QED BY <1>5, <2>1
<1> HIDE DEF kept
<1>7. \A i \in 1 .. l : /\ replayed(events, NoModification)[i].seq = i - 1
                        /\ replayed(events, NoModification)[i].type = kept[i].type
    BY <1>6 DEF replayed, kept
<1>. QED BY <1>1, <1>6, <1>7

LEMMA ImpliesRecInv == RecordingsInv => RecInv
<1> SUFFICES ASSUME RecordingsInv PROVE RecInv
    OBVIOUS
<1>1. LinesType /\ NumberedInv
    BY DEF RecordingsInv
<1>2. RecTypeOK
    BY <1>1 DEF LinesType, RecTypeOK, Elements
<1>3. ASSUME NEW r \in Recordings, session[r].active, Exists(r)
      PROVE  LET events == journal[r]
             IN  /\ Loads(r)
                 /\ \A i \in DOMAIN events : events[i].seq = session[r].seq - Len(events) + i - 1
                 /\ r \notin unsafe =>
                       /\ Len(events) = session[r].seq
                       /\ LET again == replayed(events, NoModification)
                          IN  \A i \in DOMAIN events :
                                 again[i].seq = events[i].seq /\ again[i].type = events[i].type
                 /\ \A mods \in Modifications :
                       /\ diverges(events, mods) => \E s \in DOMAIN mods : mods[s] = "replace"
                       /\ replayResult(events, mods) = "replaced" => diverges(events, mods)
                       /\ Len(replayed(events, mods)) =
                             Cardinality({i \in DOMAIN events : mods[events[i].seq] # "skip"})
    <2> DEFINE events == journal[r]
               n == session[r].seq
               l == Len(events)
    <2>1. events \in Seq(Line) /\ n \in 0 .. MaxEvents /\ events # NoFile
        BY <1>1, <1>3 DEF LinesType, Exists
    <2>2. /\ \A i \in DOMAIN events : events[i] # Half /\ events[i].seq = n - l + i - 1
          /\ r \notin unsafe => l = n
        BY <1>1, <1>3, <2>1 DEF NumberedInv, Numbered
    <2>3. Loads(r)
        BY <1>3, <2>2 DEF Loads
    <2> HIDE DEF events, n
    <2>4. l \in Nat /\ DOMAIN events = 1 .. l /\ MaxEvents \in Nat /\ n \in Nat /\ n <= MaxEvents
        BY <2>1, RecordingsAssumption
    <2>5. \A i \in DOMAIN events : events[i].seq \in Nat
        <3>1. \A i \in DOMAIN events : events[i] \in Line
            BY <2>1
        <3>. QED BY <2>2, <3>1 DEF Line
    <2> HIDE DEF l
    <2>6. \A i \in 1 .. l : n - l + i - 1 <= MaxEvents
        BY <2>4
    <2>7. \A i \in DOMAIN events : events[i].seq \in 0 .. MaxEvents
        BY <2>2, <2>4, <2>5, <2>6
    <2>8. ASSUME r \notin unsafe
          PROVE  \A i \in DOMAIN events : /\ replayed(events, NoModification)[i].seq = events[i].seq
                                          /\ replayed(events, NoModification)[i].type = events[i].type
        <3>1. l = n
            BY <2>2, <2>8
        <3>2. \A i \in 1 .. l : n - l + i - 1 = i - 1
            BY <2>4, <3>1
        <3>3. \A i \in DOMAIN events : events[i].seq = i - 1
            BY <2>2, <2>4, <3>2
        <3>. QED BY <2>1, <2>4, <3>1, <3>3, ReplayUnmodified DEF l
    <2>9. \A mods \in Modifications :
             /\ diverges(events, mods) => \E s \in DOMAIN mods : mods[s] = "replace"
             /\ replayResult(events, mods) = "replaced" => diverges(events, mods)
             /\ Len(replayed(events, mods)) = Cardinality({i \in DOMAIN events : mods[events[i].seq] # "skip"})
        BY <2>1, <2>7, ReplayFacts
    <2>. QED BY <2>2, <2>3, <2>8, <2>9 DEF events, n, l
<1>4. JournalReplays
    BY <1>3 DEF JournalReplays
<1>. QED BY <1>2, <1>4 DEF RecInv

-----------------------------------------------------------------------------
\* ConfigWatcher.

LEMMA WatcherInit == CWInit => CWInv
<1> SUFFICES ASSUME CWInit PROVE CWInv
    OBVIOUS
<1>1. reloads \in 0 .. MaxReloads
    BY ConfigWatcherAssumption DEF CWInit
<1>2. ChangesRead
    BY DEF CWInit, ChangesRead
<1>. QED BY <1>1, <1>2 DEF CWInit, CWInv, CWTypeOK

\* The number of the reloads that run, in one step.
LEMMA ReloadsCounted ==
    ASSUME CWInv, [CWNext]_cwVars
    PROVE  reloads' \in 0 .. MaxReloads
<1>1. /\ reloads \in 0 .. MaxReloads
      /\ \/ reloads' = reloads \/ (reloads < MaxReloads /\ reloads' = reloads + 1)
         \/ (reloads > 0 /\ reloads' = reloads - 1)
    BY DEF CWInv, CWTypeOK, CWNext, cwVars, startWatching, stopWatching, watcherClosed, handleChange,
       configChanged, triggerReload, reload, reloadEnds, conductorEdited
<1>. QED BY <1>1, ConfigWatcherAssumption

\* One step of the watcher.
LEMMA WatcherStep ==
    ASSUME CWInv, [CWNext]_cwVars
    PROVE  CWInv'
<1> DEFINE Switches ==
        /\ watching \in {"off", "on", "closing"}
        /\ isRunning \in BOOLEAN /\ debounceTimer \in BOOLEAN /\ exclusive \in BOOLEAN /\ promised \in BOOLEAN
        /\ fileSeen \in {"changed", "read", "passedOver"}
<1>1. Switches /\ ChangesRead
    BY DEF CWInv, CWTypeOK
<1>2. Switches' /\ ChangesRead'
    <2>1. CASE startWatching
        <3>1. CASE watching = "on"
            BY <1>1, <2>1, <3>1 DEF startWatching, ChangesRead
        <3>2. CASE watching # "on" /\ isRunning
            BY <1>1, <2>1, <3>2, promised' = FALSE DEF startWatching, ChangesRead
        <3>3. CASE ~isRunning
            <4>1. CASE /\ watching' = "on" /\ isRunning' = TRUE /\ promised' = TRUE /\ fileSeen' = "read"
                       /\ UNCHANGED <<debounceTimer, exclusive>>
                BY <1>1, <4>1 DEF ChangesRead
            <4>2. CASE promised' = FALSE /\ UNCHANGED <<watching, isRunning, debounceTimer, exclusive, fileSeen>>
                BY <1>1, <4>2 DEF ChangesRead
            <4>. QED BY <2>1, <3>3, <4>1, <4>2 DEF startWatching
        <3>. QED BY <1>1, <3>1, <3>2, <3>3
    <2>2. CASE stopWatching
        BY <1>1, <2>2 DEF stopWatching, ChangesRead
    <2>3. CASE watcherClosed
        BY <1>1, <2>3 DEF watcherClosed, ChangesRead
    <2>4. CASE handleChange
        BY <1>1, <2>4 DEF handleChange, ChangesRead
    <2>5. CASE configChanged
        BY <1>1, <2>5 DEF configChanged, reload, ChangesRead
    <2>6. CASE triggerReload
        BY <1>1, <2>6 DEF triggerReload, reload, ChangesRead
    <2>7. CASE reloadEnds
        BY <1>1, <2>7 DEF reloadEnds, ChangesRead
    <2>8. CASE conductorEdited
        BY <1>1, <2>8 DEF conductorEdited, ChangesRead
    <2>9. CASE UNCHANGED cwVars
        BY <1>1, <2>9 DEF cwVars, ChangesRead
    <2>. QED BY <2>1, <2>2, <2>3, <2>4, <2>5, <2>6, <2>7, <2>8, <2>9 DEF CWNext
<1>. QED BY <1>2, ReloadsCounted DEF CWInv, CWTypeOK

-----------------------------------------------------------------------------
\* ToolRegistry.

\* The tools the catalog and the snapshot hold.
Tool == {NoTool} \cup [def : Definitions, routing : Routings]
HeldInv == catalog \in [ToolKeys -> Tool] /\ snapshot \in [ToolKeys -> Tool]
CatalogInv == TRInv /\ HeldInv

LEMMA ToolFacts ==
    /\ NoTool.def = "none" /\ NoTool.routing = "unset"
    /\ \A t \in Tool : /\ t = NoTool \/ (t.def \in Definitions /\ t.routing \in Routings)
                       /\ t # NoTool => t.def # "none"
                       /\ \A d \in Definitions : [t EXCEPT !.def = d] \in Tool
                       /\ \A d \in Definitions : [t EXCEPT !.def = d].def = d
                       /\ \A d \in Definitions : [t EXCEPT !.def = d].routing = t.routing
BY DEF Tool, NoTool, Definitions, Routings

LEMMA RoutingFacts ==
    \A t \in Tool, r \in Routings :
        t # NoTool => /\ [t EXCEPT !.routing = r] \in Tool
                      /\ [t EXCEPT !.routing = r].def = t.def
                      /\ [t EXCEPT !.routing = r].routing = r
BY DEF Tool, NoTool, Definitions, Routings

LEMMA CatalogInit == TRInit => CatalogInv
BY ToolRegistryAssumption, ToolFacts
   DEF TRInit, CatalogInv, TRInv, HeldInv, TRTypeOK, CatalogFollows, WatcherFollows, PassthroughRegistered, Tool

\* refreshServer: the keys of the server follow what the hub has, the others
\* stay or are noted as foreign.
LEMMA Refreshed ==
    ASSUME CatalogInv, NEW s \in Servers, NEW tools \in [ToolKeys -> Definitions \cup {"none"}],
           refreshServer(s, tools)
    PROVE  /\ catalog' \in [ToolKeys -> Tool]
           /\ mirror' \in [ToolKeys -> Definitions \cup {"none"}]
           /\ foreign' \cup unheard' \subseteq ToolKeys
           /\ \A k \in ToolsOf(s) : k \notin foreign' /\ catalog'[k].def = tools[k]
           /\ \A k \in ToolKeys \ ToolsOf(s) : k \notin foreign' => k \notin foreign /\ catalog'[k] = catalog[k]
           /\ \A k \in ToolKeys \ unheard' : mirror'[k] = catalog'[k].def
           /\ \A k \in ToolKeys : catalog'[k].routing \in {"unset", catalog[k].routing}
<1> DEFINE incoming == {k \in ToolsOf(s) : tools[k] # "none"}
           removed  == {k \in Under(s) : InCatalog(k)} \ incoming
           added    == {k \in incoming : ~InCatalog(k)}
           updated  == {k \in incoming \ added : catalog[k].def # tools[k]}
<1>1. /\ catalog' = [k \in ToolKeys |->
                        IF k \in incoming THEN [catalog[k] EXCEPT !.def = tools[k]]
                        ELSE IF k \in removed THEN NoTool ELSE catalog[k]]
      /\ mirror' = [k \in ToolKeys |->
                        IF k \in added \cup updated THEN tools[k]
                        ELSE IF k \in removed /\ Owner[k] = s THEN "none" ELSE mirror[k]]
      /\ foreign' = (foreign \ ToolsOf(s)) \cup (removed \ ToolsOf(s))
      /\ unheard' = (unheard \ (added \cup updated \cup removed)) \cup (removed \ ToolsOf(s))
    BY DEF refreshServer
<1>2. /\ \A k \in incoming : k \in ToolKeys /\ tools[k] \in Definitions /\ k \in ToolsOf(s)
      /\ removed \subseteq ToolKeys /\ added \subseteq incoming /\ updated \subseteq incoming
      /\ \A k \in ToolsOf(s) : k \in ToolKeys /\ Owner[k] = s
      /\ \A k \in ToolsOf(s) \ incoming : tools[k] = "none" /\ (k \in removed \/ catalog[k] = NoTool)
      /\ \A k \in incoming \ (added \cup updated) : catalog[k].def = tools[k]
    BY ToolRegistryAssumption DEF ToolsOf, Under, InCatalog
<1>3. /\ catalog \in [ToolKeys -> Tool] /\ mirror \in [ToolKeys -> Definitions \cup {"none"}]
      /\ foreign \subseteq ToolKeys /\ unheard \subseteq ToolKeys
      /\ \A k \in ToolKeys \ unheard : mirror[k] = catalog[k].def
    BY DEF CatalogInv, TRInv, TRTypeOK, HeldInv, WatcherFollows
<1>4. \A k \in removed \ ToolsOf(s) : k \in foreign' /\ k \in unheard'
    BY <1>1
<1>4a. \A k \in removed : Owner[k] = s => k \in ToolsOf(s)
    BY <1>2 DEF ToolsOf
<1> HIDE DEF incoming, removed, added, updated
<1>5. \A k \in ToolKeys :
        /\ k \in incoming => catalog'[k] = [catalog[k] EXCEPT !.def = tools[k]]
        /\ k \notin incoming /\ k \in removed => catalog'[k] = NoTool
        /\ k \notin incoming /\ k \notin removed => catalog'[k] = catalog[k]
    BY <1>1
<1>6. catalog' \in [ToolKeys -> Tool]
    <2>1. NoTool \in Tool
        BY DEF Tool
    <2>2. ASSUME NEW k \in ToolKeys PROVE catalog'[k] \in Tool
        <3>1. CASE k \in incoming
            <4>1. catalog[k] \in Tool /\ tools[k] \in Definitions
                BY <1>2, <1>3, <3>1
            <4>2. catalog'[k] = [catalog[k] EXCEPT !.def = tools[k]]
                BY <1>5, <3>1
            <4>. QED BY <4>1, <4>2 DEF Tool, NoTool, Routings
        <3>2. CASE k \notin incoming
            BY <1>3, <1>5, <2>1, <3>2
        <3>. QED BY <3>1, <3>2
    <2>. QED BY <1>1, <2>2
<1>7. \A k \in ToolKeys : catalog'[k].routing \in {"unset", catalog[k].routing}
    <2> SUFFICES ASSUME NEW k \in ToolKeys PROVE catalog'[k].routing \in {"unset", catalog[k].routing}
        OBVIOUS
    <2>1. CASE k \in incoming
        <3>1. catalog[k] \in Tool /\ tools[k] \in Definitions
            BY <1>2, <1>3, <2>1
        <3>2. catalog'[k] = [catalog[k] EXCEPT !.def = tools[k]]
            BY <1>5, <2>1
        <3>. QED BY <3>1, <3>2 DEF Tool, NoTool
    <2>2. CASE k \notin incoming
        BY <1>5, <2>2, ToolFacts
    <2>. QED BY <2>1, <2>2
<1>8. \A k \in ToolsOf(s) : k \notin foreign' /\ catalog'[k].def = tools[k]
    BY <1>1, <1>2, <1>3, <1>5, ToolFacts
<1>9. \A k \in ToolKeys \ ToolsOf(s) : k \notin foreign' => k \notin foreign /\ catalog'[k] = catalog[k]
    BY <1>1, <1>2, <1>4, <1>5
<1>10. foreign' \cup unheard' \subseteq ToolKeys
    BY <1>1, <1>2, <1>3
<1>11. mirror' \in [ToolKeys -> Definitions \cup {"none"}]
    BY <1>1, <1>2, <1>3
<1>12. ASSUME NEW k \in ToolKeys, k \notin unheard' PROVE mirror'[k] = catalog'[k].def
    <2>1. CASE k \in added \cup updated
        BY <2>1, <1>1, <1>2, <1>8
    <2>2. CASE k \in incoming \ (added \cup updated)
        <3>1. k \notin removed
            BY <2>2 DEF removed
        <3>2. mirror'[k] = mirror[k] /\ mirror[k] = catalog[k].def
            BY <1>1, <1>3, <1>12, <2>2, <3>1
        <3>. QED BY <1>2, <1>8, <2>2, <3>2
    <2>3. CASE k \notin incoming /\ k \in removed
        <3>1. Owner[k] = s
            BY <1>12, <1>4, <1>2, <2>3
        <3>. QED BY <1>1, <1>2, <1>5, <2>3, <3>1, ToolFacts
    <2>4. CASE k \notin incoming /\ k \notin removed
        BY <1>1, <1>2, <1>3, <1>5, <1>12, <2>4
    <2>. QED BY <1>2, <2>1, <2>2, <2>3, <2>4
<1>. QED BY <1>6, <1>7, <1>8, <1>9, <1>10, <1>11, <1>12

\* What a refresh of s leaves of the invariant, when the hub's tools of the
\* other servers and their connections are as before.
LEMMA RefreshKeeps ==
    ASSUME CatalogInv, NEW s \in Servers, refreshServer(s, toolCache'),
           toolCache' \in [ToolKeys -> Definitions \cup {"none"}],
           link' \in [Servers -> {"down", "listing", "cut", "up", "lost"}], abandoned' \subseteq Servers,
           \A k \in ToolKeys \ ToolsOf(s) : toolCache'[k] = toolCache[k],
           \A r \in Servers \ {s} : link'[r] = link[r],
           UNCHANGED <<startup, registered, snapshot>>
    PROVE  CatalogInv'
<1>1. /\ catalog' \in [ToolKeys -> Tool]
      /\ mirror' \in [ToolKeys -> Definitions \cup {"none"}]
      /\ foreign' \cup unheard' \subseteq ToolKeys
      /\ \A k \in ToolsOf(s) : k \notin foreign' /\ catalog'[k].def = toolCache'[k]
      /\ \A k \in ToolKeys \ ToolsOf(s) : k \notin foreign' => k \notin foreign /\ catalog'[k] = catalog[k]
      /\ \A k \in ToolKeys \ unheard' : mirror'[k] = catalog'[k].def
      /\ \A k \in ToolKeys : catalog'[k].routing \in {"unset", catalog[k].routing}
    BY Refreshed
<1>2. TRTypeOK' /\ HeldInv'
    <2>1. \A k \in ToolKeys : catalog'[k] \in Tool
        BY <1>1
    <2>2. \A k \in ToolKeys : catalog'[k] = NoTool \/ (catalog'[k].def \in Definitions /\ catalog'[k].routing \in Routings)
        BY <2>1, ToolFacts
    <2>. QED BY <1>1, <2>2 DEF CatalogInv, TRInv, TRTypeOK, HeldInv
<1>3. CatalogFollows'
    <2> SUFFICES ASSUME NEW k \in ToolKeys, k \notin foreign', link'[Owner[k]] = "up"
                 PROVE  catalog'[k].def = toolCache'[k]
        BY DEF CatalogFollows
    <2>1. CASE k \in ToolsOf(s)
        BY <1>1, <2>1
    <2>2. CASE k \notin ToolsOf(s)
        BY <1>1, <2>2, ToolRegistryAssumption DEF CatalogInv, TRInv, CatalogFollows, ToolsOf
    <2>. QED BY <2>1, <2>2
<1>4. WatcherFollows' /\ PassthroughRegistered'
    BY <1>1 DEF CatalogInv, TRInv, WatcherFollows, PassthroughRegistered
<1>. QED BY <1>2, <1>3, <1>4 DEF CatalogInv, TRInv

\* A step of the hub that the registry hears nothing of.
LEMMA HubStepKeeps ==
    ASSUME CatalogInv, NEW s \in Servers, Unrefreshed, OthersSame,
           toolCache' \in [ToolKeys -> Definitions \cup {"none"}],
           link' \in [Servers -> {"down", "listing", "cut", "up", "lost"}], link'[s] # "up",
           abandoned' \subseteq Servers,
           \A k \in ToolKeys \ ToolsOf(s) : toolCache'[k] = toolCache[k],
           \A r \in Servers \ {s} : link'[r] = link[r]
    PROVE  CatalogInv'
<1>1. TRTypeOK' /\ HeldInv' /\ WatcherFollows' /\ PassthroughRegistered'
    BY DEF CatalogInv, TRInv, TRTypeOK, HeldInv, WatcherFollows, PassthroughRegistered, Unrefreshed, OthersSame
<1>2. CatalogFollows'
    <2> SUFFICES ASSUME NEW k \in ToolKeys, k \notin foreign', link'[Owner[k]] = "up"
                 PROVE  catalog'[k].def = toolCache'[k]
        BY DEF CatalogFollows
    <2>1. k \notin ToolsOf(s)
        BY DEF ToolsOf
    <2>. QED BY <2>1, ToolRegistryAssumption
           DEF CatalogInv, TRInv, CatalogFollows, ToolsOf, Unrefreshed
<1>. QED BY <1>1, <1>2 DEF CatalogInv, TRInv

\* Names that are fewer than the tools they stand for are not all different.
LEMMA SharedName ==
    ASSUME NEW P, P \subseteq ToolKeys, Cardinality({ComposedName[k] : k \in P}) # Cardinality(P)
    PROVE  \E j, k \in ToolKeys : j # k /\ ComposedName[j] = ComposedName[k]
<1> DEFINE N == {ComposedName[k] : k \in P}
           f == [k \in P |-> ComposedName[k]]
<1> SUFFICES ASSUME \A j, k \in ToolKeys : ComposedName[j] = ComposedName[k] => j = k
             PROVE  FALSE
    OBVIOUS
<1>1. IsFiniteSet(P)
    BY ToolRegistryAssumption, FS_Subset
<1>2. f \in Bijection(P, N)
    <2>1. f \in [P -> N]
        OBVIOUS
    <2>2. \A a, b \in P : f[a] = f[b] => a = b
        OBVIOUS
    <2>3. \A t \in N : \E a \in P : f[a] = t
        OBVIOUS
    <2> HIDE DEF f, N
    <2>. QED BY <2>1, <2>2, <2>3 DEF Bijection, Injection, IsInjective, Surjection
<1>3. Cardinality(N) = Cardinality(P)
    <2> HIDE DEF f, N
    <2>1. ExistsBijection(P, N)
        BY <1>2 DEF ExistsBijection
    <2>2. Cardinality(N) = Cardinality(P)
        BY <1>1, <2>1, FS_Bijection
    <2>. QED BY <2>2
<1>. QED BY <1>3

\* start() after its refresh: what is routed to passthrough is registered, or
\* two of its tools have one name.
LEMMA RegisterStep ==
    ASSUME CatalogInv, registerPassthroughTools
    PROVE  CatalogInv'
<1>1. PICK perServer \in PerServerRouting :
        /\ catalog' = annotated(perServer)
        /\ LET passthrough == {k \in ToolKeys : catalog'[k].routing = "passthrough"}
               names == {ComposedName[k] : k \in passthrough}
           IN  \/ /\ Cardinality(names) = Cardinality(passthrough)
                  /\ registered' = names /\ startup' = "started"
               \/ /\ Cardinality(names) # Cardinality(passthrough)
                  /\ registered' \in SUBSET names /\ startup' = "failed"
    BY DEF registerPassthroughTools
<1>2. UNCHANGED <<link, toolCache, abandoned, mirror, toRefresh, snapshot, foreign, unheard>>
    BY DEF registerPassthroughTools
<1> DEFINE route(k) == IF perServer[Owner[k]] # "auto" THEN perServer[Owner[k]]
                       ELSE IF catalog[k].routing = "unset" THEN builtIn(k) ELSE catalog[k].routing
<1>3. \A k \in ToolKeys :
        /\ ~InCatalog(k) => catalog'[k] = NoTool
        /\ InCatalog(k) => catalog'[k] = [catalog[k] EXCEPT !.routing = route(k)]
    BY <1>1 DEF annotated
<1>4. \A k \in ToolKeys : catalog[k] \in Tool
    BY DEF CatalogInv, HeldInv
<1>5. \A k \in ToolKeys : InCatalog(k) => route(k) \in Routings
    BY <1>4, ToolFacts, ToolRegistryAssumption DEF builtIn, Routings, InCatalog
<1>6. DOMAIN catalog' = ToolKeys /\ catalog' = [k \in ToolKeys |-> catalog'[k]]
    BY <1>1 DEF annotated
<1> HIDE DEF route
<1>7. ASSUME NEW k \in ToolKeys PROVE catalog'[k] \in Tool /\ catalog'[k].def = catalog[k].def
    <2>1. CASE ~InCatalog(k)
        BY <1>3, <2>1 DEF Tool, InCatalog
    <2>2. CASE InCatalog(k)
        <3>1. catalog[k] \in Tool /\ catalog[k] # NoTool /\ route(k) \in Routings
            BY <1>4, <1>5, <2>2 DEF InCatalog
        <3>2. catalog'[k] = [catalog[k] EXCEPT !.routing = route(k)]
            BY <1>3, <2>2
        <3>. QED BY <3>1, <3>2 DEF Tool
    <2>. QED BY <2>1, <2>2
<1>8. TRTypeOK' /\ HeldInv'
    <2>1. \A k \in ToolKeys : catalog'[k] = NoTool \/ (catalog'[k].def \in Definitions /\ catalog'[k].routing \in Routings)
        BY <1>7, ToolFacts
    <2>2. startup' \in {"new", "refreshing", "started", "failed"}
        BY <1>1
    <2>3. catalog' \in [ToolKeys -> Tool]
        BY <1>6, <1>7
    <2>. QED BY <1>2, <2>1, <2>2, <2>3 DEF CatalogInv, TRInv, TRTypeOK, HeldInv
<1>9. CatalogFollows' /\ WatcherFollows'
    BY <1>2, <1>7 DEF CatalogInv, TRInv, CatalogFollows, WatcherFollows
<1>10. PassthroughRegistered'
    <2> DEFINE P == {k \in ToolKeys : catalog'[k].routing = "passthrough"}
    <2>1. CASE startup' = "started"
        BY <1>1, <2>1 DEF PassthroughRegistered
    <2>2. CASE startup' = "failed"
        <3>1. Cardinality({ComposedName[k] : k \in P}) # Cardinality(P)
            BY <1>1, <2>2
        <3>. QED BY <2>2, <3>1, SharedName DEF PassthroughRegistered
    <2>. QED BY <1>1, <2>1, <2>2
<1>. QED BY <1>8, <1>9, <1>10 DEF CatalogInv, TRInv

\* One step of the registry and the hub.
LEMMA CatalogStep ==
    ASSUME CatalogInv, [TRNext]_trVars
    PROVE  CatalogInv'
<1>1. ASSUME NEW s \in Servers, connects(s) PROVE CatalogInv'
    <2>1. /\ link' \in [Servers -> {"down", "listing", "cut", "up", "lost"}] /\ link'[s] # "up"
          /\ \A r \in Servers \ {s} : link'[r] = link[r]
          /\ abandoned' \subseteq Servers
          /\ toolCache' \in [ToolKeys -> Definitions \cup {"none"}] /\ toolCache' = toolCache
          /\ Unrefreshed /\ OthersSame
        BY <1>1 DEF connects, CatalogInv, TRInv, TRTypeOK
    <2>. QED BY <2>1, HubStepKeeps
<1>2. ASSUME NEW s \in Servers, loses(s) PROVE CatalogInv'
    <2>1. /\ link' \in [Servers -> {"down", "listing", "cut", "up", "lost"}] /\ link'[s] # "up"
          /\ \A r \in Servers \ {s} : link'[r] = link[r]
          /\ abandoned' \subseteq Servers
          /\ toolCache' \in [ToolKeys -> Definitions \cup {"none"}] /\ toolCache' = toolCache
          /\ Unrefreshed /\ OthersSame
        BY <1>2 DEF loses, CatalogInv, TRInv, TRTypeOK
    <2>. QED BY <2>1, HubStepKeeps
<1>3. ASSUME NEW s \in Servers, disconnectServer(s) PROVE CatalogInv'
    <2>1. /\ link' \in [Servers -> {"down", "listing", "cut", "up", "lost"}] /\ link'[s] # "up"
          /\ \A r \in Servers \ {s} : link'[r] = link[r]
          /\ abandoned' \subseteq Servers
          /\ toolCache' \in [ToolKeys -> Definitions \cup {"none"}]
          /\ \A k \in ToolKeys \ ToolsOf(s) : toolCache'[k] = toolCache[k]
          /\ Unrefreshed /\ OthersSame
        BY <1>3 DEF disconnectServer, CatalogInv, TRInv, TRTypeOK
    <2>. QED BY <2>1, HubStepKeeps
<1>4. ASSUME NEW s \in Servers, cacheServerTools(s) PROVE CatalogInv'
    <2>1. /\ link' \in [Servers -> {"down", "listing", "cut", "up", "lost"}]
          /\ \A r \in Servers \ {s} : link'[r] = link[r]
          /\ abandoned' \subseteq Servers
        BY <1>4 DEF cacheServerTools, CatalogInv, TRInv, TRTypeOK
    <2>2. /\ toolCache' \in [ToolKeys -> Definitions \cup {"none"}]
          /\ \A k \in ToolKeys \ ToolsOf(s) : toolCache'[k] = toolCache[k]
        BY <1>4 DEF cacheServerTools, CatalogInv, TRInv, TRTypeOK
    <2>3. refreshServer(s, toolCache') /\ UNCHANGED <<startup, registered, snapshot>>
        BY <1>4 DEF cacheServerTools, OthersSame
    <2>. QED BY <2>1, <2>2, <2>3, RefreshKeeps
<1>5. ASSUME NEW s \in Servers, refreshNext(s) PROVE CatalogInv'
    <2>1. /\ refreshServer(s, toolCache) /\ UNCHANGED <<link, toolCache, abandoned, startup, registered, snapshot>>
          /\ toolCache \in [ToolKeys -> Definitions \cup {"none"}]
          /\ link \in [Servers -> {"down", "listing", "cut", "up", "lost"}]
        BY <1>5 DEF refreshNext, CatalogInv, TRInv, TRTypeOK
    <2>2. refreshServer(s, toolCache') /\ abandoned' \subseteq Servers
        BY <2>1 DEF CatalogInv, TRInv, TRTypeOK
    <2>. QED BY <2>1, <2>2, RefreshKeeps
<1>6. CASE refresh
    BY <1>6 DEF refresh, Unrefreshed, CatalogInv, TRInv, HeldInv, TRTypeOK, CatalogFollows, WatcherFollows,
       PassthroughRegistered
<1>7. CASE saveSnapshot
    <2>1. snapshot' \in [ToolKeys -> Tool]
        BY <1>7 DEF saveSnapshot, CatalogInv, HeldInv, Tool
    <2>. QED BY <1>7, <2>1 DEF saveSnapshot, Unrefreshed, CatalogInv, TRInv, HeldInv, TRTypeOK, CatalogFollows,
           WatcherFollows, PassthroughRegistered
<1>8. CASE loadSnapshot
    <2>1. PICK L \in SUBSET ToolKeys :
            /\ catalog' = [k \in ToolKeys |-> IF k \in L THEN snapshot[k] ELSE catalog[k]]
            /\ foreign' = foreign \cup L /\ unheard' = unheard \cup L
        BY <1>8 DEF loadSnapshot
    <2>2. startup' = "new" /\ UNCHANGED <<link, toolCache, abandoned, mirror, startup, snapshot, registered>>
        BY <1>8 DEF loadSnapshot, OthersSame
    <2>3. HeldInv' /\ TRTypeOK'
        <3>1. HeldInv'
            BY <2>1, <2>2 DEF CatalogInv, HeldInv
        <3>2. \A k \in ToolKeys : catalog'[k] = NoTool \/ (catalog'[k].def \in Definitions /\ catalog'[k].routing \in Routings)
            BY <3>1, ToolFacts DEF HeldInv
        <3>. QED BY <2>1, <2>2, <3>1, <3>2 DEF CatalogInv, TRInv, TRTypeOK
    <2>4. CatalogFollows' /\ WatcherFollows'
        BY <2>1, <2>2 DEF CatalogInv, TRInv, CatalogFollows, WatcherFollows
    <2>5. PassthroughRegistered'
        BY <2>2 DEF PassthroughRegistered
    <2>. QED BY <2>3, <2>4, <2>5 DEF CatalogInv, TRInv
<1>9. CASE processRestart
    BY <1>9, ToolFacts DEF processRestart, CatalogInv, TRInv, HeldInv, TRTypeOK, CatalogFollows, WatcherFollows,
       PassthroughRegistered, Tool
<1>10. CASE UNCHANGED trVars
    BY <1>10 DEF trVars, CatalogInv, TRInv, HeldInv, TRTypeOK, CatalogFollows, WatcherFollows,
       PassthroughRegistered
<1>11. ASSUME NEW s \in Servers, abandonedListing(s) PROVE CatalogInv'
    <2>1. /\ refreshServer(s, toolCache) /\ UNCHANGED <<link, toolCache, startup, registered, snapshot>>
          /\ abandoned' = abandoned \ {s}
          /\ toolCache \in [ToolKeys -> Definitions \cup {"none"}]
          /\ link \in [Servers -> {"down", "listing", "cut", "up", "lost"}]
        BY <1>11 DEF abandonedListing, OthersSame, CatalogInv, TRInv, TRTypeOK
    <2>2. refreshServer(s, toolCache') /\ abandoned' \subseteq Servers
        BY <2>1 DEF CatalogInv, TRInv, TRTypeOK
    <2>. QED BY <2>1, <2>2, RefreshKeeps
<1>. QED BY <1>1, <1>2, <1>3, <1>4, <1>5, <1>6, <1>7, <1>8, <1>9, <1>10, <1>11, RegisterStep DEF TRNext

-----------------------------------------------------------------------------
\* ServerConfig.

ServerMap == [ServerNames -> {"none", "own", "claude"}]
ConfigFiles == {Missing, Corrupt} \cup {File(f) : f \in ServerMap}
Operation == [op : {"put", "remove", "routing", "import", "strip", "wizard"}, stage : {"save", "rest"},
              servers : ServerMap, taken : SUBSET ServerNames, seen : SUBSET ServerNames]
NamesAnother == envPath /\ alternative # Missing
Meant(op) == CASE op = "remove" -> "none" [] op = "put" -> "own" [] OTHER -> "claude"

\* The files and the operations are what they should be.
FilesInv ==
    /\ primary \in ConfigFiles /\ alternative \in ConfigFiles /\ claude \in ConfigFiles
    /\ alternative # Corrupt /\ claude # Missing
    /\ backups \subseteq ServerNames
    /\ defaults \in [Processes -> ServerMap]
    /\ envPath \in BOOLEAN /\ atFault \in BOOLEAN
    /\ expected \in ServerMap
    /\ pending \in [Processes -> Operation \cup {NoOperation}]
    /\ \A p \in Processes : At(p, "rest") => pending[p].op \in {"strip", "wizard"}

\* As long as nothing is at fault the file that is read, which is the one
\* that is saved once an operation has begun, is what the answers say.
ReadInv ==
    ~atFault =>
        /\ primary # Corrupt
        /\ \A p \in Processes : defaults[p] = NoServers /\ loaded(p) = expected
        /\ \A p, q \in Processes : ~Idle(p) /\ ~Idle(q) => p = q
        /\ \A p \in Processes : ~Idle(p) => ~NamesAnother
        /\ \A p \in Processes : At(p, "save") =>
              \A n \in ServerNames :
                  pending[p].servers[n] = IF n \in pending[p].taken THEN Meant(pending[p].op) ELSE expected[n]

\* Who strips the Claude file has a backup of every definition.
StripInv == \A p \in Processes : ~Idle(p) /\ pending[p].op = "strip" => ServerNames \subseteq backups

ConfigInv == FilesInv /\ ReadInv /\ StripInv /\ NoDefinitionLost

LEMMA FileFacts ==
    /\ Missing # Corrupt /\ Missing.is # "ok" /\ Corrupt.is # "ok"
    /\ Missing \in ConfigFiles /\ Corrupt \in ConfigFiles
    /\ \A f \in ServerMap : /\ File(f) \in ConfigFiles /\ File(f).is = "ok" /\ File(f).servers = f
                            /\ File(f) # Missing /\ File(f) # Corrupt
    /\ \A x \in ConfigFiles : x = Missing \/ x = Corrupt \/ (x.is = "ok" /\ x.servers \in ServerMap)
<1>1. Missing # Corrupt /\ Missing.is # "ok" /\ Corrupt.is # "ok"
    BY DEF Missing, Corrupt
<1>2. \A f : File(f).is = "ok" /\ File(f).servers = f
    BY DEF File
<1>3. \A f : File(f) # Missing /\ File(f) # Corrupt
    BY <1>1, <1>2
<1>. QED BY <1>1, <1>2, <1>3 DEF ConfigFiles

LEMMA OperationFacts ==
    /\ NoOperation \notin Operation
    /\ \A r \in Operation : /\ r.op \in {"put", "remove", "routing", "import", "strip", "wizard"}
                            /\ r.stage \in {"save", "rest"}
                            /\ r.servers \in ServerMap
                            /\ r.taken \subseteq ServerNames /\ r.seen \subseteq ServerNames
BY DEF Operation, NoOperation

LEMMA NoServersFact == NoServers \in ServerMap
BY DEF NoServers, ServerMap

\* What loadConductorConfig() reads is a configuration.
LEMMA LoadedFact ==
    ASSUME FilesInv
    PROVE  \A p \in Processes : loaded(p) \in ServerMap
<1>1. found \in ConfigFiles
    BY DEF FilesInv, found
<1>. QED BY <1>1, FileFacts, NoServersFact DEF FilesInv, loaded, Parses

LEMMA InClaudeFact ==
    ASSUME FilesInv
    PROVE  InClaude \subseteq ServerNames
BY DEF InClaude, Named

LEMMA ImpliesSCInv == ConfigInv => SCInv
<1> SUFFICES ASSUME ConfigInv PROVE SCInv
    OBVIOUS
<1>1. SCTypeOK
    BY DEF ConfigInv, FilesInv, SCTypeOK, ConfigFiles, ServerMap
<1>2. AnswersHold /\ DefaultsClean
    BY DEF ConfigInv, FilesInv, ReadInv, AnswersHold, DefaultsClean, Processes
<1>. QED BY <1>1, <1>2 DEF SCInv, ConfigInv

LEMMA ConfigInit == SCInit => ConfigInv
<1> SUFFICES ASSUME SCInit PROVE ConfigInv
    OBVIOUS
<1> DEFINE a == [n \in ServerNames |-> IF n \in AlternativeNames THEN "own" ELSE "none"]
           c == [n \in ServerNames |-> "claude"]
<1>1. a \in ServerMap /\ c \in ServerMap /\ NoServers \in ServerMap
    BY NoServersFact DEF ServerMap
<1>2. /\ primary = Missing /\ alternative \in {Missing, File(a)} /\ claude = File(c)
      /\ expected = IF Parses THEN found.servers ELSE NoServers
      /\ pending = [p \in Processes |-> NoOperation] /\ defaults = [p \in Processes |-> NoServers]
      /\ atFault = FALSE /\ envPath \in BOOLEAN /\ backups = {}
    BY DEF SCInit
<1> HIDE DEF a
<1>3. found = alternative /\ (found = Missing \/ found = File(a))
    BY <1>2 DEF found
<1>4. expected \in ServerMap /\ \A p \in Processes : loaded(p) = expected
    BY <1>1, <1>2, <1>3, FileFacts DEF Parses, loaded
<1>5. \A p \in Processes : Idle(p)
    BY <1>2 DEF Idle
<1>6. FilesInv
    BY <1>1, <1>2, <1>4, <1>5, FileFacts DEF FilesInv, At
<1>7. ReadInv /\ StripInv
    BY <1>2, <1>4, <1>5, FileFacts DEF ReadInv, StripInv, At
<1>8. InClaude = ServerNames
    BY <1>1, <1>2, FileFacts DEF InClaude, Named
<1>. QED BY <1>6, <1>7, <1>8 DEF ConfigInv, NoDefinitionLost

\* What an operation leaves when it has read.
LEMMA BeginsStep ==
    ASSUME ConfigInv, NEW p \in Processes,
           NEW op \in {"put", "remove", "routing", "import", "strip", "wizard"},
           NEW servers \in ServerMap, NEW taken \in SUBSET ServerNames, NEW stage \in {"save", "rest"},
           Begins(p, op, servers, taken, stage),
           stage = "rest" => op = "wizard",
           stage = "save" => \A n \in ServerNames :
               servers[n] = IF n \in taken THEN Meant(op) ELSE loaded(p)[n],
           backups \subseteq backups', backups' \subseteq backups \cup InClaude,
           op = "strip" => backups' = backups \cup InClaude
    PROVE  ConfigInv'
<1> DEFINE r == [op |-> op, stage |-> stage, servers |-> servers, taken |-> taken,
                 seen |-> IF op = "wizard" THEN InClaude ELSE {}]
<1>1. /\ Idle(p)
      /\ pending' = [pending EXCEPT ![p] = r]
      /\ defaults' = IF found = Corrupt THEN [defaults EXCEPT ![p] = servers] ELSE defaults
      /\ atFault' = (atFault \/ (\E q \in Processes : ~Idle(q)) \/ NamesAnother)
      /\ expected' = IF atFault' THEN NoServers ELSE expected
      /\ UNCHANGED <<primary, alternative, envPath, claude>>
    BY DEF Begins, NamesAnother
<1>2. r \in Operation /\ r.op = op /\ r.stage = stage /\ r.servers = servers /\ r.taken = taken
    BY InClaudeFact DEF ConfigInv, Operation
<1> HIDE DEF r
<1>3. /\ pending'[p] = r /\ \A q \in Processes \ {p} : pending'[q] = pending[q]
      /\ pending' \in [Processes -> Operation \cup {NoOperation}]
    BY <1>1, <1>2 DEF ConfigInv, FilesInv
<1>4. found' = found /\ NamesAnother' = NamesAnother /\ InClaude' = InClaude
    BY <1>1 DEF found, NamesAnother, InClaude
<1>5. FilesInv'
    <2>1. \A q \in Processes : At(q, "rest")' => pending'[q].op \in {"strip", "wizard"}
        BY <1>2, <1>3 DEF ConfigInv, FilesInv, At, Idle
    <2>2. backups' \subseteq ServerNames /\ atFault' \in BOOLEAN /\ expected' \in ServerMap
        BY <1>1, InClaudeFact, NoServersFact DEF ConfigInv, FilesInv
    <2>3. defaults' \in [Processes -> ServerMap]
        BY <1>1 DEF ConfigInv, FilesInv
    <2>. QED BY <1>1, <1>3, <2>1, <2>2, <2>3 DEF ConfigInv, FilesInv
<1>6. ReadInv'
    <2> SUFFICES ASSUME ~atFault' PROVE ReadInv'
        BY DEF ReadInv
    <2>1. ~atFault /\ (\A q \in Processes : Idle(q)) /\ ~NamesAnother /\ expected' = expected
        BY <1>1
    <2>2. found # Corrupt
        BY <2>1 DEF ConfigInv, FilesInv, ReadInv, found
    <2>3. \A q \in Processes : defaults'[q] = NoServers /\ loaded(q)' = expected'
        BY <1>1, <1>4, <2>1, <2>2 DEF ConfigInv, ReadInv, loaded, Parses
    <2>4. \A q \in Processes : ~Idle(q)' => q = p
        BY <1>3, <2>1 DEF Idle
    <2>5. At(p, "save")' => \A n \in ServerNames :
              pending'[p].servers[n] = IF n \in pending'[p].taken THEN Meant(pending'[p].op) ELSE expected'[n]
        BY <1>2, <1>3, <2>1 DEF At, ConfigInv, ReadInv
    <2>6. \A q \in Processes : At(q, "save")' => q = p
        BY <2>4 DEF At
    <2>. QED BY <1>1, <1>4, <2>1, <2>3, <2>4, <2>5, <2>6 DEF ConfigInv, ReadInv
<1>7. NoDefinitionLost'
    BY <1>4 DEF ConfigInv, NoDefinitionLost
<1>8. StripInv'
    <2>1. op = "strip" => ServerNames \subseteq backups'
        BY DEF ConfigInv, NoDefinitionLost
    <2>. QED BY <1>2, <1>3, <2>1 DEF ConfigInv, StripInv, Idle
<1>. QED BY <1>5, <1>6, <1>7, <1>8 DEF ConfigInv

\* The operations up to their first write.
LEMMA ReadingStep ==
    ASSUME ConfigInv,
           \/ \E n \in ServerNames : add_server(n) \/ cliAdd(n) \/ remove_server(n) \/ update_server(n)
           \/ \E p \in Processes : getRoutingRecommendations(p)
           \/ \E p \in Processes, op \in {"import", "strip"} : importServers(p, op)
           \/ mergeIntoConductor
    PROVE  ConfigInv'
<1>1. \A p \in Processes : loaded(p) \in ServerMap
    BY LoadedFact DEF ConfigInv
<1>2. InClaude \subseteq ServerNames
    BY InClaudeFact DEF ConfigInv
<1>3. \A p \in Processes : /\ Imported(p) \subseteq ServerNames
                           /\ WithImported(p) \in ServerMap
                           /\ \A n \in ServerNames :
                                 WithImported(p)[n] = IF n \in Imported(p) THEN "claude" ELSE loaded(p)[n]
    BY <1>1, <1>2 DEF Imported, WithImported, ServerMap
<1>4. ASSUME NEW p \in Processes, NEW n \in ServerNames, adds(p, n) PROVE ConfigInv'
    <2>1. /\ [loaded(p) EXCEPT ![n] = "own"] \in ServerMap
          /\ \A k \in ServerNames : [loaded(p) EXCEPT ![n] = "own"][k] = IF k \in {n} THEN Meant("put") ELSE loaded(p)[k]
        BY <1>1 DEF ServerMap, Meant
    <2>. QED BY <1>4, <2>1, BeginsStep DEF adds
<1>5. ASSUME NEW n \in ServerNames, remove_server(n) PROVE ConfigInv'
    <2> DEFINE p == "server"
    <2>1. /\ [loaded(p) EXCEPT ![n] = "none"] \in ServerMap /\ p \in Processes
          /\ \A k \in ServerNames : [loaded(p) EXCEPT ![n] = "none"][k] = IF k \in {n} THEN Meant("remove") ELSE loaded(p)[k]
        BY <1>1 DEF ServerMap, Meant, Processes
    <2>2. Begins(p, "remove", [loaded(p) EXCEPT ![n] = "none"], {n}, "save") /\ UNCHANGED backups
        BY <1>5 DEF remove_server
    <2> HIDE DEF p
    <2>. QED BY <2>1, <2>2, BeginsStep
<1>6. ASSUME NEW n \in ServerNames, update_server(n) PROVE ConfigInv'
    <2> DEFINE p == "server"
    <2>1. /\ [loaded(p) EXCEPT ![n] = "own"] \in ServerMap /\ p \in Processes
          /\ \A k \in ServerNames : [loaded(p) EXCEPT ![n] = "own"][k] = IF k \in {n} THEN Meant("put") ELSE loaded(p)[k]
        BY <1>1 DEF ServerMap, Meant, Processes
    <2>2. Begins(p, "put", [loaded(p) EXCEPT ![n] = "own"], {n}, "save") /\ UNCHANGED backups
        BY <1>6 DEF update_server
    <2> HIDE DEF p
    <2>. QED BY <2>1, <2>2, BeginsStep
<1>7. ASSUME NEW p \in Processes, getRoutingRecommendations(p) PROVE ConfigInv'
    BY <1>1, <1>7, BeginsStep DEF getRoutingRecommendations
<1>8. ASSUME NEW p \in Processes, NEW op \in {"import", "strip"}, importServers(p, op) PROVE ConfigInv'
    <2>1. \A n \in ServerNames : WithImported(p)[n] = IF n \in Imported(p) THEN Meant(op) ELSE loaded(p)[n]
        BY <1>3 DEF Meant
    <2>2. Begins(p, op, WithImported(p), Imported(p), "save") /\ backups' = backups \cup InClaude
        BY <1>8 DEF importServers
    <2>. QED BY <1>3, <2>1, <2>2, BeginsStep
<1>9. CASE mergeIntoConductor
    <2> DEFINE p == "cli"
    <2>0. p \in Processes /\ UNCHANGED backups
        BY <1>9 DEF Processes, mergeIntoConductor
    <2>1. CASE Begins(p, "wizard", WithImported(p), Imported(p), "save")
        <3>1. \A n \in ServerNames : WithImported(p)[n] = IF n \in Imported(p) THEN Meant("wizard") ELSE loaded(p)[n]
            BY <1>3, <2>0 DEF Meant
        <3>2. WithImported(p) \in ServerMap /\ Imported(p) \in SUBSET ServerNames
            BY <1>3, <2>0
        <3>. QED BY <2>0, <2>1, <3>1, <3>2, BeginsStep
    <2>2. CASE Begins(p, "wizard", NoServers, {}, "rest")
        BY <2>0, <2>2, BeginsStep, NoServersFact
    <2>. QED BY <1>9, <2>1, <2>2 DEF mergeIntoConductor
<1>10. "server" \in Processes /\ "cli" \in Processes
    BY DEF Processes
<1>. QED BY <1>4, <1>5, <1>6, <1>7, <1>8, <1>9, <1>10 DEF add_server, cliAdd

\* A dry run may change the default object, if the file is cut off.
LEMMA DryRunStep ==
    ASSUME ConfigInv, NEW p \in Processes, importDryRun(p)
    PROVE  ConfigInv'
<1>1. /\ defaults' = IF p = "server" /\ found = Corrupt
                     THEN [defaults EXCEPT ![p] = WithImported(p)] ELSE defaults
      /\ UNCHANGED <<primary, alternative, envPath, claude, backups, pending, expected, atFault>>
    BY DEF importDryRun
<1>2. WithImported(p) \in ServerMap
    BY LoadedFact, InClaudeFact DEF ConfigInv, WithImported, Imported, ServerMap
<1>3. found' = found /\ NamesAnother' = NamesAnother /\ InClaude' = InClaude
    BY <1>1 DEF found, NamesAnother, InClaude
<1>4. FilesInv'
    <2>1. defaults' \in [Processes -> ServerMap]
        BY <1>1, <1>2 DEF ConfigInv, FilesInv
    <2>. QED BY <1>1, <2>1 DEF ConfigInv, FilesInv, At, Idle
<1>5. ReadInv'
    <2> SUFFICES ASSUME ~atFault' PROVE ReadInv'
        BY DEF ReadInv
    <2>1. found # Corrupt
        BY <1>1 DEF ConfigInv, FilesInv, ReadInv, found
    <2>2. \A q \in Processes : defaults'[q] = NoServers /\ loaded(q)' = expected'
        BY <1>1, <1>3, <2>1 DEF ConfigInv, ReadInv, loaded, Parses
    <2>. QED BY <1>1, <1>3, <2>2 DEF ConfigInv, ReadInv, At, Idle
<1>6. NoDefinitionLost' /\ StripInv'
    BY <1>1, <1>3 DEF ConfigInv, NoDefinitionLost, StripInv, Idle
<1>. QED BY <1>4, <1>5, <1>6 DEF ConfigInv

\* What process p has pending, and what it is when it goes on or ends.
LEMMA PendingFacts ==
    ASSUME ConfigInv, NEW p \in Processes, ~Idle(p)
    PROVE  pending[p] \in Operation
BY DEF ConfigInv, FilesInv, Idle

LEMMA AfterSaveFacts ==
    ASSUME ConfigInv, NEW p \in Processes, At(p, "save"), AfterSave(p)
    PROVE  /\ pending' \in [Processes -> Operation \cup {NoOperation}]
           /\ defaults' \in [Processes -> ServerMap]
           /\ \A q \in Processes : defaults'[q] \in {defaults[q], NoServers}
           /\ \A q \in Processes \ {p} : pending'[q] = pending[q]
           /\ pending'[p] # NoOperation => pending'[p].stage = "rest" /\ pending'[p].op = pending[p].op
                                           /\ pending[p].op \in {"strip", "wizard"}
<1>1. pending[p] \in Operation /\ pending \in [Processes -> Operation \cup {NoOperation}]
      /\ defaults \in [Processes -> ServerMap]
    BY PendingFacts DEF ConfigInv, FilesInv, At
<1>2. CASE pending[p].op \in {"strip", "wizard"}
    <2> DEFINE r == [pending[p] EXCEPT !.stage = "rest", !.servers = NoServers,
                                       !.taken = IF pending[p].op = "strip" THEN @ ELSE {}]
    <2>1. pending' = [pending EXCEPT ![p] = r] /\ UNCHANGED defaults
        BY <1>2 DEF AfterSave
    <2>2. r \in Operation /\ r.stage = "rest" /\ r.op = pending[p].op
        BY <1>1, NoServersFact DEF Operation
    <2> HIDE DEF r
    <2>. QED BY <1>1, <1>2, <2>1, <2>2
<1>3. CASE pending[p].op \notin {"strip", "wizard"}
    BY <1>1, <1>3, NoServersFact DEF AfterSave, Ends
<1>. QED BY <1>2, <1>3

\* saveConductorConfig.
LEMMA SaveStep ==
    ASSUME ConfigInv, NEW p \in Processes, saveConductorConfig(p)
    PROVE  ConfigInv'
<1>1. /\ At(p, "save") /\ primary' = File(pending[p].servers)
      /\ expected' = [n \in ServerNames |-> IF atFault' THEN "none"
                        ELSE IF n \notin pending[p].taken THEN expected[n] ELSE Meant(pending[p].op)]
      /\ UNCHANGED <<atFault, alternative, envPath, claude, backups>> /\ AfterSave(p)
    BY DEF saveConductorConfig, Said, Meant
<1>2. pending[p] \in Operation /\ pending[p].servers \in ServerMap /\ ~Idle(p)
    BY <1>1, PendingFacts, OperationFacts DEF At
<1>3. /\ pending' \in [Processes -> Operation \cup {NoOperation}]
      /\ defaults' \in [Processes -> ServerMap]
      /\ \A q \in Processes : defaults'[q] \in {defaults[q], NoServers}
      /\ \A q \in Processes \ {p} : pending'[q] = pending[q]
      /\ pending'[p] # NoOperation => pending'[p].stage = "rest" /\ pending'[p].op = pending[p].op
                                      /\ pending[p].op \in {"strip", "wizard"}
    BY <1>1, AfterSaveFacts
<1>4. primary' \in ConfigFiles /\ primary' # Missing /\ primary' # Corrupt /\ primary'.is = "ok"
      /\ primary'.servers = pending[p].servers
    BY <1>1, <1>2, FileFacts
<1>5. NamesAnother' = NamesAnother /\ InClaude' = InClaude
    BY <1>1 DEF NamesAnother, InClaude
<1>6. FilesInv'
    <2>1. expected' \in ServerMap
        BY <1>1 DEF ConfigInv, FilesInv, ServerMap, Meant
    <2>2. \A q \in Processes : At(q, "rest")' => pending'[q].op \in {"strip", "wizard"}
        BY <1>3 DEF ConfigInv, FilesInv, At, Idle
    <2>. QED BY <1>1, <1>3, <1>4, <2>1, <2>2 DEF ConfigInv, FilesInv
<1>7. ReadInv'
    <2> SUFFICES ASSUME ~atFault' PROVE ReadInv'
        BY DEF ReadInv
    <2>1. ~atFault /\ ~NamesAnother /\ \A q \in Processes \ {p} : Idle(q)
        BY <1>1, <1>2 DEF ConfigInv, ReadInv
    <2>2. found' = primary'
        BY <1>1, <1>4, <2>1 DEF found, NamesAnother
    <2>3. \A n \in ServerNames : pending[p].servers[n] = expected'[n]
        BY <1>1, <2>1 DEF ConfigInv, ReadInv
    <2>4. pending[p].servers = expected'
        BY <1>1, <1>2, <2>3 DEF ServerMap
    <2>5. \A q \in Processes : loaded(q)' = expected' /\ defaults'[q] = NoServers
        BY <1>3, <1>4, <2>1, <2>2, <2>4 DEF loaded, Parses, ConfigInv, ReadInv
    <2>6. \A q \in Processes : ~At(q, "save")' /\ (~Idle(q)' => q = p)
        BY <1>3, <2>1 DEF At, Idle
    <2>. QED BY <1>4, <1>5, <2>1, <2>5, <2>6 DEF ReadInv
<1>8. NoDefinitionLost' /\ StripInv'
    BY <1>1, <1>2, <1>3, <1>5 DEF ConfigInv, NoDefinitionLost, StripInv, Idle
<1>. QED BY <1>6, <1>7, <1>8 DEF ConfigInv

\* A save that failed: a careful operation answers with an error.
LEMMA SaveFailsStep ==
    ASSUME ConfigInv, NEW p \in Processes, saveFails(p)
    PROVE  ConfigInv'
<1>1. /\ At(p, "save") /\ primary' \in {primary, Corrupt}
      /\ atFault' = (atFault \/ primary' = Corrupt \/ pending[p].op \in Careless)
      /\ expected' = IF atFault' THEN NoServers ELSE expected
      /\ UNCHANGED <<alternative, envPath, claude, backups>> /\ AfterSave(p)
    BY DEF saveFails
<1>2. pending[p] \in Operation /\ ~Idle(p)
    BY <1>1, PendingFacts DEF At
<1>3. /\ pending' \in [Processes -> Operation \cup {NoOperation}]
      /\ defaults' \in [Processes -> ServerMap]
      /\ \A q \in Processes : defaults'[q] \in {defaults[q], NoServers}
      /\ \A q \in Processes \ {p} : pending'[q] = pending[q]
      /\ pending'[p] # NoOperation => pending'[p].stage = "rest" /\ pending'[p].op = pending[p].op
                                      /\ pending[p].op \in {"strip", "wizard"}
    BY <1>1, AfterSaveFacts
<1>5. NamesAnother' = NamesAnother /\ InClaude' = InClaude
    BY <1>1 DEF NamesAnother, InClaude
<1>6. FilesInv'
    <2>1. expected' \in ServerMap /\ atFault' \in BOOLEAN /\ primary' \in ConfigFiles
        BY <1>1, NoServersFact, FileFacts DEF ConfigInv, FilesInv
    <2>2. \A q \in Processes : At(q, "rest")' => pending'[q].op \in {"strip", "wizard"}
        BY <1>3 DEF ConfigInv, FilesInv, At, Idle
    <2>. QED BY <1>1, <1>3, <2>1, <2>2 DEF ConfigInv, FilesInv
<1>7. ReadInv'
    <2> SUFFICES ASSUME ~atFault' PROVE ReadInv'
        BY DEF ReadInv
    <2>1. ~atFault /\ primary' = primary /\ primary # Corrupt /\ expected' = expected
        BY <1>1
    <2>2. found' = found
        BY <1>1, <2>1 DEF found
    <2>3. found # Corrupt
        BY <2>1 DEF ConfigInv, FilesInv, found
    <2>5. \A q \in Processes : loaded(q)' = expected' /\ defaults'[q] = NoServers
        BY <1>3, <2>1, <2>2, <2>3 DEF loaded, Parses, ConfigInv, ReadInv
    <2>6. \A q \in Processes : ~At(q, "save")' /\ (~Idle(q)' => q = p)
        BY <1>2, <1>3, <2>1 DEF At, Idle, ConfigInv, ReadInv
    <2>7. ~NamesAnother
        BY <1>2, <2>1 DEF ConfigInv, ReadInv
    <2>. QED BY <1>5, <2>1, <2>5, <2>6, <2>7 DEF ReadInv
<1>8. NoDefinitionLost' /\ StripInv'
    BY <1>1, <1>2, <1>3, <1>5 DEF ConfigInv, NoDefinitionLost, StripInv, Idle
<1>. QED BY <1>6, <1>7, <1>8 DEF ConfigInv

\* An operation that is over, whatever it left of the Claude file: nothing the
\* conductor reads has changed, or something is at fault.
LEMMA OverStep ==
    ASSUME ConfigInv, NEW p \in Processes, ~Idle(p),
           pending' = [pending EXCEPT ![p] = NoOperation],
           defaults' \in {defaults, [defaults EXCEPT ![p] = NoServers]},
           primary' \in {primary, Corrupt}, atFault' = (atFault \/ primary' # primary),
           expected' \in {expected, NoServers}, ~atFault' => UNCHANGED expected,
           UNCHANGED <<alternative, envPath>>,
           claude' \in ConfigFiles, claude' # Missing,
           backups \subseteq backups', backups' \subseteq ServerNames, NoDefinitionLost'
    PROVE  ConfigInv'
<1>1. /\ pending' \in [Processes -> Operation \cup {NoOperation}] /\ defaults' \in [Processes -> ServerMap]
      /\ \A q \in Processes : defaults'[q] \in {defaults[q], NoServers}
      /\ \A q \in Processes : ~Idle(q)' => ~Idle(q) /\ pending'[q] = pending[q]
    BY NoServersFact DEF ConfigInv, FilesInv, Idle
<1>2. FilesInv'
    <2>1. expected' \in ServerMap /\ atFault' \in BOOLEAN /\ primary' \in ConfigFiles
        BY NoServersFact, FileFacts DEF ConfigInv, FilesInv
    <2>2. \A q \in Processes : At(q, "rest")' => pending'[q].op \in {"strip", "wizard"}
        BY <1>1 DEF ConfigInv, FilesInv, At
    <2>. QED BY <1>1, <2>1, <2>2 DEF ConfigInv, FilesInv
<1>3. ReadInv'
    <2> SUFFICES ASSUME ~atFault' PROVE ReadInv'
        BY DEF ReadInv
    <2>1. ~atFault /\ primary' = primary /\ primary # Corrupt /\ expected' = expected
        BY DEF ConfigInv, ReadInv
    <2>2. found' = found /\ NamesAnother' = NamesAnother
        BY <2>1 DEF found, NamesAnother
    <2>3. found # Corrupt
        BY <2>1 DEF ConfigInv, FilesInv, found
    <2>4. \A q \in Processes : loaded(q)' = expected' /\ defaults'[q] = NoServers
        BY <1>1, <2>1, <2>2, <2>3 DEF loaded, Parses, ConfigInv, ReadInv
    <2>5. \A q \in Processes : At(q, "save")' => At(q, "save")
        BY <1>1 DEF At
    <2>6. \A q \in Processes : At(q, "save")' =>
              \A n \in ServerNames :
                  pending'[q].servers[n] = IF n \in pending'[q].taken THEN Meant(pending'[q].op) ELSE expected'[n]
        BY <1>1, <2>1, <2>5 DEF At, ConfigInv, ReadInv
    <2>. QED BY <1>1, <2>1, <2>2, <2>4, <2>6 DEF ConfigInv, ReadInv
<1>4. StripInv'
    BY <1>1 DEF ConfigInv, StripInv
<1>. QED BY <1>2, <1>3, <1>4 DEF ConfigInv

LEMMA StripStep ==
    ASSUME ConfigInv, NEW p \in Processes, stripServersFromConfig(p)
    PROVE  ConfigInv'
<1> DEFINE f == [n \in ServerNames |-> IF n \in pending[p].taken THEN "none" ELSE claude.servers[n]]
<1>1. /\ ~Idle(p) /\ pending[p].op = "strip"
      /\ claude' = IF claude = Corrupt THEN claude ELSE File(f)
      /\ pending' = [pending EXCEPT ![p] = NoOperation]
      /\ defaults' \in {defaults, [defaults EXCEPT ![p] = NoServers]}
      /\ UNCHANGED <<primary, alternative, envPath, backups, expected, atFault>>
    BY DEF stripServersFromConfig, At, Ends
<1>2. ServerNames \subseteq backups /\ backups \subseteq ServerNames /\ atFault \in BOOLEAN
    BY <1>1 DEF ConfigInv, FilesInv, StripInv
<1>3. claude' \in ConfigFiles /\ claude' # Missing
    <2>1. CASE claude = Corrupt
        BY <1>1, <2>1, FileFacts
    <2>2. CASE claude # Corrupt
        <3>1. claude.servers \in ServerMap
            BY <2>2, FileFacts DEF ConfigInv, FilesInv
        <3>2. f \in ServerMap
            BY <3>1 DEF ServerMap
        <3> HIDE DEF f
        <3>. QED BY <1>1, <2>2, <3>2, FileFacts
    <2>. QED BY <2>1, <2>2
<1>4. NoDefinitionLost'
    BY <1>1, <1>2 DEF NoDefinitionLost
<1> HIDE DEF f
<1>. QED BY <1>1, <1>2, <1>3, <1>4, OverStep

LEMMA InstallStep ==
    ASSUME ConfigInv, installConductor
    PROVE  ConfigInv'
<1> DEFINE p == "cli"
           f == [n \in ServerNames |-> IF n \in pending[p].seen THEN "claude" ELSE "none"]
<1>1. /\ p \in Processes /\ ~Idle(p) /\ claude' = File(f) /\ backups' = backups \cup InClaude
      /\ pending' = [pending EXCEPT ![p] = NoOperation]
      /\ defaults' \in {defaults, [defaults EXCEPT ![p] = NoServers]}
      /\ UNCHANGED <<primary, alternative, envPath, expected, atFault>>
    BY DEF installConductor, At, Ends, Processes
<1>2. f \in ServerMap
    BY DEF ServerMap
<1> HIDE DEF f, p
<1>3. claude' \in ConfigFiles /\ claude' # Missing
    BY <1>1, <1>2, FileFacts
<1>4. NoDefinitionLost' /\ backups' \subseteq ServerNames /\ atFault \in BOOLEAN
    BY <1>1, InClaudeFact DEF ConfigInv, FilesInv, NoDefinitionLost
<1>. QED BY <1>1, <1>3, <1>4, OverStep

LEMMA CrashStep ==
    ASSUME ConfigInv, NEW p \in Processes, processCrash(p)
    PROVE  ConfigInv'
<1>1. /\ ~Idle(p) /\ pending' = [pending EXCEPT ![p] = NoOperation]
      /\ defaults' = [defaults EXCEPT ![p] = NoServers]
      /\ atFault' = (atFault \/ primary' # primary)
      /\ expected' = IF atFault' THEN NoServers ELSE expected
      /\ UNCHANGED <<alternative, envPath>>
    BY DEF processCrash
<1>2. primary' \in {primary, Corrupt} /\ claude' \in {claude, Corrupt}
    BY DEF processCrash
<1>3. claude' \in ConfigFiles /\ claude' # Missing
    BY <1>2, FileFacts DEF ConfigInv, FilesInv
<1>4. backups \subseteq backups' /\ backups' \subseteq ServerNames
    BY InClaudeFact DEF processCrash, ConfigInv, FilesInv
<1>5. NoDefinitionLost'
    <2>1. CASE UNCHANGED <<claude, backups>>
        BY <2>1 DEF ConfigInv, NoDefinitionLost, InClaude
    <2>2. CASE ~At(p, "save")
        <3>1. At(p, "rest") /\ pending[p].op \in {"strip", "wizard"}
            BY <1>1, <2>2, PendingFacts, OperationFacts DEF ConfigInv, FilesInv, At
        <3>2. ServerNames \subseteq backups'
            <4>1. CASE pending[p].op = "strip"
                BY <1>1, <1>4, <4>1 DEF ConfigInv, StripInv
            <4>2. CASE pending[p].op = "wizard"
                BY <2>2, <4>2 DEF processCrash, ConfigInv, NoDefinitionLost
            <4>. QED BY <3>1, <4>1, <4>2
        <3>. QED BY <3>2 DEF NoDefinitionLost
    <2>. QED BY <2>1, <2>2 DEF processCrash
<1>. QED BY <1>1, <1>2, <1>3, <1>4, <1>5, OverStep

\* One step of the files.
LEMMA ConfigStep ==
    ASSUME ConfigInv, [SCNext]_scVars
    PROVE  ConfigInv'
<1>1. CASE UNCHANGED scVars
    <2>1. found' = found /\ NamesAnother' = NamesAnother /\ InClaude' = InClaude
        BY <1>1 DEF scVars, found, NamesAnother, InClaude
    <2>2. \A p \in Processes : loaded(p)' = loaded(p)
        BY <1>1, <2>1 DEF scVars, loaded, Parses
    <2>. QED BY <1>1, <2>1, <2>2 DEF scVars, ConfigInv, FilesInv, ReadInv, StripInv, NoDefinitionLost, At, Idle
<1>2. CASE \E p \in Processes : saveConductorConfig(p) \/ saveFails(p) \/ stripServersFromConfig(p) \/ processCrash(p)
    BY <1>2, SaveStep, SaveFailsStep, StripStep, CrashStep
<1>3. CASE \E p \in Processes : importDryRun(p)
    BY <1>3, DryRunStep
<1>4. CASE \/ \E n \in ServerNames : add_server(n) \/ cliAdd(n) \/ remove_server(n) \/ update_server(n)
           \/ \E p \in Processes : getRoutingRecommendations(p)
           \/ \E p \in Processes, op \in {"import", "strip"} : importServers(p, op)
           \/ mergeIntoConductor
    BY <1>4, ReadingStep
<1>5. CASE installConductor
    BY <1>5, InstallStep
<1>6. "server" \in Processes /\ "cli" \in Processes
    BY DEF Processes
<1>. QED BY <1>1, <1>2, <1>3, <1>4, <1>5, <1>6
       DEF SCNext, import_servers_from_claude, cliImport, runLegacySetupWizard, recommend_routing, cliRouting

-----------------------------------------------------------------------------
\* ClientConfigs.

EntryMap == [EntryNames -> EntryKinds \cup {"none"}]
ParsedConfig == [is : {"config"}, servers : EntryMap, raw : EntryMap, conductor : BOOLEAN]

\* What the adapters take, and the kinds whose fields they keep.
ReadKinds == {StdioKinds, StdioKinds \cup {"broken"}, EntryKinds}
KeptKinds == {{}, {"disabled"}, {"extra", "disabled"}}

LEMMA AdapterFacts ==
    \A c \in ADAPTERS :
        /\ ParseOf[c].kinds \in ReadKinds
        /\ ParseOf[c].unless \in {"file", "section", "entry", "taken"}
        /\ SerializeOf[c].keeps \in KeptKinds /\ SerializeOf[c].rest \in BOOLEAN
        /\ SerializeOf[c].backup = "tried" => c = "gemini-cli"
<1> SUFFICES ASSUME NEW c \in ADAPTERS
             PROVE  /\ ParseOf[c].kinds \in ReadKinds
                    /\ ParseOf[c].unless \in {"file", "section", "entry", "taken"}
                    /\ SerializeOf[c].keeps \in KeptKinds /\ SerializeOf[c].rest \in BOOLEAN
                    /\ SerializeOf[c].backup = "tried" => c = "gemini-cli"
    OBVIOUS
<1>1. ParseOf[c] \in [kinds : ReadKinds, unless : {"file", "section", "entry", "taken"}]
    BY DEF ReadKinds, ParseOf, ADAPTERS, Reads, claudeCodeParse, claudeDesktopParse, clineParse, codexParse, continueParse,
       cursorParse, geminiParse, kimiParse, opencodeParse, zedParse
<1>2. /\ SerializeOf[c] \in [keeps : KeptKinds, rest : BOOLEAN, backup : {"made", "tried", "needed"}]
      /\ SerializeOf[c].backup = "tried" => c = "gemini-cli"
    BY DEF KeptKinds, SerializeOf, ADAPTERS, Writes, claudeCodeSerialize, claudeDesktopSerialize, clineSerialize,
       codexSerialize, continueSerialize, cursorSerialize, geminiSerialize, kimiSerialize, opencodeSerialize,
       zedSerialize
<1>. QED BY <1>1, <1>2

LEMMA ClientFileFacts ==
    /\ NoConfig \in ClientFiles /\ BadFile \in ClientFiles
    /\ \A f \in ClientFiles : f = NoConfig \/ f = BadFile
          \/ (f.is = "ok" /\ f.entries \in EntryMap /\ f.conductor \in BOOLEAN /\ f.section \in BOOLEAN)
    /\ \A e \in EntryMap, c \in BOOLEAN : ConfigFile(e, c, TRUE) \in ClientFiles
    /\ ConfigFile(NoEntries, FALSE, FALSE) \in ClientFiles
    /\ NoConfig.is # "ok" /\ BadFile.is # "ok"
    /\ NoEntries \in EntryMap
<1>1. NoConfig.is # "ok" /\ BadFile.is # "ok" /\ NoEntries \in EntryMap
    BY DEF NoConfig, BadFile, NoEntries, EntryMap
<1>2. \A f \in ClientFiles : f = NoConfig \/ f = BadFile
          \/ (f.is = "ok" /\ f.entries \in EntryMap /\ f.conductor \in BOOLEAN /\ f.section \in BOOLEAN)
    <2> SUFFICES ASSUME NEW f \in ClientFiles, f # NoConfig, f # BadFile
                 PROVE  f.is = "ok" /\ f.entries \in EntryMap /\ f.conductor \in BOOLEAN /\ f.section \in BOOLEAN
        OBVIOUS
    <2>2. CASE f = ConfigFile(NoEntries, FALSE, FALSE)
        <3>1. f.is = "ok" /\ f.entries = NoEntries /\ f.conductor = FALSE /\ f.section = FALSE
            BY <2>2 DEF ConfigFile
        <3>. QED BY <1>1, <3>1
    <2>3. ASSUME NEW e \in EntryMap, NEW c \in BOOLEAN, f = ConfigFile(e, c, TRUE)
          PROVE  f.is = "ok" /\ f.entries \in EntryMap /\ f.conductor \in BOOLEAN /\ f.section \in BOOLEAN
        <3>1. f.is = "ok" /\ f.entries = e /\ f.conductor = c /\ f.section = TRUE
            BY <2>3 DEF ConfigFile
        <3>. QED BY <3>1
    <2>. QED BY <2>2, <2>3 DEF ClientFiles, EntryMap
<1>3. \A e \in EntryMap, c \in BOOLEAN : ConfigFile(e, c, TRUE) \in ClientFiles
    <2> SUFFICES ASSUME NEW e \in EntryMap, NEW c \in BOOLEAN PROVE ConfigFile(e, c, TRUE) \in ClientFiles
        OBVIOUS
    <2>1. ConfigFile(e, c, TRUE) \in {ConfigFile(x, c, TRUE) : x \in EntryMap}
        OBVIOUS
    <2>2. {ConfigFile(x, c, TRUE) : x \in EntryMap} \in {{ConfigFile(x, d, TRUE) : x \in EntryMap} : d \in BOOLEAN}
        BY Zenon
    <2>3. ConfigFile(e, c, TRUE) \in UNION {{ConfigFile(x, d, TRUE) : x \in EntryMap} : d \in BOOLEAN}
        BY <2>1, <2>2, Zenon
    <2>. QED BY <2>3, Zenon DEF ClientFiles, EntryMap
<1>4. NoConfig \in ClientFiles /\ BadFile \in ClientFiles /\ ConfigFile(NoEntries, FALSE, FALSE) \in ClientFiles
    BY DEF ClientFiles
<1>. QED BY <1>1, <1>2, <1>3, <1>4

\* What parse() takes of an entry, and what serialize() makes of it.
Took(c, kind) == IF kind \in ParseOf[c].kinds THEN kind ELSE "none"
Made(c, kind, raw) ==
    CASE kind \in {"extra", "disabled"} -> IF kind \in SerializeOf[c].keeps THEN kind ELSE "plain"
      [] kind = "foreign" -> "broken"
      [] kind = "none" -> IF SerializeOf[c].rest THEN raw ELSE "none"
      [] OTHER -> kind

\* Entry by entry, a file that was written is read as it had been read, and is
\* written again as it is.
LEMMA EntryRoundTrip ==
    ASSUME NEW c \in ADAPTERS, NEW kind \in EntryKinds \cup {"none"}
    PROVE  LET m == Made(c, Took(c, kind), kind)
           IN  /\ Took(c, kind) \in EntryKinds \cup {"none"} /\ m \in EntryKinds \cup {"none"}
               /\ (Took(c, m) = "none") <=> (Took(c, kind) = "none")
               /\ Made(c, Took(c, m), m) = m
<1>1. /\ ParseOf[c].kinds \in ReadKinds
      /\ SerializeOf[c].keeps \in KeptKinds /\ SerializeOf[c].rest \in BOOLEAN
    BY AdapterFacts
<1>. QED BY <1>1 DEF Took, Made, EntryKinds, StdioKinds, ReadKinds, KeptKinds

\* parse() in these terms.
LEMMA ParsedFacts ==
    ASSUME NEW c \in ADAPTERS, NEW f \in ClientFiles, Parsed(c, f) # Null
    PROVE  /\ f.is = "ok" /\ f.entries \in EntryMap
           /\ Parsed(c, f) = [is |-> "config", servers |-> [n \in EntryNames |-> Took(c, f.entries[n])],
                              raw |-> f.entries, conductor |-> f.conductor]
           /\ Parsed(c, f) \in ParsedConfig
<1>1. f.is = "ok"
    BY DEF Parsed
<1>2. f.entries \in EntryMap /\ f.conductor \in BOOLEAN
    BY <1>1, ClientFileFacts
<1>3. Parsed(c, f) = [is |-> "config", servers |-> [n \in EntryNames |-> Took(c, f.entries[n])],
                      raw |-> f.entries, conductor |-> f.conductor]
    BY <1>1 DEF Parsed, Took
<1>4. [n \in EntryNames |-> Took(c, f.entries[n])] \in EntryMap
    BY <1>2 DEF Took, EntryMap
<1>. QED BY <1>1, <1>2, <1>3, <1>4 DEF ParsedConfig

LEMMA RewrittenFacts ==
    ASSUME NEW c, NEW config
    PROVE  Rewritten(c, config) =
               ConfigFile([n \in EntryNames |-> Made(c, config.servers[n], config.raw[n])], TRUE, TRUE)
BY DEF Rewritten, Made

\* A file that has the conductor and its section parses.
LEMMA WrittenParses ==
    ASSUME NEW c \in ADAPTERS, NEW e \in EntryMap
    PROVE  LET g == ConfigFile(e, TRUE, TRUE)
           IN  /\ g \in ClientFiles
               /\ Parsed(c, g) = [is |-> "config", servers |-> [n \in EntryNames |-> Took(c, e[n])],
                                  raw |-> e, conductor |-> TRUE]
               /\ Parsed(c, g) # Null
<1> DEFINE g == ConfigFile(e, TRUE, TRUE)
<1>1. g.is = "ok" /\ g.entries = e /\ g.conductor = TRUE /\ g.section = TRUE
    BY DEF ConfigFile
<1>2. g \in ClientFiles
    BY ClientFileFacts
<1>3. ParseOf[c].unless \in {"file", "section", "entry", "taken"}
    BY AdapterFacts
<1> HIDE DEF g
<1>4. Parsed(c, g) = [is |-> "config", servers |-> [n \in EntryNames |-> Took(c, g.entries[n])],
                      raw |-> g.entries, conductor |-> g.conductor]
    BY <1>1, <1>3 DEF Parsed, Took
<1>5. Parsed(c, g) # Null
    BY <1>4 DEF Null
<1>. QED BY <1>1, <1>2, <1>4, <1>5 DEF g

LEMMA RoundTrips ==
    ASSUME NEW c \in ADAPTERS, NEW f \in ClientFiles, Parsed(c, f) # Null
    PROVE  LET p == Parsed(c, f)  g == Rewritten(c, p)  again == Parsed(c, g)
           IN  /\ g \in ClientFiles /\ again # Null /\ again.conductor
               /\ NamesIn(again.servers) = NamesIn(p.servers)
               /\ Rewritten(c, again) = g
<1> DEFINE p == Parsed(c, f)
           e == [n \in EntryNames |-> Made(c, Took(c, f.entries[n]), f.entries[n])]
           g == ConfigFile(e, TRUE, TRUE)
           again == Parsed(c, g)
<1>1. /\ f.entries \in EntryMap /\ p.raw = f.entries
      /\ p.servers = [n \in EntryNames |-> Took(c, f.entries[n])]
    BY ParsedFacts
<1>2. Rewritten(c, p) = g
    <2>1. [n \in EntryNames |-> Made(c, p.servers[n], p.raw[n])] = e
        BY <1>1
    <2>. QED BY <2>1, RewrittenFacts
<1>3. \A n \in EntryNames : f.entries[n] \in EntryKinds \cup {"none"}
    BY <1>1 DEF EntryMap
<1>4. \A n \in EntryNames :
         /\ e[n] \in EntryKinds \cup {"none"}
         /\ (Took(c, e[n]) = "none") <=> (Took(c, f.entries[n]) = "none")
         /\ Made(c, Took(c, e[n]), e[n]) = e[n]
    BY <1>3, EntryRoundTrip
<1>5. e \in EntryMap
    BY <1>4 DEF EntryMap
<1> HIDE DEF e
<1>6. /\ g \in ClientFiles /\ again # Null
      /\ again = [is |-> "config", servers |-> [n \in EntryNames |-> Took(c, e[n])], raw |-> e, conductor |-> TRUE]
    BY <1>5, WrittenParses
<1> HIDE DEF again, g, p
<1>7. again.conductor = TRUE /\ again.raw = e /\ again.servers = [n \in EntryNames |-> Took(c, e[n])]
    BY <1>6
<1>8. NamesIn(again.servers) = NamesIn(p.servers)
    BY <1>1, <1>4, <1>7 DEF NamesIn
<1>9. Rewritten(c, again) = g
    <2>1. [n \in EntryNames |-> Made(c, again.servers[n], again.raw[n])] = e
        <3>1. \A n \in EntryNames : Made(c, again.servers[n], again.raw[n]) = e[n]
            BY <1>4, <1>7
        <3>. QED BY <1>5, <3>1 DEF EntryMap
    <2>. QED BY <2>1, RewrittenFacts DEF g
<1>. QED BY <1>2, <1>6, <1>7, <1>8, <1>9 DEF p, again

-----------------------------------------------------------------------------
\* What was parsed came from a file of this client, and between the backup and
\* the write the file is in the backup, or the client is the one that goes on
\* without.
WizardInv ==
    /\ parsed # Null => \E f \in ClientFiles : parsed = Parsed(client, f)
    /\ wizard = "copied" => file = NoConfig \/ file \in copies
    /\ wizard = "uncopied" => client = "gemini-cli"

ClientsInv == CFTypeOK /\ NothingDropped /\ WizardInv

LEMMA ImpliesCFInv == ClientsInv => CFInv
<1> SUFFICES ASSUME ClientsInv, wizard = "written", parsed # Null, file = Rewritten(client, parsed)
             PROVE  LET again == Parsed(client, file)
                    IN  /\ again # Null
                        /\ again.conductor
                        /\ NamesIn(again.servers) = NamesIn(parsed.servers)
                        /\ Rewritten(client, again) = file
    BY DEF ClientsInv, CFInv, RoundTrip
<1>1. PICK f \in ClientFiles : parsed = Parsed(client, f)
    BY DEF ClientsInv, WizardInv
<1>2. client \in ADAPTERS
    BY DEF ClientsInv, CFTypeOK
<1>. QED BY <1>1, <1>2, RoundTrips

LEMMA ClientsInit == CFInit => ClientsInv
<1> SUFFICES ASSUME CFInit PROVE ClientsInv
    OBVIOUS
<1>1. edits \in 0 .. MaxEdits
    BY ClientConfigsAssumption DEF CFInit
<1>. QED BY <1>1 DEF CFInit, ClientsInv, CFTypeOK, NothingDropped, WizardInv

LEMMA EntriesOfFacts ==
    /\ EntriesOf(NoConfig) = {}
    /\ EntriesOf(ConfigFile(NoEntries, FALSE, FALSE)) = {}
<1>1. EntriesOf(NoConfig) = {}
    BY ClientFileFacts DEF EntriesOf
<1>2. ConfigFile(NoEntries, FALSE, FALSE).entries = NoEntries
    BY DEF ConfigFile
<1>3. NamesIn(NoEntries) = {}
    BY DEF NamesIn, NoEntries
<1>. QED BY <1>1, <1>2, <1>3 DEF EntriesOf

LEMMA EntriesTyped ==
    ASSUME NEW f \in ClientFiles
    PROVE  EntriesOf(f) \subseteq EntryNames \X EntryKinds
<1>1. CASE f.is = "ok"
    <2>1. f.entries \in EntryMap
        BY <1>1, ClientFileFacts
    <2>2. EntriesOf(f) = {<<m, f.entries[m]>> : m \in NamesIn(f.entries)}
        BY <1>1 DEF EntriesOf
    <2>3. \A m \in NamesIn(f.entries) : m \in EntryNames /\ f.entries[m] \in EntryKinds
        BY <2>1 DEF NamesIn, EntryMap
    <2>. QED BY <2>2, <2>3
<1>. QED BY <1>1 DEF EntriesOf

\* Somebody else writes the file.
LEMMA EditedStep ==
    ASSUME ClientsInv, NEW n \in EntryNames, edited(n)
    PROVE  ClientsInv'
<1>1. /\ edits < MaxEdits /\ edits' = edits + 1 /\ wizard \notin {"copied", "uncopied"}
      /\ UNCHANGED <<client, copies, wizard, parsed>>
    BY DEF edited
<1>2. edits' \in 0 .. MaxEdits
    BY <1>1, ClientConfigsAssumption DEF ClientsInv, CFTypeOK
<1>3. WizardInv'
    BY <1>1 DEF ClientsInv, WizardInv
<1>4. CASE file' = NoConfig /\ precious' = precious \ EntriesOf(file) /\ UNCHANGED forsaken
    <2>1. NothingDropped'
        BY <1>1, <1>4 DEF ClientsInv, NothingDropped
    <2>. QED BY <1>1, <1>2, <1>3, <1>4, <2>1, ClientFileFacts DEF ClientsInv, CFTypeOK
<1>5. ASSUME file.is = "ok", NEW kind \in EntryKinds \cup {"none"},
             file' = ConfigFile([file.entries EXCEPT ![n] = kind], file.conductor, TRUE),
             precious' = (precious \ {<<n, file.entries[n]>>}) \cup ({<<n, kind>>} \ {<<n, "none">>}),
             forsaken' = forsaken \ {<<n, kind>>}
      PROVE  ClientsInv'
    <2> DEFINE e == [file.entries EXCEPT ![n] = kind]
    <2>1. file.entries \in EntryMap /\ file.conductor \in BOOLEAN
        BY <1>5, ClientFileFacts DEF ClientsInv, CFTypeOK
    <2>2. e \in EntryMap /\ e[n] = kind /\ \A m \in EntryNames \ {n} : e[m] = file.entries[m]
        BY <2>1 DEF EntryMap
    <2>3. file'.is = "ok" /\ file'.entries = e
        BY <1>5 DEF ConfigFile
    <2> HIDE DEF e
    <2>4. EntriesOf(file) = {<<m, file.entries[m]>> : m \in NamesIn(file.entries)}
        BY <1>5 DEF EntriesOf
    <2>5. EntriesOf(file') = {<<m, e[m]>> : m \in NamesIn(e)}
        BY <2>3 DEF EntriesOf
    <2>6. EntriesOf(file) \ {<<n, file.entries[n]>>} \subseteq EntriesOf(file')
        BY <2>2, <2>4, <2>5 DEF NamesIn
    <2>7. {<<n, kind>>} \ {<<n, "none">>} \subseteq EntriesOf(file')
        BY <2>2, <2>5 DEF NamesIn
    <2> DEFINE kept == UNION {EntriesOf(f) : f \in copies}
    <2>7a. (UNION {EntriesOf(f) : f \in copies'}) = kept
        BY <1>1
    <2>7b. precious \subseteq EntriesOf(file) \cup kept \cup forsaken
        BY DEF ClientsInv, NothingDropped
    <2> HIDE DEF kept
    <2>7c. \A x \in precious \ {<<n, file.entries[n]>>} : x \in EntriesOf(file') \cup kept \cup forsaken
        BY <2>6, <2>7b
    <2>7d. ASSUME kind = "none" PROVE precious' \subseteq EntriesOf(file') \cup kept \cup forsaken'
        <3>1. <<n, kind>> \notin forsaken
            BY <2>7d DEF ClientsInv, CFTypeOK, EntryKinds
        <3>2. forsaken' = forsaken
            BY <1>5, <3>1
        <3>. QED BY <1>5, <2>7, <2>7c, <3>2
    <2>7e. ASSUME kind # "none" PROVE precious' \subseteq EntriesOf(file') \cup kept \cup forsaken'
        <3>1. <<n, kind>> \in EntriesOf(file')
            BY <2>2, <2>5, <2>7e DEF NamesIn
        <3>. QED BY <1>5, <2>7c, <3>1
    <2>7f. precious' \subseteq EntriesOf(file') \cup kept \cup forsaken'
        BY <2>7d, <2>7e
    <2>8. NothingDropped'
        BY <1>1, <1>5, <2>7a, <2>7f DEF ClientsInv, NothingDropped
    <2>9. file' \in ClientFiles
        BY <1>5, <2>1, <2>2, ClientFileFacts DEF e
    <2>10. forsaken' \subseteq forsaken
        BY <1>5
    <2>11. CFTypeOK'
        BY <1>1, <1>2, <2>9, <2>10 DEF ClientsInv, CFTypeOK
    <2>. QED BY <1>3, <2>8, <2>11 DEF ClientsInv
<1>. QED BY <1>4, <1>5 DEF edited

LEMMA ExportStep ==
    ASSUME ClientsInv, exportForClient
    PROVE  ClientsInv'
<1>1. /\ file' = IF file = NoConfig THEN ConfigFile(NoEntries, FALSE, FALSE) ELSE file
      /\ parsed' = Null /\ wizard' = "merged"
      /\ UNCHANGED <<client, copies, edits, precious, forsaken>>
    BY DEF exportForClient
<1>2. CFTypeOK'
    BY <1>1, ClientFileFacts DEF ClientsInv, CFTypeOK
<1>3. NothingDropped'
    BY <1>1, EntriesOfFacts DEF ClientsInv, NothingDropped
<1>. QED BY <1>1, <1>2, <1>3 DEF ClientsInv, WizardInv

\* The backup before a write, made, failed or not needed.
LEMMA BackUpStep ==
    ASSUME ClientsInv, backUp
    PROVE  ClientsInv'
<1>1. UNCHANGED <<client, file, parsed, edits, precious, forsaken>>
    BY DEF backUp
<1>2. /\ wizard' \in {"copied", "uncopied", "idle"} /\ copies' \in {copies, copies \cup {file}}
      /\ wizard' = "copied" => file = NoConfig \/ file \in copies'
      /\ wizard' = "uncopied" => client = "gemini-cli"
    BY AdapterFacts DEF backUp, ClientsInv, CFTypeOK
<1>3. CFTypeOK'
    BY <1>1, <1>2 DEF ClientsInv, CFTypeOK
<1>4. NothingDropped'
    BY <1>1, <1>2 DEF ClientsInv, NothingDropped
<1>. QED BY <1>1, <1>2, <1>3, <1>4 DEF ClientsInv, WizardInv

\* The write.
LEMMA SerializeStep ==
    ASSUME ClientsInv, serialize
    PROVE  ClientsInv'
<1>1. /\ wizard \in {"copied", "uncopied"} /\ wizard' \in {"written", "idle"}
      /\ file' \in {BadFile, IF parsed = Null THEN Conductor ELSE Rewritten(client, parsed)}
      /\ forsaken' = IF wizard = "uncopied" THEN forsaken \cup (EntriesOf(file) \ EntriesOf(file')) ELSE forsaken
      /\ UNCHANGED <<client, copies, parsed, edits, precious>>
    BY DEF serialize
<1>2. file' \in ClientFiles
    <2>1. Conductor \in ClientFiles
        BY ClientFileFacts DEF Conductor
    <2>2. parsed # Null => Rewritten(client, parsed) \in ClientFiles
        BY RoundTrips DEF ClientsInv, CFTypeOK, WizardInv
    <2>. QED BY <1>1, <2>1, <2>2, ClientFileFacts
<1>3. CFTypeOK' /\ WizardInv'
    <2>1. EntriesOf(file) \subseteq EntryNames \X EntryKinds
        BY EntriesTyped DEF ClientsInv, CFTypeOK
    <2>. QED BY <1>1, <1>2, <2>1 DEF ClientsInv, CFTypeOK, WizardInv
<1>4. NothingDropped'
    <2>1. CASE wizard = "uncopied"
        <3>1. client' = "gemini-cli"
            BY <1>1, <2>1 DEF ClientsInv, WizardInv
        <3>2. forsaken' = forsaken \cup (EntriesOf(file) \ EntriesOf(file'))
            BY <1>1, <2>1
        <3>3. UNION {EntriesOf(f) : f \in copies'} = UNION {EntriesOf(f) : f \in copies} /\ precious' = precious
            BY <1>1
        <3>. QED BY <3>1, <3>2, <3>3 DEF ClientsInv, NothingDropped
    <2>2. CASE wizard = "copied" /\ file = NoConfig
        BY <1>1, <2>2, EntriesOfFacts DEF ClientsInv, NothingDropped
    <2>3. CASE wizard = "copied" /\ file \in copies
        BY <1>1, <2>3 DEF ClientsInv, NothingDropped
    <2>. QED BY <1>1, <2>1, <2>2, <2>3 DEF ClientsInv, WizardInv
<1>. QED BY <1>3, <1>4 DEF ClientsInv

\* One step of the adapters and the wizard.
LEMMA ClientsStep ==
    ASSUME ClientsInv, [CFNext]_cfVars
    PROVE  ClientsInv'
<1>1. CASE migrate
    <2>1. /\ parsed' = Parsed(client, file) /\ wizard' \in {"idle", "merged"}
          /\ UNCHANGED <<client, file, copies, edits, precious, forsaken>>
        BY <1>1 DEF migrate
    <2>2. WizardInv'
        BY <2>1 DEF ClientsInv, CFTypeOK, WizardInv
    <2>. QED BY <2>1, <2>2 DEF ClientsInv, CFTypeOK, NothingDropped
<1>2. CASE discover
    BY <1>2 DEF discover, ClientsInv, CFTypeOK, NothingDropped, WizardInv
<1>3. CASE wizardEnds
    BY <1>3 DEF wizardEnds, ClientsInv, CFTypeOK, NothingDropped, WizardInv
<1>4. CASE UNCHANGED cfVars
    BY <1>4 DEF cfVars, ClientsInv, CFTypeOK, NothingDropped, WizardInv
<1>. QED BY <1>1, <1>2, <1>3, <1>4, EditedStep, ExportStep, BackUpStep, SerializeStep DEF CFNext

-----------------------------------------------------------------------------
\* The parts that keep what the calls leave behind.
CallsInv == ToolsInv /\ PathInv /\ RecordingsInv

\* Whatever the order in which tool calls begin, reach the backend, fail and
\* are booked, with the modes switched, the metrics reset and the annotations
\* changed between their steps, and with crashes of the recorder: every call
\* is counted once and in its own books and reaches the backend once, or, when
\* it is compared, at most once more than the gateway tries; a redacted answer
\* never comes from the cache, the three observers have seen the same calls, and a journal
\* replays as it was written (CallsAccounted).
THEOREM CallsCorrect == MCSpec => []CallsAccounted
<1>1. MCInit => CallsInv
    BY ToolsInit, PathInit, RecordingsInit DEF MCInit, CallsInv
<1>2. CallsInv /\ [MCNext]_hostVars => CallsInv'
    <2> SUFFICES ASSUME CallsInv, [MCNext]_hostVars PROVE CallsInv'
        OBVIOUS
    <2>1. [TSNext]_tsVars /\ [CPathNext]_cpathVars /\ [RecNext]_recVars
        BY DEF MCNext, hostVars
    <2>. QED BY <2>1, ToolsStep, PathStep, RecordingsStep DEF CallsInv
<1>3. CallsInv => CallsAccounted
    BY ImpliesTSInv, ImpliesCPathInv, ImpliesRecInv DEF CallsInv, CallsAccounted
<1>. QED BY <1>1, <1>2, <1>3, PTL DEF MCSpec

-----------------------------------------------------------------------------
\* The parts that keep the configuration.
KeptInv == CWInv /\ CatalogInv /\ ConfigInv /\ ClientsInv

\* Whatever the server's tools, the commands of the CLI, the setup wizard, the
\* watcher and the users do to the files, at the same time and with crashes
\* between their steps: the catalog follows the hub but for foreign tools, a
\* change of the watched file is read unless a reload finds the conductor's own
\* configuration exclusive, the saved configuration is what the answers say
\* unless it is at fault, and an entry of a client's file is lost only by the
\* adapter that goes on when its backup fails (ConfigurationKept).
THEOREM ConfigurationCorrect == MCSpec => []ConfigurationKept
<1>1. MCInit => KeptInv
    BY WatcherInit, CatalogInit, ConfigInit, ClientsInit DEF MCInit, KeptInv
<1>2. KeptInv /\ [MCNext]_hostVars => KeptInv'
    <2> SUFFICES ASSUME KeptInv, [MCNext]_hostVars PROVE KeptInv'
        OBVIOUS
    <2>1. [CWNext]_cwVars /\ [TRNext]_trVars /\ [SCNext]_scVars /\ [CFNext]_cfVars
        BY DEF MCNext, hostVars
    <2>. QED BY <2>1, WatcherStep, CatalogStep, ConfigStep, ClientsStep DEF KeptInv
<1>3. KeptInv => ConfigurationKept
    BY ImpliesSCInv, ImpliesCFInv DEF KeptInv, CatalogInv, ConfigurationKept
<1>. QED BY <1>1, <1>2, <1>3, PTL DEF MCSpec
=============================================================================
