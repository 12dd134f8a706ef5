------------------------------- MODULE Queues -------------------------------
(***************************************************************************)
(* The arrays the program uses as queues and lists, what removing an       *)
(* element by its index leaves, and what filter() does.                    *)
(***************************************************************************)
EXTENDS Integers, Sequences, FiniteSets

Elements(s) == {s[i] : i \in DOMAIN s}

\* No element is in s twice.
Once(s) == \A i, j \in DOMAIN s : s[i] = s[j] => i = j

\* s.splice(i, 1)
SplicedAt(s, i) == [k \in 1 .. Len(s) - 1 |-> IF k < i THEN s[k] ELSE s[k + 1]]

\* s.indexOf(x), or findIndex(), and splice() if there is one.
Removed(s, x) ==
    IF x \in Elements(s) THEN SplicedAt(s, CHOOSE i \in DOMAIN s : s[i] = x) ELSE s

\* s.filter(), for the set I of the indices that pass: the k-th of the result
\* is the one with k of I up to it.
Rank(I, i) == Cardinality({j \in I : j <= i})
Filtered(s, I) == [k \in 1 .. Cardinality(I) |-> s[CHOOSE i \in I : Rank(I, i) = k]]

-----------------------------------------------------------------------------
(***************************************************************************)
(* Removing an element from an array that has no element twice (the        *)
(* timeouts of a waiting acquire(), of a queued job and of a queued        *)
(* request) leaves all the others, and none of them twice.                 *)
(***************************************************************************)
LEMMA RemovedFacts ==
    ASSUME NEW S, NEW s \in Seq(S), NEW x, Once(s)
    PROVE  /\ Removed(s, x) \in Seq(S)
           /\ Len(Removed(s, x)) <= Len(s)
           /\ Elements(Removed(s, x)) = Elements(s) \ {x}
           /\ Once(Removed(s, x))
<1>1. CASE x \notin Elements(s)
    BY <1>1 DEF Removed
<1>2. CASE x \in Elements(s)
    <2> DEFINE i == CHOOSE k \in DOMAIN s : s[k] = x
               t == SplicedAt(s, i)
               n == Len(s)
    <2>1. n \in Nat /\ DOMAIN s = 1 .. n /\ \A k \in 1 .. n : s[k] \in S
        OBVIOUS
    <2>2. i \in 1 .. n /\ s[i] = x
        BY <1>2, <2>1 DEF Elements
    <2>3. Removed(s, x) = t
        BY <1>2 DEF Removed
    <2> HIDE DEF i, n
    <2>4. /\ DOMAIN t = 1 .. n - 1 /\ n - 1 \in Nat
          /\ \A k \in 1 .. n - 1 : t[k] = IF k < i THEN s[k] ELSE s[k + 1]
        BY <2>1, <2>2 DEF SplicedAt, n
    <2>5. t \in [1 .. n - 1 -> S]
        <3>1. \A k \in 1 .. n - 1 : t[k] \in S
            BY <2>1, <2>2, <2>4
        <3>. QED BY <3>1, <2>4 DEF SplicedAt, n
    <2>6. t \in Seq(S) /\ Len(t) = n - 1
        BY <2>4, <2>5
    <2> HIDE DEF t
    <2>7. Once(t)
        <3> SUFFICES ASSUME NEW k \in 1 .. n - 1, NEW l \in 1 .. n - 1, t[k] = t[l] PROVE k = l
            BY <2>4 DEF Once
        <3> DEFINE a == IF k < i THEN k ELSE k + 1
                   b == IF l < i THEN l ELSE l + 1
        <3>1. a \in 1 .. n /\ b \in 1 .. n /\ (a = b => k = l)
            BY <2>1, <2>2
        <3>2. t[k] = s[a] /\ t[l] = s[b]
            BY <2>4
        <3> HIDE DEF a, b
        <3>. QED BY <2>1, <3>1, <3>2 DEF Once
    <2>8. \A k \in 1 .. n - 1 : t[k] # x /\ t[k] \in Elements(s)
        BY <2>1, <2>2, <2>4 DEF Once, Elements
    <2>9. \A k \in 1 .. n : s[k] # x => s[k] \in Elements(t)
        <3> SUFFICES ASSUME NEW k \in 1 .. n, s[k] # x PROVE s[k] \in Elements(t)
            OBVIOUS
        <3>1. CASE k < i
            <4>1. k \in 1 .. n - 1 /\ t[k] = s[k]
                BY <2>1, <2>2, <2>4, <3>1
            <4>. QED BY <2>4, <4>1 DEF Elements
        <3>2. CASE k > i
            <4>1. k - 1 \in 1 .. n - 1 /\ t[k - 1] = s[k]
                BY <2>1, <2>2, <2>4, <3>2
            <4>. QED BY <2>4, <4>1 DEF Elements
        <3>. QED BY <2>1, <2>2, <3>1, <3>2
    <2>10. Elements(t) = Elements(s) \ {x}
        BY <2>1, <2>4, <2>8, <2>9 DEF Elements
    <2>. QED BY <2>1, <2>3, <2>6, <2>7, <2>10 DEF n
<1>. QED BY <1>1, <1>2

(***************************************************************************)
(* push(): a newcomer goes to the end of the queue.                        *)
(***************************************************************************)
LEMMA AppendFacts ==
    ASSUME NEW S, NEW s \in Seq(S), NEW x \in S
    PROVE  /\ Append(s, x) \in Seq(S) /\ Len(Append(s, x)) = Len(s) + 1
           /\ Elements(Append(s, x)) = Elements(s) \cup {x}
           /\ Once(s) /\ x \notin Elements(s) => Once(Append(s, x))
<1> DEFINE t == Append(s, x)
           n == Len(s)
<1>1. n \in Nat /\ DOMAIN s = 1 .. n
    OBVIOUS
<1>2. /\ t \in Seq(S) /\ Len(t) = n + 1 /\ DOMAIN t = 1 .. n + 1
      /\ \A k \in 1 .. n : t[k] = s[k]
      /\ t[n + 1] = x
    OBVIOUS
<1> HIDE DEF t, n
<1>3. \A k \in 1 .. n + 1 : k \in 1 .. n \/ k = n + 1
    BY <1>1
<1>4. n + 1 \in 1 .. n + 1 /\ 1 .. n \subseteq 1 .. n + 1
    BY <1>1
<1>5. Elements(t) = Elements(s) \cup {x}
    BY <1>1, <1>2, <1>3, <1>4 DEF Elements
<1>6. Once(s) /\ x \notin Elements(s) => Once(t)
    BY <1>1, <1>2, <1>3 DEF Elements, Once
<1>. QED BY <1>2, <1>5, <1>6 DEF t, n

(***************************************************************************)
(* shift(): the first of the queue leaves it.                              *)
(***************************************************************************)
LEMMA TailFacts ==
    ASSUME NEW S, NEW s \in Seq(S), s # <<>>, Once(s)
    PROVE  /\ Tail(s) \in Seq(S) /\ Len(Tail(s)) = Len(s) - 1
           /\ Head(s) \in S /\ Head(s) \in Elements(s)
           /\ Elements(Tail(s)) = Elements(s) \ {Head(s)}
           /\ Once(Tail(s))
<1> DEFINE t == Tail(s)
           n == Len(s)
<1>1. n \in Nat \ {0} /\ DOMAIN s = 1 .. n /\ Head(s) = s[1] /\ \A k \in 1 .. n : s[k] \in S
    OBVIOUS
<1>2. /\ t \in Seq(S) /\ Len(t) = n - 1 /\ DOMAIN t = 1 .. n - 1
      /\ \A k \in 1 .. n - 1 : t[k] = s[k + 1]
    OBVIOUS
<1> HIDE DEF t, n
<1>3. Once(t)
    <2> SUFFICES ASSUME NEW k \in 1 .. n - 1, NEW l \in 1 .. n - 1, t[k] = t[l] PROVE k = l
        BY <1>2 DEF Once
    <2>1. k + 1 \in 1 .. n /\ l + 1 \in 1 .. n /\ s[k + 1] = s[l + 1] /\ (k + 1 = l + 1 => k = l)
        BY <1>1, <1>2
    <2>. QED BY <1>1, <2>1 DEF Once
<1>4. \A k \in 1 .. n - 1 : t[k] # s[1] /\ t[k] \in Elements(s)
    <2> SUFFICES ASSUME NEW k \in 1 .. n - 1 PROVE t[k] # s[1] /\ t[k] \in Elements(s)
        OBVIOUS
    <2>1. k + 1 \in 1 .. n /\ 1 \in 1 .. n /\ t[k] = s[k + 1] /\ k + 1 # 1
        BY <1>1, <1>2
    <2>2. s[k + 1] # s[1]
        BY <1>1, <2>1 DEF Once
    <2>. QED BY <1>1, <2>1, <2>2 DEF Elements
<1>5. \A k \in 1 .. n : s[k] # s[1] => s[k] \in Elements(t)
    <2> SUFFICES ASSUME NEW k \in 1 .. n, s[k] # s[1] PROVE s[k] \in Elements(t)
        OBVIOUS
    <2>1. k - 1 \in 1 .. n - 1 /\ t[k - 1] = s[k]
        BY <1>1, <1>2
    <2>. QED BY <1>2, <2>1 DEF Elements
<1>6. Elements(t) = Elements(s) \ {s[1]}
    BY <1>1, <1>2, <1>4, <1>5 DEF Elements
<1>7. s[1] \in Elements(s)
    BY <1>1 DEF Elements
<1>. QED BY <1>1, <1>2, <1>3, <1>6, <1>7 DEF t, n

(***************************************************************************)
(* The first n of the queue leave it.                                      *)
(***************************************************************************)
LEMMA DropFacts ==
    ASSUME NEW S, NEW s \in Seq(S), NEW m \in 0 .. Len(s), Once(s)
    PROVE  /\ SubSeq(s, m + 1, Len(s)) \in Seq(S) /\ Len(SubSeq(s, m + 1, Len(s))) = Len(s) - m
           /\ Elements(SubSeq(s, m + 1, Len(s))) = Elements(s) \ {s[i] : i \in 1 .. m}
           /\ Once(SubSeq(s, m + 1, Len(s)))
<1> DEFINE n == Len(s)
           t == SubSeq(s, m + 1, n)
           F == {s[i] : i \in 1 .. m}
<1>1. n \in Nat /\ m \in 0 .. n /\ DOMAIN s = 1 .. n /\ \A k \in 1 .. n : s[k] \in S
    OBVIOUS
<1>2. /\ t \in Seq(S) /\ Len(t) = n - m /\ DOMAIN t = 1 .. n - m
      /\ \A k \in 1 .. n - m : t[k] = s[k + m]
    <2>1. t = [k \in 1 .. n - m |-> s[k + m]]
        BY <1>1
    <2>2. n - m \in Nat /\ \A k \in 1 .. n - m : s[k + m] \in S
        BY <1>1
    <2> HIDE DEF t, n
    <2>. QED BY <2>1, <2>2
<1> HIDE DEF t, n
<1>3. Once(t)
    <2> SUFFICES ASSUME NEW k \in 1 .. n - m, NEW l \in 1 .. n - m, t[k] = t[l] PROVE k = l
        BY <1>2 DEF Once
    <2>1. k + m \in 1 .. n /\ l + m \in 1 .. n /\ s[k + m] = s[l + m] /\ (k + m = l + m => k = l)
        BY <1>1, <1>2
    <2>. QED BY <1>1, <2>1 DEF Once
<1>4. \A k \in 1 .. n - m : t[k] \in Elements(s) /\ t[k] \notin F
    <2> SUFFICES ASSUME NEW k \in 1 .. n - m PROVE t[k] \in Elements(s) /\ t[k] \notin F
        OBVIOUS
    <2>1. k + m \in 1 .. n /\ t[k] = s[k + m] /\ \A l \in 1 .. m : l \in 1 .. n /\ l # k + m
        BY <1>1, <1>2
    <2>2. \A l \in 1 .. m : s[l] # s[k + m]
        BY <1>1, <2>1 DEF Once
    <2>. QED BY <1>1, <2>1, <2>2 DEF Elements
<1>5. \A k \in 1 .. n : s[k] \notin F => s[k] \in Elements(t)
    <2> SUFFICES ASSUME NEW k \in 1 .. n, s[k] \notin F PROVE s[k] \in Elements(t)
        OBVIOUS
    <2>1. k \notin 1 .. m
        OBVIOUS
    <2>2. k - m \in 1 .. n - m /\ (k - m) + m = k
        BY <1>1, <2>1
    <2>3. t[k - m] = s[k]
        BY <1>2, <2>2
    <2>. QED BY <1>2, <2>2, <2>3 DEF Elements
<1>6. Elements(t) = Elements(s) \ F
    BY <1>1, <1>2, <1>4, <1>5 DEF Elements
<1>. QED BY <1>2, <1>3, <1>6 DEF t, n
=============================================================================
