-------------------------- MODULE CacheLayer_proofs --------------------------
(***************************************************************************)
(* CacheInv and StaleIsChased for any tools, arguments, number of calls    *)
(* and time to live.  RefreshInv strengthens OneRefresh: a slot that is    *)
(* idle or reads the disk is no refresh.  ChaseInv strengthens             *)
(* StaleIsChased to a statement about every entry of the memory tier: its  *)
(* value is no older than its age and time to live account for, or it is   *)
(* being refreshed, or a refresh has ended since it was stored.            *)
(***************************************************************************)
EXTENDS CacheLayer, FiniteSetTheorems, TLAPS

SlotRec == [pc : {"idle", "reading", "fetching", "writing", "renaming"}, key : Key, bg : BOOLEAN]

Refreshes(k) == {c \in Slots : slot[c].bg /\ slot[c].key = k}

RefreshInv ==
    /\ \A c \in Slots : slot[c].pc \in {"idle", "reading"} => ~slot[c].bg
    /\ \A c \in Slots : slot[c].bg => slot[c].key \in revalidating
    /\ \A k \in revalidating : \E c \in Slots : slot[c].bg /\ slot[c].key = k
    /\ \A c, d \in Slots : slot[c].bg /\ slot[d].bg /\ slot[c].key = slot[d].key => c = d

\* A file never keeps a value longer than it has been there.
Exact(e) == e # Nothing => e.truth = e.age /\ e.ttl = Ttl
DiskInv == \A a \in Args : Exact(disk[a]) /\ Exact(tmp[a])

Honest(e) == \/ e.truth + e.ttl <= e.age + Ttl
             \/ e.ttl = 1 /\ e.truth <= e.age + Ttl
ChaseInv ==
    \A k \in Key : mem[k] # Nothing =>
        Honest(mem[k]) \/ k \in revalidating \/ ended[k] <= mem[k].age

-----------------------------------------------------------------------------
LEMMA Numbers == /\ Ttl \in Nat /\ Ttl >= 1
                 /\ Age = 0 .. (Ttl + 2)
                 /\ 0 \in Age /\ Old \in Age /\ Ttl + 1 \in Age
BY CacheAssumption DEF Age, Old

LEMMA Entries ==
    /\ Nothing \in Entry
    /\ \A t \in Tools : Fetched(t) \in Entry
<1>1. 0 \in 0 .. Ttl /\ Ttl \in 0 .. Ttl
  BY Numbers
<1>. QED BY <1>1, Numbers DEF Nothing, Fetched, Entry

LEMMA KeyFacts == /\ (CHOOSE k \in Key : TRUE) \in Key
                  /\ \A k \in Key : k[1] \in Tools /\ k[2] \in Args
                  /\ Idle \in SlotRec /\ Idle.pc = "idle" /\ Idle.bg = FALSE
<1>1. \E k \in Key : TRUE
  <2>1. PICK t \in Tools, a \in Args : TRUE
    BY CacheAssumption
  <2>2. <<t, a>> \in Key
    BY <2>1 DEF Key
  <2>. QED BY <2>2
<1>2. (CHOOSE k \in Key : TRUE) \in Key
  BY <1>1
<1>3. \A k \in Key : k[1] \in Tools /\ k[2] \in Args
  BY DEF Key
<1>. HIDE DEF Key
<1>4. Idle \in SlotRec /\ Idle.pc = "idle" /\ Idle.bg = FALSE
  BY <1>2 DEF Idle, Slot, SlotRec
<1>. QED BY <1>2, <1>3, <1>4

LEMMA OlderType == \A n \in Age : Older(n) \in Age
BY Numbers DEF Older, Old

LEMMA AgedType ==
    ASSUME NEW e \in Entry
    PROVE  /\ Aged(e) \in Entry
           /\ e = Nothing => Aged(e) = Nothing
           /\ e # Nothing => Aged(e).truth = Older(e.truth) /\ Aged(e).age = Older(e.age)
                             /\ Aged(e).ttl = e.ttl
<1>1. e.truth \in Age /\ e.age \in Age
  BY DEF Entry
<1>2. Older(e.truth) \in Age /\ Older(e.age) \in Age
  BY <1>1, OlderType
<1>. QED BY <1>2, Entries DEF Aged, Entry

\* What get() moves up.
Moved(e, n) == [e EXCEPT !.age = 0, !.ttl = Larger(1, n)]
LEMMA MovedType ==
    ASSUME NEW e \in Entry, NEW n \in Int, n <= Ttl
    PROVE  /\ Moved(e, n) \in Entry
           /\ Moved(e, n).age = 0
           /\ Moved(e, n).truth = e.truth
           /\ Moved(e, n).ttl = Larger(1, n)
<1>1. Larger(1, n) \in 0 .. Ttl
  BY Numbers DEF Larger
<1>2. 0 \in Age
  BY Numbers
<1>. QED BY <1>1, <1>2 DEF Moved, Entry

-----------------------------------------------------------------------------
Typed == /\ mem \in [Key -> Entry]
         /\ disk \in [Args -> Entry]
         /\ tmp \in [Args -> Entry]
         /\ revalidating \subseteq Key
         /\ slot \in [Slots -> SlotRec]
         /\ doomed \subseteq Tools
         /\ ended \in [Key -> Age]

LEMMA SlotTypes ==
    /\ \A pc \in {"idle", "reading", "fetching", "writing", "renaming"}, k \in Key, bg \in BOOLEAN :
          Slot(pc, k, bg) \in SlotRec
    /\ \A r \in SlotRec : /\ r.key \in Key /\ r.bg \in BOOLEAN
                          /\ [r EXCEPT !.pc = "fetching"] \in SlotRec
                          /\ [r EXCEPT !.pc = "writing"] \in SlotRec
                          /\ [r EXCEPT !.pc = "renaming"] \in SlotRec
BY DEF Slot, SlotRec

LEMMA SettledType ==
    ASSUME Typed, NEW c \in Slots, Settled(c)
    PROVE  slot' \in [Slots -> SlotRec] /\ revalidating' \subseteq Key /\ ended' \in [Key -> Age]
<1>1. slot' \in [Slots -> SlotRec]
  BY KeyFacts DEF Typed, Settled
<1>2. revalidating' \subseteq Key
  BY DEF Typed, Settled
<1>3. ended' \in [Key -> Age]
  BY Numbers DEF Typed, Settled
<1>. QED BY <1>1, <1>2, <1>3

\* What the steps of a slot do to its entries.
LEMMA GetType ==
    ASSUME Typed, NEW c \in Slots, get(c)
    PROVE  Typed'
<1>. DEFINE k == slot[c].key
            e == disk[k[2]]
<1>1. k \in Key /\ k[2] \in Args /\ e \in Entry
  BY KeyFacts, SlotTypes DEF Typed
<1>2. CASE e = Nothing /\ slot' = [slot EXCEPT ![c].pc = "fetching"] /\ UNCHANGED <<mem, revalidating>>
  BY <1>2, SlotTypes DEF Typed, get
<1>3. ASSUME NEW n \in Int, n <= Ttl, mem' = [mem EXCEPT ![k] = Moved(e, n)]
      PROVE  mem' \in [Key -> Entry]
  BY <1>1, <1>3, MovedType DEF Typed
<1>4. e.ttl \in Int /\ e.ttl <= Ttl /\ e.ttl - e.age \in Int /\ e.ttl - e.age <= Ttl
  <2>1. e.ttl \in 0 .. Ttl /\ e.age \in 0 .. (Ttl + 2)
    BY <1>1, Numbers DEF Entry
  <2>. QED BY <2>1, Numbers
<1>5. CASE /\ mem' = [mem EXCEPT ![k] = Moved(e, e.ttl - e.age)]
           /\ slot' = [slot EXCEPT ![c] = Idle]
           /\ UNCHANGED revalidating
  <2>1. mem' \in [Key -> Entry]
    BY <1>3, <1>4, <1>5
  <2>. QED BY <1>5, <2>1, KeyFacts DEF Typed, get
<1>6. CASE /\ mem' = [mem EXCEPT ![k] = Moved(e, e.ttl)]
           /\ refreshInBackground(c, k)
  <2>1. mem' \in [Key -> Entry]
    BY <1>3, <1>4, <1>6
  <2>2. Slot("fetching", k, TRUE) \in SlotRec
    BY <1>1, SlotTypes
  <2>3. slot' \in [Slots -> SlotRec] /\ revalidating' \subseteq Key
    BY <1>1, <1>6, <2>2, KeyFacts DEF Typed, refreshInBackground
  <2>. QED BY <2>1, <2>3 DEF Typed, get
<1>. QED BY <1>2, <1>5, <1>6 DEF get, Moved

LEMMA TypeStep ==
    ASSUME Typed, [Next]_vars
    PROVE  Typed'
<1>. USE DEF Typed
<1>1. CASE UNCHANGED vars
  BY <1>1 DEF vars
<1>2. ASSUME NEW c \in Slots, NEW k \in Key, callTool(c, k) PROVE Typed'
  <2>1. Slot("reading", k, FALSE) \in SlotRec
    BY SlotTypes
  <2>2. mem' \in [Key -> Entry] /\ slot' \in [Slots -> SlotRec]
    BY <1>2, <2>1, Entries DEF callTool
  <2>. QED BY <1>2, <2>2 DEF callTool
<1>3. ASSUME NEW c \in Slots, get(c) PROVE Typed'
  BY <1>3, GetType
<1>4. ASSUME NEW c \in Slots, set(c) PROVE Typed'
  <2>1. slot[c].key \in Key /\ Fetched(slot[c].key[1]) \in Entry
    BY SlotTypes, KeyFacts, Entries
  <2>. QED BY <1>4, <2>1, SlotTypes DEF set
<1>5. ASSUME NEW c \in Slots, fail(c) PROVE Typed'
  BY <1>5, SettledType DEF fail
<1>6. ASSUME NEW c \in Slots, write(c) PROVE Typed'
  <2>1. slot[c].key \in Key /\ Fetched(slot[c].key[1]) \in Entry
    BY SlotTypes, KeyFacts, Entries
  <2>. QED BY <1>6, <2>1, SlotTypes DEF write
<1>7. ASSUME NEW c \in Slots, rename(c) PROVE Typed'
  <2>1. disk' \in [Args -> Entry] /\ tmp' \in [Args -> Entry]
    BY <1>7, Entries DEF rename
  <2>. QED BY <1>7, <2>1, SettledType DEF rename
<1>8. ASSUME NEW k \in Key, evict(k) PROVE Typed'
  BY <1>8, Entries DEF evict
<1>9. ASSUME NEW a \in Args, rotate(a) PROVE Typed'
  BY <1>9, Entries DEF rotate
<1>10. ASSUME NEW T \in SUBSET Tools, invalidate(T) PROVE Typed'
  BY <1>10, Entries DEF invalidate
<1>11. CASE scanAndDelete
  BY <1>11, Entries DEF scanAndDelete
<1>12. CASE restart
  BY <1>12, Entries, KeyFacts, Numbers DEF restart
<1>13. CASE Tick
  <2>1. mem' \in [Key -> Entry] /\ disk' \in [Args -> Entry]
    BY <1>13, AgedType DEF Tick
  <2>2. ended' \in [Key -> Age]
    <3>1. \A k \in Key : ended[k] \in 0 .. (Ttl + 2) /\ (ended[k] <= Ttl => ended[k] + 1 \in 0 .. (Ttl + 2))
      BY Numbers
    <3>. QED BY <1>13, <3>1, Numbers DEF Tick
  <2>. QED BY <1>13, <2>1, <2>2 DEF Tick
<1>. QED BY <1>1, <1>2, <1>3, <1>4, <1>5, <1>6, <1>7, <1>8, <1>9, <1>10, <1>11, <1>12, <1>13 DEF Next

-----------------------------------------------------------------------------
\* A refresh ends: its key is free, and nobody else had it.
LEMMA RefreshStep ==
    ASSUME Typed, RefreshInv, [Next]_vars
    PROVE  RefreshInv'
<1>. USE DEF Typed, RefreshInv
<1>1. CASE UNCHANGED vars
  BY <1>1 DEF vars
<1>a. ASSUME NEW c \in Slots, Settled(c), slot[c].pc # "idle" PROVE RefreshInv'
  BY <1>a, KeyFacts DEF Settled
<1>b. ASSUME NEW c \in Slots, NEW pc \in {"fetching", "writing", "renaming"},
             slot' = [slot EXCEPT ![c].pc = pc], UNCHANGED revalidating
      PROVE  RefreshInv'
  BY <1>b DEF SlotRec
<1>2. ASSUME NEW c \in Slots, NEW k \in Key, callTool(c, k) PROVE RefreshInv'
  <2>. DEFINE r == Slot("reading", k, FALSE)
  <2>1. r.bg = FALSE
    BY DEF Slot
  <2>2. slot[c].pc = "idle" /\ UNCHANGED revalidating
    BY <1>2 DEF callTool
  <2>3. UNCHANGED slot \/ slot' = [slot EXCEPT ![c] = r]
    BY <1>2 DEF callTool
  <2>. HIDE DEF r
  <2>. QED BY <2>1, <2>2, <2>3
<1>3. ASSUME NEW c \in Slots, get(c) PROVE RefreshInv'
  <2>0. slot[c].pc = "reading" /\ ~slot[c].bg /\ slot[c].key \in Key
    BY <1>3, SlotTypes DEF get
  <2>1. CASE slot' = [slot EXCEPT ![c].pc = "fetching"] /\ UNCHANGED revalidating
    BY <1>b, <2>1
  <2>2. CASE slot' = [slot EXCEPT ![c] = Idle] /\ UNCHANGED revalidating
    BY <2>0, <2>2, KeyFacts
  <2>3. CASE refreshInBackground(c, slot[c].key)
    <3>1. CASE slot[c].key \in revalidating
      BY <2>0, <2>2, <2>3, <3>1 DEF refreshInBackground
    <3>2. CASE slot[c].key \notin revalidating
      <4>. DEFINE r == Slot("fetching", slot[c].key, TRUE)
      <4>1. r.bg = TRUE /\ r.key = slot[c].key /\ r.pc = "fetching"
        BY DEF Slot
      <4>2. slot' = [slot EXCEPT ![c] = r] /\ revalidating' = revalidating \cup {slot[c].key}
        BY <2>3, <3>2 DEF refreshInBackground
      <4>. HIDE DEF r
      <4>. QED BY <2>0, <3>2, <4>1, <4>2
    <3>. QED BY <3>1, <3>2
  <2>. QED BY <1>3, <2>1, <2>2, <2>3 DEF get
<1>4. ASSUME NEW c \in Slots, set(c) PROVE RefreshInv'
  BY <1>4, <1>b DEF set
<1>5. ASSUME NEW c \in Slots, fail(c) PROVE RefreshInv'
  BY <1>5, <1>a DEF fail
<1>6. ASSUME NEW c \in Slots, write(c) PROVE RefreshInv'
  BY <1>6, <1>b DEF write
<1>7. ASSUME NEW c \in Slots, rename(c) PROVE RefreshInv'
  BY <1>7, <1>a DEF rename
<1>8. CASE restart
  BY <1>8, KeyFacts DEF restart
<1>9. CASE UNCHANGED <<slot, revalidating>>
  BY <1>9
<1>. QED BY <1>1, <1>2, <1>3, <1>4, <1>5, <1>6, <1>7, <1>8, <1>9
     DEF Next, evict, rotate, invalidate, scanAndDelete, Tick

LEMMA CountOfOne ==
    ASSUME RefreshInv
    PROVE  OneRefresh
<1>. SUFFICES ASSUME NEW k \in Key
              PROVE  Cardinality(Refreshes(k)) = IF k \in revalidating THEN 1 ELSE 0
  BY DEF OneRefresh, Refreshes
<1>1. CASE k \in revalidating
  <2>1. PICK c \in Slots : slot[c].bg /\ slot[c].key = k
    BY <1>1 DEF RefreshInv
  <2>2. Refreshes(k) = {c}
    BY <2>1 DEF RefreshInv, Refreshes
  <2>. QED BY <1>1, <2>2, FS_Singleton
<1>2. CASE k \notin revalidating
  <2>1. Refreshes(k) = {}
    BY <1>2 DEF RefreshInv, Refreshes
  <2>. QED BY <1>2, <2>1, FS_EmptySet
<1>. QED BY <1>1, <1>2

LEMMA DiskStep ==
    ASSUME Typed, DiskInv, [Next]_vars
    PROVE  DiskInv'
<1>. USE DEF Typed, DiskInv
<1>0. Exact(Nothing) /\ \A t \in Tools : Exact(Fetched(t))
  BY Numbers DEF Exact, Fetched
<1>1. CASE UNCHANGED <<disk, tmp>>
  BY <1>1 DEF Exact
<1>2. ASSUME NEW c \in Slots, write(c) PROVE DiskInv'
  <2>1. Exact(Fetched(slot[c].key[1]))
    BY <1>0, SlotTypes, KeyFacts
  <2>. QED BY <1>2, <2>1 DEF write, Exact
<1>3. ASSUME NEW c \in Slots, rename(c) PROVE DiskInv'
  BY <1>0, <1>3 DEF rename, Exact
<1>4. ASSUME NEW a \in Args, rotate(a) PROVE DiskInv'
  BY <1>0, <1>4 DEF rotate, Exact
<1>5. CASE scanAndDelete
  BY <1>0, <1>5 DEF scanAndDelete, Exact
<1>6. CASE restart
  BY <1>0, <1>6 DEF restart, Exact
<1>7. CASE Tick
  <2>1. ASSUME NEW a \in Args PROVE Exact(Aged(disk[a]))
    BY <2>1, AgedType DEF Exact
  <2>. QED BY <1>7, <2>1 DEF Tick, Exact
<1>. QED BY <1>1, <1>2, <1>3, <1>4, <1>5, <1>6, <1>7
     DEF Next, vars, callTool, get, set, fail, evict, invalidate

\* What get() moves up is honest if it is fresh.
LEMMA MovedHonest ==
    ASSUME NEW e \in Entry, e # Nothing, Exact(e), ~Expired(e)
    PROVE  Honest(Moved(e, e.ttl - e.age))
<1>1. e.truth = e.age /\ e.ttl = Ttl /\ e.age \in 0 .. Ttl
  BY Numbers DEF Exact, Expired, Entry
<1>2. e.ttl - e.age \in Int /\ e.ttl - e.age <= Ttl
  BY <1>1, Numbers
<1>. DEFINE m == Moved(e, e.ttl - e.age)
<1>3. m.age = 0 /\ m.truth = e.age /\ m.ttl = Larger(1, Ttl - e.age)
  BY <1>1, <1>2, MovedType
<1>. HIDE DEF m
<1>4. Honest(m)
  BY <1>1, <1>3, Numbers DEF Honest, Larger
<1>. QED BY <1>4 DEF m

LEMMA AgedHonest ==
    ASSUME NEW e \in Entry, e # Nothing, NEW n \in Age
    PROVE  /\ Honest(e) => Honest(Aged(e))
           /\ n <= e.age => (IF n <= Ttl THEN n + 1 ELSE n) <= Aged(e).age
<1>1. e.truth \in 0 .. (Ttl + 2) /\ e.age \in 0 .. (Ttl + 2) /\ e.ttl \in 0 .. Ttl
  BY Numbers DEF Entry
<1>2. Aged(e).truth = Older(e.truth) /\ Aged(e).age = Older(e.age) /\ Aged(e).ttl = e.ttl
  BY AgedType
<1>3. Honest(e) => Honest(Aged(e))
  BY <1>1, <1>2, Numbers DEF Honest, Older, Old
<1>4. n <= e.age => (IF n <= Ttl THEN n + 1 ELSE n) <= Aged(e).age
  BY <1>1, <1>2, Numbers DEF Older, Old
<1>. QED BY <1>3, <1>4

LEMMA ChaseStep ==
    ASSUME Typed, DiskInv, ChaseInv, [Next]_vars
    PROVE  ChaseInv'
<1>. USE DEF ChaseInv
<1>0. \A k \in Key : mem[k] \in Entry /\ mem[k].age \in 0 .. (Ttl + 2) /\ ended[k] \in Age
  BY Numbers DEF Typed, Entry
<1>1. CASE UNCHANGED <<mem, revalidating, ended>>
  BY <1>1 DEF Honest
<1>a. ASSUME NEW c \in Slots, Settled(c), UNCHANGED mem PROVE ChaseInv'
  BY <1>a, <1>0 DEF Typed, Settled, Honest
<1>b. ASSUME NEW k \in Key, mem' = [mem EXCEPT ![k] = Nothing], UNCHANGED <<revalidating, ended>>
      PROVE  ChaseInv'
  BY <1>b DEF Typed, Honest
<1>2. ASSUME NEW c \in Slots, NEW k \in Key, callTool(c, k) PROVE ChaseInv'
  BY <1>1, <1>b, <1>2 DEF callTool
<1>3. ASSUME NEW c \in Slots, get(c) PROVE ChaseInv'
  <2>. DEFINE k == slot[c].key
              e == disk[k[2]]
  <2>1. k \in Key /\ e \in Entry /\ (e # Nothing => Exact(e))
    BY SlotTypes, KeyFacts DEF Typed, DiskInv
  <2>2. UNCHANGED ended /\ revalidating \subseteq revalidating'
    BY <1>3 DEF get, refreshInBackground
  <2>3. CASE UNCHANGED <<mem, revalidating>>
    BY <1>1, <2>2, <2>3
  <2>4. CASE e # Nothing /\ ~Expired(e) /\ mem' = [mem EXCEPT ![k] = Moved(e, e.ttl - e.age)]
    <3>. DEFINE m == Moved(e, e.ttl - e.age)
    <3>1. Honest(m)
      BY <2>1, <2>4, MovedHonest
    <3>2. mem' = [mem EXCEPT ![k] = m]
      BY <2>4
    <3>. HIDE DEF m, k
    <3>. QED BY <2>1, <2>2, <3>1, <3>2 DEF Typed, Honest
  <2>5. CASE refreshInBackground(c, k) /\ mem' = [mem EXCEPT ![k] = Moved(e, e.ttl)]
    <3>1. k \in revalidating'
      BY <2>5 DEF refreshInBackground
    <3>. HIDE DEF k
    <3>. QED BY <2>1, <2>2, <2>5, <3>1 DEF Typed, Honest
  <2>. QED BY <1>3, <2>3, <2>4, <2>5 DEF get, Moved
<1>4. ASSUME NEW c \in Slots, set(c) PROVE ChaseInv'
  <2>. DEFINE k == slot[c].key
              f == Fetched(k[1])
  <2>1. k \in Key
    BY SlotTypes DEF Typed
  <2>2. Honest(f)
    BY Numbers DEF Fetched, Honest
  <2>3. mem' = [mem EXCEPT ![k] = f] /\ UNCHANGED <<revalidating, ended>>
    BY <1>4 DEF set
  <2>. HIDE DEF k, f
  <2>. QED BY <2>1, <2>2, <2>3 DEF Typed, Honest
<1>5. ASSUME NEW c \in Slots, fail(c) PROVE ChaseInv'
  BY <1>a, <1>5 DEF fail
<1>6. ASSUME NEW c \in Slots, rename(c) PROVE ChaseInv'
  BY <1>a, <1>6 DEF rename
<1>7. ASSUME NEW k \in Key, evict(k) PROVE ChaseInv'
  BY <1>b, <1>7 DEF evict
<1>8. ASSUME NEW T \in SUBSET Tools, invalidate(T) PROVE ChaseInv'
  BY <1>8 DEF invalidate, Honest
<1>9. CASE restart
  BY <1>9 DEF restart
<1>10. CASE Tick
  <2>. SUFFICES ASSUME NEW k \in Key, mem'[k] # Nothing
                PROVE  Honest(mem'[k]) \/ k \in revalidating' \/ ended'[k] <= mem'[k].age
    BY DEF Honest
  <2>1. mem'[k] = Aged(mem[k]) /\ mem[k] # Nothing
    BY <1>0, <1>10, AgedType DEF Tick
  <2>2. ended'[k] = (IF ended[k] <= Ttl THEN ended[k] + 1 ELSE ended[k]) /\ revalidating' = revalidating
    BY <1>10 DEF Tick
  <2>3. Honest(mem[k]) \/ k \in revalidating \/ ended[k] <= mem[k].age
    BY <2>1
  <2>4. /\ Honest(mem[k]) => Honest(Aged(mem[k]))
        /\ ended[k] <= mem[k].age => ended'[k] <= Aged(mem[k]).age
    BY <1>0, <2>1, <2>2, AgedHonest
  <2>. QED BY <2>1, <2>2, <2>3, <2>4
<1>. QED BY <1>1, <1>2, <1>3, <1>4, <1>5, <1>6, <1>7, <1>8, <1>9, <1>10
     DEF Next, vars, write, rotate, scanAndDelete

-----------------------------------------------------------------------------
Inductive == Typed /\ RefreshInv /\ DiskInv /\ ChaseInv

LEMMA InductiveInit == Init => Inductive
<1>. SUFFICES ASSUME Init PROVE Inductive
  OBVIOUS
<1>1. Typed
  BY Entries, KeyFacts, Numbers DEF Init, Typed
<1>2. RefreshInv
  BY KeyFacts DEF Init, RefreshInv
<1>3. DiskInv /\ ChaseInv
  BY DEF Init, DiskInv, ChaseInv, Exact
<1>. QED BY <1>1, <1>2, <1>3 DEF Inductive

LEMMA CacheInductive == Spec => []Inductive
<1>1. Inductive /\ [Next]_vars => Inductive'
  BY TypeStep, RefreshStep, DiskStep, ChaseStep DEF Inductive
<1>. QED BY <1>1, InductiveInit, PTL DEF Spec

(***************************************************************************)
(* revalidating holds a key exactly while one refresh of it is in flight,  *)
(* and there are never two (refreshInBackground in cache.ts).              *)
(***************************************************************************)
THEOREM RefreshCorrect == Spec => []CacheInv
<1>1. Typed => TypeOK
  BY DEF Typed, TypeOK, SlotRec
<1>2. Inductive => CacheInv
  BY <1>1, CountOfOne DEF Inductive, CacheInv
<1>. QED BY <1>2, CacheInductive, PTL

(***************************************************************************)
(* A stale value that memory serves as fresh is being refreshed, or a      *)
(* refresh of it has ended within its time to live (cache.ts, get).        *)
(***************************************************************************)
THEOREM ChaseCorrect == Spec => []StaleIsChased
<1>1. Inductive => StaleIsChased
  <2>. SUFFICES ASSUME Inductive, NEW k \in Key, mem[k] # Nothing, ~Expired(mem[k]),
                       mem[k].truth > Ttl + 1
                PROVE  k \in revalidating \/ ended[k] <= Ttl
    BY DEF StaleIsChased
  <2>1. mem[k].truth \in 0 .. (Ttl + 2) /\ mem[k].age \in 0 .. (Ttl + 2) /\ mem[k].ttl \in 0 .. Ttl
        /\ ended[k] \in 0 .. (Ttl + 2)
    BY Numbers DEF Inductive, Typed, Entry
  <2>2. Honest(mem[k]) \/ k \in revalidating \/ ended[k] <= mem[k].age
    BY DEF Inductive, ChaseInv
  <2>3. mem[k].age <= mem[k].ttl
    BY <2>1 DEF Expired
  <2>. QED BY <2>1, <2>2, <2>3, Numbers DEF Honest
<1>. QED BY <1>1, CacheInductive, PTL
=============================================================================
