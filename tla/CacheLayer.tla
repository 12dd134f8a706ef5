----------------------------- MODULE CacheLayer -----------------------------
(***************************************************************************)
(* The cache of tool results (src/cache/cache.ts, lru.ts, disk.ts) and the *)
(* path of a call through it (callTool in src/server/mcp-server.ts): a     *)
(* memory tier under server, tool and arguments, a disk tier under the     *)
(* hash of the arguments alone, and stale-while-revalidate.                *)
(*                                                                         *)
(* Time is kept as ages that stop at `Old'.  A tick is longer than what is *)
(* done with the disk, so none passes meanwhile; a fetch may take as many  *)
(* as it likes.  All tools have the same time to live.                     *)
(*                                                                         *)
(* A slot is a call of callTool(), which goes on as the refresh in the     *)
(* background when it was answered with a stale value.                     *)
(***************************************************************************)
EXTENDS Integers, FiniteSets

CONSTANTS
    Tools,
    Args,    \* hashes of arguments
    Slots,   \* bound: calls and refreshes under way at once
    Ttl      \* resolveTtl() of every tool

ASSUME CacheAssumption ==
    /\ Ttl \in Nat \ {0}
    /\ "none" \notin Tools
    /\ Tools # {} /\ Args # {}

VARIABLES
    mem,           \* MemoryLru: for every key an entry or Nothing
    disk,          \* DiskCache: for every hash an entry or Nothing
    tmp,           \* the temporary file of every hash
    revalidating,  \* the keys with a refresh in flight
    slot,          \* the calls and refreshes
    doomed,        \* tools whose disk entries are about to be deleted
    ended          \* how long ago the last refresh of a key ended

vars == <<mem, disk, tmp, revalidating, slot, doomed, ended>>

Key == Tools \X Args
Old == Ttl + 2
Age == 0 .. Old

\* tool: who computed the value; truth: how long ago; age: since it was stored
\* in this tier; ttl: how long this tier may serve it.
Nothing == [tool |-> "none", truth |-> Old, age |-> Old, ttl |-> 0]
Fetched(tool) == [tool |-> tool, truth |-> 0, age |-> 0, ttl |-> Ttl]
Expired(e) == e.age > e.ttl

Larger(a, b) == IF a > b THEN a ELSE b

\* pc: "idle", "reading" (the disk), "fetching", "writing" (the temporary file)
\* or "renaming"; bg: it is a refresh.
Slot(pc, key, bg) == [pc |-> pc, key |-> key, bg |-> bg]
Idle == Slot("idle", CHOOSE k \in Key : TRUE, FALSE)

Init ==
    /\ mem = [k \in Key |-> Nothing]
    /\ disk = [a \in Args |-> Nothing]
    /\ tmp = [a \in Args |-> Nothing]
    /\ revalidating = {}
    /\ slot = [c \in Slots |-> Idle]
    /\ doomed = {}
    /\ ended = [k \in Key |-> Ttl + 1]

-----------------------------------------------------------------------------
\* Mutant: a refresh that is in flight is not looked for.
refreshInBackground_Herd(c, k) ==
    /\ slot' = [slot EXCEPT ![c] = Slot("fetching", k, TRUE)]
    /\ revalidating' = revalidating \cup {k}

\* refreshInBackground, called by the call in slot c that was given a stale
\* value: the slot goes on as the refresh, unless there is one.
refreshInBackground(c, k) ==
    IF k \in revalidating
    THEN /\ slot' = [slot EXCEPT ![c] = Idle]
         /\ UNCHANGED revalidating
    ELSE /\ slot' = [slot EXCEPT ![c] = Slot("fetching", k, TRUE)]
         /\ revalidating' = revalidating \cup {k}

\* callTool up to the first wait: a memory hit, or the disk is read.  (The
\* memory tier never finds an entry stale that it has not expired: ttlMap is
\* never less than the time to live in the tier.)
callTool(c, k) ==
    /\ slot[c].pc = "idle"
    /\ \/ /\ mem[k] # Nothing /\ ~Expired(mem[k])
          /\ UNCHANGED <<mem, slot>>
       \/ /\ mem[k] = Nothing \/ Expired(mem[k])
          /\ mem' = [mem EXCEPT ![k] = Nothing]
          /\ slot' = [slot EXCEPT ![c] = Slot("reading", k, FALSE)]
    /\ UNCHANGED <<disk, tmp, revalidating, doomed, ended>>

\* Mutant: a stale entry of the disk is returned without a refresh.
get_Unflagged(c) ==
    LET k == slot[c].key
        e == disk[k[2]]
    IN
    /\ slot[c].pc = "reading"
    /\ IF e = Nothing
       THEN slot' = [slot EXCEPT ![c].pc = "fetching"] /\ UNCHANGED mem
       ELSE /\ mem' = [mem EXCEPT ![k] = [e EXCEPT !.age = 0, !.ttl = Larger(1, e.ttl - e.age)]]
            /\ slot' = [slot EXCEPT ![c] = Idle]
    /\ UNCHANGED <<disk, tmp, revalidating, doomed, ended>>

\* The rest of get(): the disk is asked for the hash.  A fresh entry moves up
\* with what is left of its time, a stale one with the full time.
get(c) ==
    LET k == slot[c].key
        e == disk[k[2]]
    IN
    /\ slot[c].pc = "reading"
    /\ \/ /\ e = Nothing
          /\ slot' = [slot EXCEPT ![c].pc = "fetching"]
          /\ UNCHANGED <<mem, revalidating>>
       \/ /\ e # Nothing /\ ~Expired(e)
          /\ mem' = [mem EXCEPT ![k] = [e EXCEPT !.age = 0, !.ttl = Larger(1, e.ttl - e.age)]]
          /\ slot' = [slot EXCEPT ![c] = Idle]
          /\ UNCHANGED revalidating
       \/ /\ e # Nothing /\ Expired(e)
          /\ mem' = [mem EXCEPT ![k] = [e EXCEPT !.age = 0, !.ttl = Larger(1, e.ttl)]]
          /\ refreshInBackground(c, k)
    /\ UNCHANGED <<disk, tmp, doomed, ended>>

\* A call ends, a refresh takes its key out of revalidating.
Settled(c) ==
    /\ slot' = [slot EXCEPT ![c] = Idle]
    /\ revalidating' = IF slot[c].bg THEN revalidating \ {slot[c].key} ELSE revalidating
    /\ ended' = IF slot[c].bg THEN [ended EXCEPT ![slot[c].key] = 0] ELSE ended

\* The gateway answers, and set() stores in memory and turns to the disk.
set(c) ==
    LET k == slot[c].key IN
    /\ slot[c].pc = "fetching"
    /\ mem' = [mem EXCEPT ![k] = Fetched(k[1])]
    /\ slot' = [slot EXCEPT ![c].pc = "writing"]
    /\ UNCHANGED <<disk, tmp, revalidating, doomed, ended>>

\* Mutant: only a success takes the key out of revalidating.
fail_KeepsKey(c) ==
    /\ slot[c].pc = "fetching"
    /\ slot' = [slot EXCEPT ![c] = Idle]
    /\ UNCHANGED <<mem, disk, tmp, revalidating, doomed, ended>>

\* The gateway fails: the error goes to the caller, or to the log.
fail(c) ==
    /\ slot[c].pc = "fetching"
    /\ Settled(c)
    /\ UNCHANGED <<mem, disk, tmp, doomed>>

\* DiskCache.set: the temporary file is named after the hash and the process,
\* so two writes of one hash share it, and the rename of the second fails.
write(c) ==
    /\ slot[c].pc = "writing"
    /\ tmp' = [tmp EXCEPT ![slot[c].key[2]] = Fetched(slot[c].key[1])]
    /\ slot' = [slot EXCEPT ![c].pc = "renaming"]
    /\ UNCHANGED <<mem, disk, revalidating, doomed, ended>>

rename(c) ==
    LET a == slot[c].key[2] IN
    /\ slot[c].pc = "renaming"
    /\ \/ /\ tmp[a] # Nothing
          /\ disk' = [disk EXCEPT ![a] = tmp[a]]
          /\ tmp' = [tmp EXCEPT ![a] = Nothing]
          /\ Settled(c)
       \/ /\ tmp[a] = Nothing
          /\ Settled(c)
          /\ UNCHANGED <<disk, tmp>>
    /\ UNCHANGED <<mem, doomed>>

-----------------------------------------------------------------------------
\* The size limits: the memory tier evicts, rotate() deletes files.
evict(k) ==
    /\ mem[k] # Nothing
    /\ mem' = [mem EXCEPT ![k] = Nothing]
    /\ UNCHANGED <<disk, tmp, revalidating, slot, doomed, ended>>

rotate(a) ==
    /\ disk[a] # Nothing
    /\ disk' = [disk EXCEPT ![a] = Nothing]
    /\ UNCHANGED <<mem, tmp, revalidating, slot, doomed, ended>>

\* invalidate() and the watcher of "tool-updated" for the tools in T, clear()
\* for all of them: memory now, the disk later, by who wrote the entry.
invalidate(T) ==
    /\ mem' = [k \in Key |-> IF k[1] \in T THEN Nothing ELSE mem[k]]
    /\ doomed' = doomed \cup T
    /\ UNCHANGED <<disk, tmp, revalidating, slot, ended>>

scanAndDelete ==
    /\ doomed # {}
    /\ disk' = [a \in Args |-> IF disk[a].tool \in doomed THEN Nothing ELSE disk[a]]
    /\ doomed' = {}
    /\ UNCHANGED <<mem, tmp, revalidating, slot, ended>>

\* The process ends at any point and starts again: the disk remains.
restart ==
    /\ disk' = disk
    /\ mem' = [k \in Key |-> Nothing]
    /\ tmp' = [a \in Args |-> Nothing]
    /\ revalidating' = {}
    /\ slot' = [c \in Slots |-> Idle]
    /\ doomed' = {}
    /\ ended' = [k \in Key |-> Ttl + 1]

Older(n) == IF n < Old THEN n + 1 ELSE n
Aged(e) == IF e = Nothing THEN e ELSE [e EXCEPT !.truth = Older(@), !.age = Older(@)]

Tick ==
    /\ \A c \in Slots : slot[c].pc \in {"idle", "fetching"}
    /\ doomed = {}
    /\ mem' = [k \in Key |-> Aged(mem[k])]
    /\ disk' = [a \in Args |-> Aged(disk[a])]
    /\ ended' = [k \in Key |-> IF ended[k] <= Ttl THEN ended[k] + 1 ELSE ended[k]]
    /\ UNCHANGED <<tmp, revalidating, slot, doomed>>

Next ==
    \/ \E c \in Slots : \/ \E k \in Key : callTool(c, k)
                        \/ get(c) \/ set(c) \/ fail(c) \/ write(c) \/ rename(c)
    \/ \E k \in Key : evict(k)
    \/ \E a \in Args : rotate(a)
    \/ \E T \in SUBSET Tools \ {{}} : invalidate(T)
    \/ scanAndDelete
    \/ restart
    \/ Tick

Spec == Init /\ [][Next]_vars

\* The gateway settles every call and the disk every operation.
Fairness ==
    \A c \in Slots : WF_vars(get(c) \/ set(c) \/ fail(c) \/ write(c) \/ rename(c))

FairSpec == Spec /\ Fairness
-----------------------------------------------------------------------------
Entry == [tool : Tools \cup {"none"}, truth : Age, age : Age, ttl : 0 .. Ttl]

TypeOK ==
    /\ mem \in [Key -> Entry]
    /\ disk \in [Args -> Entry]
    /\ tmp \in [Args -> Entry]
    /\ revalidating \subseteq Key
    /\ slot \in [Slots -> [pc : {"idle", "reading", "fetching", "writing", "renaming"},
                           key : Key, bg : BOOLEAN]]
    /\ doomed \subseteq Tools
    /\ ended \in [Key -> Age]

(***************************************************************************)
(* revalidating is exact: a key is in it while one refresh of that key is  *)
(* in flight, and there are never two.  A key left behind would never be   *)
(* refreshed again; a key lost would start a herd of refreshes.            *)
(***************************************************************************)
OneRefresh ==
    \A k \in Key : Cardinality({c \in Slots : slot[c].bg /\ slot[c].key = k})
                       = IF k \in revalidating THEN 1 ELSE 0

CacheInv == TypeOK /\ OneRefresh

(***************************************************************************)
(* A stale value that memory serves as fresh, because get() stored it      *)
(* again with the full time, is being refreshed, or a refresh of it has    *)
(* ended, in vain, within its time to live.  (The extra unit is that of    *)
(* Math.max(1, ...).)                                                      *)
(***************************************************************************)
StaleIsChased ==
    \A k \in Key : mem[k] # Nothing /\ ~Expired(mem[k]) /\ mem[k].truth > Ttl + 1
                       => k \in revalidating \/ ended[k] <= Ttl

(***************************************************************************)
(* The key of a refresh is removed on completion, success or failure.      *)
(***************************************************************************)
RefreshEnds == \A k \in Key : k \in revalidating ~> k \notin revalidating

-----------------------------------------------------------------------------
(***************************************************************************)
(* key.ts:64 "Serialise a CacheKey to the string format used on disk and   *)
(* in memory maps. Format: `${server}:${tool}:${argsHash}`": what get()    *)
(* finds for a key, returns and keeps in memory was computed by the tool   *)
(* of that key.                                                            *)
(***************************************************************************)
ServedOwn == \A k \in Key : mem[k].tool \in {"none", k[1]}
=============================================================================
