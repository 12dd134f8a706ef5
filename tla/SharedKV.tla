------------------------------ MODULE SharedKV ------------------------------
(***************************************************************************)
(* The daemon's key-value store and its snapshot on disk                   *)
(* (src/daemon/shared-kv.ts), over crashes and restarts of the process.    *)
(*                                                                         *)
(* An entry keeps the time left to expiresAt instead of the timestamp, in  *)
(* memory and in the snapshot alike.  Every operation is one synchronous   *)
(* piece of code; what can interrupt it is a crash of the process while    *)
(* writeFileSync has truncated the file and not yet written it.            *)
(*                                                                         *)
(* The daemon closes its connections before it shuts the store down, so    *)
(* requests come only while the store is "up".  list() and size change     *)
(* nothing.                                                                *)
(***************************************************************************)
EXTENDS Integers

CONSTANTS
    KVKeys,
    Values,
    MaxTtl    \* largest time to live, in ticks

ASSUME KVAssumption == MaxTtl \in Nat

VARIABLES
    kvPhase,  \* "down", "up" or "stopped" (kvShutdown() is done)
    store,  \* this.store
    dirty,
    disk,   \* the entries of the snapshot file
    intact  \* the file can be read; a missing file is an empty snapshot

kvVars == <<kvPhase, store, dirty, disk, intact>>

Expired == -1
Forever == -2
Left == Expired .. MaxTtl
Entry == [has : {TRUE}, value : Values, left : Left \cup {Forever}]
Absent == [has |-> FALSE]

Lapsed(e) == e.has /\ e.left = Expired
Unlapsed(entries) == [k \in KVKeys |-> IF Lapsed(entries[k]) THEN Absent ELSE entries[k]]
Empty == [k \in KVKeys |-> Absent]

KVInit ==
    /\ kvPhase = "down"
    /\ store = Empty
    /\ dirty = FALSE
    /\ disk = Empty
    /\ intact = TRUE

\* loadFromDisk: a snapshot that cannot be read is skipped.
loadFromDisk == IF intact THEN Unlapsed(disk) ELSE Empty

-----------------------------------------------------------------------------
construct ==
    /\ kvPhase = "down"
    /\ kvPhase' = "up"
    /\ store' = loadFromDisk
    /\ dirty' = FALSE
    /\ UNCHANGED <<disk, intact>>

\* Mutant: the entry is marked, not deleted.
get_Marks(k) ==
    /\ kvPhase = "up"
    /\ Lapsed(store[k])
    /\ store' = [store EXCEPT ![k].has = FALSE]
    /\ dirty' = TRUE
    /\ UNCHANGED <<kvPhase, disk, intact>>

\* get of a lapsed entry; any other get changes nothing.
get(k) ==
    /\ kvPhase = "up"
    /\ Lapsed(store[k])
    /\ store' = [store EXCEPT ![k] = Absent]
    /\ dirty' = TRUE
    /\ UNCHANGED <<kvPhase, disk, intact>>

\* set, with a ttl or (0, like a missing one) without.
set(k, v, ttl) ==
    /\ kvPhase = "up"
    /\ store' = [store EXCEPT ![k] =
                    [has |-> TRUE, value |-> v,
                     left |-> IF ttl > 0 THEN ttl ELSE Forever]]
    /\ dirty' = TRUE
    /\ UNCHANGED <<kvPhase, disk, intact>>

\* Mutant: dirty is not set.
delete_StaysClean(k) ==
    /\ kvPhase = "up"
    /\ store[k].has
    /\ store' = [store EXCEPT ![k] = Absent]
    /\ UNCHANGED <<kvPhase, dirty, disk, intact>>

delete(k) ==
    /\ kvPhase = "up"
    /\ store[k].has
    /\ store' = [store EXCEPT ![k] = Absent]
    /\ dirty' = TRUE
    /\ UNCHANGED <<kvPhase, disk, intact>>

\* clear of the keys with some prefix.
clear(S) ==
    /\ kvPhase = "up"
    /\ store' = [k \in KVKeys |-> IF k \in S THEN Absent ELSE store[k]]
    /\ dirty' = TRUE
    /\ UNCHANGED <<kvPhase, disk, intact>>

\* evictExpired.
Evicts == \E k \in KVKeys : Lapsed(store[k])
evictExpired == store' = Unlapsed(store)

\* The outcomes of flushToDisk: the file is written; or opening it throws;
\* or writing it does, once it was truncated.  An error is only logged.
Written == disk' = Unlapsed(store) /\ intact' = TRUE /\ dirty' = FALSE
Refused == UNCHANGED <<disk, intact>> /\ dirty' = (dirty \/ Evicts)
Truncated == disk' = Empty /\ intact' = FALSE /\ dirty' = (dirty \/ Evicts)
flushToDisk == Written \/ Refused \/ Truncated

\* Mutant: only evictions are written back.
Sweep_EvictionsOnly ==
    /\ kvPhase = "up"
    /\ evictExpired
    /\ IF Evicts THEN flushToDisk ELSE UNCHANGED <<dirty, disk, intact>>
    /\ UNCHANGED kvPhase

\* The callback of startSweep's timer.
Sweep ==
    /\ kvPhase = "up"
    /\ evictExpired
    /\ IF dirty \/ Evicts THEN flushToDisk ELSE UNCHANGED <<dirty, disk, intact>>
    /\ UNCHANGED kvPhase

kvShutdown ==
    /\ kvPhase = "up"
    /\ kvPhase' = "stopped"
    /\ evictExpired
    /\ flushToDisk

\* The process ends, orderly or not; a crash may hit a flush that has
\* truncated the file.
Exit ==
    /\ kvPhase # "down"
    /\ kvPhase' = "down"
    /\ store' = Empty
    /\ dirty' = FALSE
    /\ \/ UNCHANGED <<disk, intact>>
       \/ /\ kvPhase = "up"
          /\ disk' = Empty
          /\ intact' = FALSE

\* One tick of Date.now().
Older(e) == IF e.has /\ e.left >= 0 THEN [e EXCEPT !.left = @ - 1] ELSE e

Clock ==
    /\ store' = [k \in KVKeys |-> Older(store[k])]
    /\ disk' = [k \in KVKeys |-> Older(disk[k])]
    /\ UNCHANGED <<kvPhase, dirty, intact>>

KVNext ==
    \/ construct
    \/ \E k \in KVKeys : \/ get(k) \/ delete(k)
                       \/ \E v \in Values, ttl \in 0 .. MaxTtl : set(k, v, ttl)
    \/ \E S \in SUBSET KVKeys : clear(S)
    \/ Sweep
    \/ kvShutdown
    \/ Exit
    \/ Clock

KVSpec == KVInit /\ [][KVNext]_kvVars

\* The timer keeps firing, and the disk does not refuse every write.
KVFairness == SF_kvVars(Sweep /\ ~dirty')
KVFairSpec == KVSpec /\ KVFairness

-----------------------------------------------------------------------------
KVTypeOK ==
    /\ kvPhase \in {"down", "up", "stopped"}
    /\ store \in [KVKeys -> Entry \cup {Absent}]
    /\ dirty \in BOOLEAN
    /\ disk \in [KVKeys -> Entry \cup {Absent}]
    /\ intact \in BOOLEAN

(***************************************************************************)
(* A store that is not dirty has nothing to lose: a crash and a restart    *)
(* would bring back exactly the entries it answers with now, although      *)
(* entries expire on both sides and an earlier flush may have failed       *)
(* half-way.                                                               *)
(***************************************************************************)
CleanMeansSaved == kvPhase = "up" /\ ~dirty => Unlapsed(store) = loadFromDisk

(***************************************************************************)
(* Every change reaches the disk by way of the sweep, unless the process   *)
(* ends first.                                                             *)
(***************************************************************************)
SavedEventually == dirty ~> ~dirty \/ kvPhase # "up"
=============================================================================
