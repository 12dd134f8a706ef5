------------------------------ MODULE CallPath ------------------------------
(***************************************************************************)
(* The callTool() the server gives to the bridge (mcp-server.ts): for one  *)
(* tool, the choice between the tokenised path, the cache and the gateway, *)
(* and the samples that hot-path.ts, anomaly.ts and cost-predictor.ts keep *)
(* of it.  The cache and the gateway have modules of their own and are one *)
(* step here; the tool's annotation and its entry in the cache change      *)
(* between the steps of a call.                                            *)
(***************************************************************************)
EXTENDS FiniteSets, Naturals, Sequences, Queues

CONSTANTS
    BridgeCalls,
    MaxSamplesPerBucket   \* of the profiler and of the predictor

ASSUME CallPathAssumption == MaxSamplesPerBucket \in Nat \ {0}

VARIABLES
    bridgeCall,    \* the calls
    redacts,       \* the tool has redact.response in the registry
    wouldCache,    \* the policy caches the tool
    entry,         \* its entry in the cache: "none", "fresh" or "stale"
    refreshing,    \* a background refresh runs
    hotSamples,    \* the profiler's bucket: call and age
    anomalyCount,  \* n of the anomaly detector's statistics
    costSamples,   \* the predictor's bucket
    sampled        \* history: the calls that were sampled, in order

cpathVars == <<bridgeCall, redacts, wouldCache, entry, refreshing, hotSamples, anomalyCount,
               costSamples, sampled>>

\* at: "idle", "tokenized", "looking", "gateway", "storing" or "answered".
\* from: where the answer comes from.  began: history, redacts at the start.
CPathInit ==
    /\ bridgeCall = [c \in BridgeCalls |-> [at |-> "idle", from |-> "nowhere", began |-> FALSE]]
    /\ redacts \in BOOLEAN
    /\ wouldCache \in BOOLEAN
    /\ entry = "none"
    /\ refreshing = FALSE
    /\ hotSamples = <<>> /\ anomalyCount = 0 /\ costSamples = <<>>
    /\ sampled = <<>>

Move(c, at) == bridgeCall' = [bridgeCall EXCEPT ![c].at = at]
Answered(c, from) == bridgeCall' = [bridgeCall EXCEPT ![c].at = "answered", ![c].from = from]

\* The last n of s.
Newest(s, n) == SubSeq(s, IF Len(s) > n THEN Len(s) - n + 1 ELSE 1, Len(s))

\* record() of the three.
recordHot(c) == hotSamples' = Newest(Append(hotSamples, [call |-> c, expired |-> FALSE]), MaxSamplesPerBucket)
recordAnomaly == anomalyCount' = anomalyCount + 1
recordCost(c) == costSamples' = Newest(Append(costSamples, c), MaxSamplesPerBucket)
Observed(c) == recordHot(c) /\ recordAnomaly /\ recordCost(c) /\ sampled' = Append(sampled, c)
NotObserved == UNCHANGED <<hotSamples, anomalyCount, costSamples, sampled>>

-----------------------------------------------------------------------------
\* Mutant: the cache is asked first.
callTool_CacheFirst(c) ==
    /\ bridgeCall[c].at = "idle"
    /\ bridgeCall' = [bridgeCall EXCEPT ![c].began = redacts,
                        ![c].at = IF wouldCache THEN "looking" ELSE IF redacts THEN "tokenized" ELSE "gateway"]
    /\ UNCHANGED <<redacts, wouldCache, entry, refreshing>> /\ NotObserved

callTool(c) ==
    /\ bridgeCall[c].at = "idle"
    /\ bridgeCall' = [bridgeCall EXCEPT ![c].began = redacts,
                        ![c].at = IF redacts THEN "tokenized" ELSE IF wouldCache THEN "looking" ELSE "gateway"]
    /\ UNCHANGED <<redacts, wouldCache, entry, refreshing>> /\ NotObserved

\* hub.callToolTokenized: sampled, and past the cache.
tokenizedReturns(c) ==
    /\ bridgeCall[c].at = "tokenized"
    /\ Answered(c, "tokens") /\ Observed(c)
    /\ UNCHANGED <<redacts, wouldCache, entry, refreshing>>

\* cache.get(): a hit is the answer; a stale one starts the refresh, unless
\* one runs.
cacheLookup(c) ==
    /\ bridgeCall[c].at = "looking"
    /\ IF entry = "none" THEN Move(c, "gateway") ELSE Answered(c, "cache")
    /\ refreshing' = (refreshing \/ entry = "stale")
    /\ UNCHANGED <<redacts, wouldCache, entry>> /\ NotObserved

\* gateway.call() of a miss.
gatewayReturns(c) ==
    /\ bridgeCall[c].at = "gateway"
    /\ IF wouldCache THEN Move(c, "storing") ELSE Answered(c, "backend")
    /\ Observed(c)
    /\ UNCHANGED <<redacts, wouldCache, entry, refreshing>>

\* It threw, or callToolTokenized() did.
backendFails(c) ==
    /\ bridgeCall[c].at \in {"gateway", "tokenized"}
    /\ Answered(c, "error")
    /\ UNCHANGED <<redacts, wouldCache, entry, refreshing>> /\ NotObserved

\* cache.set(): its failure is one of the call.
cacheSet(c) ==
    /\ bridgeCall[c].at = "storing"
    /\ \/ Answered(c, "backend") /\ entry' = "fresh"
       \/ Answered(c, "error") /\ UNCHANGED entry
    /\ UNCHANGED <<redacts, wouldCache, refreshing>> /\ NotObserved

\* refreshInBackground: gateway, backend and cache, without a sample.
refreshEnds ==
    /\ refreshing
    /\ refreshing' = FALSE
    /\ \/ entry' = "fresh"
       \/ UNCHANGED entry
    /\ UNCHANGED <<bridgeCall, redacts, wouldCache>> /\ NotObserved

\* Time passes for the entry; the cache forgets it.
entryAges ==
    /\ entry # "none"
    /\ entry' = IF entry = "fresh" THEN "stale" ELSE "none"
    /\ UNCHANGED <<bridgeCall, redacts, wouldCache, refreshing>> /\ NotObserved

\* registry.annotate(), and a refresh that loses the annotation.
annotationChanges ==
    /\ redacts' = ~redacts
    /\ UNCHANGED <<bridgeCall, wouldCache, entry, refreshing>> /\ NotObserved

\* A sample grows older than the window.
sampleExpires ==
    /\ \E i \in DOMAIN hotSamples :
          /\ \A j \in 1 .. i - 1 : hotSamples[j].expired
          /\ ~hotSamples[i].expired
          /\ hotSamples' = [hotSamples EXCEPT ![i].expired = TRUE]
    /\ UNCHANGED <<bridgeCall, redacts, wouldCache, entry, refreshing, anomalyCount, costSamples, sampled>>

\* getHotPaths: evictExpired() of the profiler, then the entries.
getHotPaths ==
    /\ hotSamples' = Filtered(hotSamples, {i \in DOMAIN hotSamples : ~hotSamples[i].expired})
    /\ UNCHANGED <<bridgeCall, redacts, wouldCache, entry, refreshing, anomalyCount, costSamples, sampled>>

CPathNext ==
    \/ \E c \in BridgeCalls :
          \/ callTool(c) \/ tokenizedReturns(c) \/ cacheLookup(c) \/ gatewayReturns(c)
          \/ backendFails(c) \/ cacheSet(c)
    \/ refreshEnds \/ entryAges \/ annotationChanges \/ sampleExpires \/ getHotPaths

CPathSpec == CPathInit /\ [][CPathNext]_cpathVars

-----------------------------------------------------------------------------
(***************************************************************************)
(* A call that finds the tool redacted is answered with tokens or an       *)
(* error, whatever an earlier call without redaction left in the cache and *)
(* however the annotation changes while it runs; any other call is never   *)
(* answered with tokens.                                                   *)
(***************************************************************************)
RedactedByTokens ==
    \A c \in BridgeCalls :
        bridgeCall[c].at = "answered" =>
            IF bridgeCall[c].began THEN bridgeCall[c].from \in {"tokens", "error"}
                                   ELSE bridgeCall[c].from \in {"cache", "backend", "error"}

(***************************************************************************)
(* The three observers see the same calls: those a backend answered, each  *)
(* once, in the order of the answers; a hit of the cache, a failure and a  *)
(* background refresh are in none of them.  The profiler holds the newest, *)
(* but for the evicted ones.                                               *)
(***************************************************************************)
ObserversAgree ==
    /\ anomalyCount = Len(sampled)
    /\ costSamples = Newest(sampled, MaxSamplesPerBucket)
    /\ [i \in DOMAIN hotSamples |-> hotSamples[i].call] = Newest(sampled, Len(hotSamples))
    /\ \A i, j \in DOMAIN sampled : sampled[i] = sampled[j] => i = j
    /\ \A c \in BridgeCalls :
          /\ bridgeCall[c].from \in {"tokens", "backend"} => \E i \in DOMAIN sampled : sampled[i] = c
          /\ bridgeCall[c].from = "cache" => ~ \E i \in DOMAIN sampled : sampled[i] = c

CPathTypeOK ==
    /\ \A c \in BridgeCalls :
          /\ bridgeCall[c].at \in {"idle", "tokenized", "looking", "gateway", "storing", "answered"}
          /\ bridgeCall[c].from \in {"nowhere", "tokens", "cache", "backend", "error"}
    /\ entry \in {"none", "fresh", "stale"}
    /\ {redacts, wouldCache, refreshing} \subseteq BOOLEAN
    /\ Len(hotSamples) <= MaxSamplesPerBucket /\ Len(costSamples) <= MaxSamplesPerBucket

CPathInv == CPathTypeOK /\ RedactedByTokens /\ ObserversAgree
=============================================================================
