---------------------------- MODULE ToolRegistry ----------------------------
(***************************************************************************)
(* The catalog of backend tools (src/src/registry), filled from the hub's  *)
(* tool cache, and the passthrough tools the server registers from it when *)
(* it starts (mcp-server.ts, start()).                                     *)
(*                                                                         *)
(* A tool is known by its key "server/name".  Keys are prefixes of each    *)
(* other in the text only: Under(s) are the keys that begin with "s/".     *)
(* Description and input schema are one value that may change; a change of *)
(* the output schema alone, which nobody is told of, is left out.          *)
(*                                                                         *)
(* refreshServer() has no await: what interleaves is the hub, whose server *)
(* counts as connected while its tools are still being listed.             *)
(***************************************************************************)
EXTENDS Naturals, FiniteSets

CONSTANTS
    Servers,
    ToolKeys,
    Owner,              \* the server of a key
    Prefixed,           \* the keys of other servers that begin with "s/"
    ComposedName,       \* <server>__<tool> of a key
    BuiltInPassthrough, \* the keys the built-in table routes to passthrough
    PerServerRouting,   \* the routings by server a configuration may ask for
    MaxAbandoned        \* bounds the listings whose client was closed under them

ASSUME ToolRegistryAssumption ==
    /\ IsFiniteSet(ToolKeys)
    /\ Owner \in [ToolKeys -> Servers]
    /\ Prefixed \in [Servers -> SUBSET ToolKeys]
    /\ DOMAIN ComposedName = ToolKeys
    /\ BuiltInPassthrough \subseteq ToolKeys
    /\ PerServerRouting \subseteq [Servers -> {"passthrough", "execute_code", "auto"}]
    /\ MaxAbandoned \in Nat

VARIABLES
    link,        \* the hub's connection: "down", "listing", "cut" (lost while
                 \* its tools are listed), "up" or "lost"
    toolCache,   \* the hub's
    abandoned,   \* servers with a listing whose client was closed under it
    catalog,     \* def and routing of a key
    mirror,      \* what a watcher knows that applies every event
    startup,     \* "new", "refreshing", "started" or "failed"
    toRefresh,   \* the servers refresh() has not come to yet
    registered,  \* the names of the passthrough tools
    snapshot,    \* catalog in the snapshot file
    foreign,     \* history: keys removed by the refresh of another server, or
                 \* brought in by the snapshot, since the refresh of their own
    unheard      \* history: the same, since the last event about the key

trVars == <<link, toolCache, abandoned, catalog, mirror, startup, toRefresh, registered, snapshot, foreign, unheard>>

Definitions == {"first", "second"}
Routings == {"unset", "passthrough", "execute_code"}
NoTool == [def |-> "none", routing |-> "unset"]

ToolsOf(s) == {k \in ToolKeys : Owner[k] = s}
Under(s) == ToolsOf(s) \cup Prefixed[s]
InCatalog(k) == catalog[k] # NoTool

TRInit ==
    /\ link = [s \in Servers |-> "down"]
    /\ toolCache = [k \in ToolKeys |-> "none"]
    /\ abandoned = {}
    /\ catalog = [k \in ToolKeys |-> NoTool]
    /\ mirror = [k \in ToolKeys |-> "none"]
    /\ startup = "new" /\ toRefresh = {}
    /\ registered = {}
    /\ snapshot = [k \in ToolKeys |-> NoTool]
    /\ foreign = {} /\ unheard = {}

-----------------------------------------------------------------------------
\* Mutant: the event of a removed tool is sent only when another took its place.
refreshServer_Silent(s, tools) ==
    LET incoming == {k \in ToolsOf(s) : tools[k] # "none"}
        removed  == {k \in Under(s) : InCatalog(k)} \ incoming
        added    == {k \in incoming : ~InCatalog(k)}
        updated  == {k \in incoming \ added : catalog[k].def # tools[k]}
    IN  /\ catalog' = [k \in ToolKeys |->
                          IF k \in incoming THEN [catalog[k] EXCEPT !.def = tools[k]]
                          ELSE IF k \in removed THEN NoTool ELSE catalog[k]]
        /\ mirror' = [k \in ToolKeys |->
                          IF k \in added \cup updated THEN tools[k]
                          ELSE IF k \in removed /\ Owner[k] = s /\ added # {} THEN "none" ELSE mirror[k]]
        /\ foreign' = (foreign \ ToolsOf(s)) \cup (removed \ ToolsOf(s))
        /\ unheard' = (unheard \ (added \cup updated \cup removed)) \cup (removed \ ToolsOf(s))

\* refreshServer for one server: annotations stay with a tool that is still
\* there.  The event of a removed tool names the refreshed server, so for the
\* tool of another one it says nothing.
refreshServer(s, tools) ==
    LET incoming == {k \in ToolsOf(s) : tools[k] # "none"}
        removed  == {k \in Under(s) : InCatalog(k)} \ incoming
        added    == {k \in incoming : ~InCatalog(k)}
        updated  == {k \in incoming \ added : catalog[k].def # tools[k]}
    IN  /\ catalog' = [k \in ToolKeys |->
                          IF k \in incoming THEN [catalog[k] EXCEPT !.def = tools[k]]
                          ELSE IF k \in removed THEN NoTool ELSE catalog[k]]
        /\ mirror' = [k \in ToolKeys |->
                          IF k \in added \cup updated THEN tools[k]
                          ELSE IF k \in removed /\ Owner[k] = s THEN "none" ELSE mirror[k]]
        /\ foreign' = (foreign \ ToolsOf(s)) \cup (removed \ ToolsOf(s))
        /\ unheard' = (unheard \ (added \cup updated \cup removed)) \cup (removed \ ToolsOf(s))

Unrefreshed == UNCHANGED <<catalog, mirror, foreign, unheard>>
OthersSame == UNCHANGED <<startup, toRefresh, registered, snapshot>>

-----------------------------------------------------------------------------
\* connectServer: the client is connected, its tools are asked for.  No
\* step of the hub falls into refresh().
connects(s) ==
    /\ toRefresh = {} /\ link[s] \in {"down", "lost"}
    /\ link' = [link EXCEPT ![s] = "listing"]
    /\ UNCHANGED <<toolCache, abandoned>> /\ Unrefreshed /\ OthersSame

\* cacheServerTools, serverConnected and the registry's onConnect: when the
\* list fails the old one stays and the rest is the same.
cacheServerTools(s) ==
    /\ toRefresh = {} /\ link[s] \in {"listing", "cut"}
    /\ link' = [link EXCEPT ![s] = IF @ = "cut" THEN "lost" ELSE "up"]
    /\ \/ UNCHANGED toolCache
       \/ /\ link[s] = "listing"
          /\ \E tools \in [ToolsOf(s) -> Definitions \cup {"none"}] :
                toolCache' = [k \in ToolKeys |-> IF k \in ToolsOf(s) THEN tools[k] ELSE toolCache[k]]
    /\ refreshServer(s, toolCache')
    /\ UNCHANGED abandoned /\ OthersSame

\* transport.onclose or onerror: the catalog stays.
loses(s) ==
    /\ toRefresh = {} /\ link[s] \in {"listing", "up"}
    /\ link' = [link EXCEPT ![s] = IF @ = "up" THEN "lost" ELSE "cut"]
    /\ UNCHANGED <<toolCache, abandoned>> /\ Unrefreshed /\ OthersSame

\* disconnectServer, of reload(): the registry hears nothing of it.  It takes
\* the handlers off the transport, so a listing that waits is not told.
disconnectServer(s) ==
    /\ toRefresh = {} /\ link[s] # "down"
    /\ link[s] \in {"listing", "cut"} => Cardinality(abandoned) < MaxAbandoned
    /\ link' = [link EXCEPT ![s] = "down"]
    /\ toolCache' = [k \in ToolKeys |-> IF k \in ToolsOf(s) THEN "none" ELSE toolCache[k]]
    /\ abandoned' = abandoned \cup (IF link[s] \in {"listing", "cut"} THEN {s} ELSE {})
    /\ Unrefreshed /\ OthersSame

\* It fails at the time limit of the client library, however the server is
\* connected by then, and ends as if it were the one that counts.
abandonedListing(s) ==
    /\ toRefresh = {} /\ s \in abandoned
    /\ abandoned' = abandoned \ {s}
    /\ refreshServer(s, toolCache)
    /\ UNCHANGED <<link, toolCache>> /\ OthersSame

\* start(): refresh() of the connected servers, one after the other.
refresh ==
    /\ startup = "new"
    /\ startup' = "refreshing"
    /\ toRefresh' = {s \in Servers : link[s] \in {"listing", "up"}}
    /\ UNCHANGED <<link, toolCache, abandoned, registered, snapshot>> /\ Unrefreshed
refreshNext(s) ==
    /\ s \in toRefresh
    /\ refreshServer(s, toolCache)
    /\ toRefresh' = toRefresh \ {s}
    /\ UNCHANGED <<link, toolCache, abandoned, startup, registered, snapshot>>

\* applyBuiltInRecommendations, where nothing is set yet; "none" is a server
\* the table does not know.
builtIn(k) == IF k \in BuiltInPassthrough THEN "passthrough"
              ELSE IF \E other \in BuiltInPassthrough : Owner[other] = Owner[k] THEN "execute_code"
              ELSE "unset"

\* applyPerServerRouting: the configuration's word for the server wins.
annotated(perServer) ==
    [k \in ToolKeys |->
        IF ~InCatalog(k) THEN NoTool
        ELSE [catalog[k] EXCEPT !.routing =
                 IF perServer[Owner[k]] # "auto" THEN perServer[Owner[k]]
                 ELSE IF @ = "unset" THEN builtIn(k) ELSE @]]

\* registerPassthroughTools: a name that is taken makes start() fail, with the
\* tools before it registered.
registerPassthroughTools ==
    /\ startup = "refreshing" /\ toRefresh = {}
    /\ \E perServer \in PerServerRouting :
          /\ catalog' = annotated(perServer)
          /\ LET passthrough == {k \in ToolKeys : catalog'[k].routing = "passthrough"}
                 names == {ComposedName[k] : k \in passthrough}
             IN  \/ /\ Cardinality(names) = Cardinality(passthrough)
                    /\ registered' = names /\ startup' = "started"
                 \/ /\ Cardinality(names) # Cardinality(passthrough)
                    /\ registered' \in SUBSET names /\ startup' = "failed"
    /\ UNCHANGED <<link, toolCache, abandoned, mirror, toRefresh, snapshot, foreign, unheard>>

\* saveSnapshot() and loadSnapshot(); a snapshot that cannot be read, or of
\* another version, loads nothing.  It is
\* saved by a process that has started, and loaded before the refresh.
saveSnapshot ==
    /\ startup = "started"
    /\ snapshot' \in {catalog, [k \in ToolKeys |-> NoTool]}
    /\ UNCHANGED <<link, toolCache, abandoned, startup, toRefresh, registered>> /\ Unrefreshed
loadSnapshot ==
    /\ startup = "new"
    /\ LET loaded == {k \in ToolKeys : ~InCatalog(k) /\ snapshot[k] # NoTool}
       IN  /\ catalog' = [k \in ToolKeys |-> IF k \in loaded THEN snapshot[k] ELSE catalog[k]]
           /\ foreign' = foreign \cup loaded /\ unheard' = unheard \cup loaded
    /\ UNCHANGED <<link, toolCache, abandoned, mirror>> /\ OthersSame

\* A new process: only the file is left.
processRestart ==
    /\ startup \in {"started", "failed"}
    /\ link' = [s \in Servers |-> "down"]
    /\ toolCache' = [k \in ToolKeys |-> "none"]
    /\ abandoned' = {}
    /\ catalog' = [k \in ToolKeys |-> NoTool]
    /\ mirror' = [k \in ToolKeys |-> "none"]
    /\ startup' = "new" /\ toRefresh' = {} /\ registered' = {}
    /\ foreign' = {} /\ unheard' = {}
    /\ UNCHANGED snapshot

TRNext ==
    \/ \E s \in Servers : \/ connects(s) \/ cacheServerTools(s) \/ loses(s) \/ disconnectServer(s)
                          \/ abandonedListing(s) \/ refreshNext(s)
    \/ refresh \/ registerPassthroughTools \/ saveSnapshot \/ loadSnapshot \/ processRestart

TRSpec == TRInit /\ [][TRNext]_trVars

-----------------------------------------------------------------------------
(***************************************************************************)
(* The catalog has for every server whose tools are listed what the hub    *)
(* has, but for the tools that a server whose name is the beginning of     *)
(* theirs took away and the ones a snapshot brought in (refreshServer).    *)
(***************************************************************************)
CatalogFollows ==
    \A k \in ToolKeys \ foreign :
        link[Owner[k]] = "up" => catalog[k].def = toolCache[k]

(***************************************************************************)
(* Whoever applies the events of watch() knows the schema of every tool in *)
(* the catalog and of no other, with the same two exceptions (the cache    *)
(* invalidates by these events).                                           *)
(***************************************************************************)
WatcherFollows ==
    \A k \in ToolKeys \ unheard : mirror[k] = catalog[k].def

(***************************************************************************)
(* After start() every tool the catalog routes to passthrough is one that  *)
(* was registered, whatever was refreshed, lost or found since; a start    *)
(* that failed had two tools of one name.                                  *)
(***************************************************************************)
PassthroughRegistered ==
    /\ startup = "started" =>
          \A k \in ToolKeys : catalog[k].routing = "passthrough" =>
              ComposedName[k] \in registered
    /\ startup = "failed" => \E j, k \in ToolKeys : j # k /\ ComposedName[j] = ComposedName[k]

TRTypeOK ==
    /\ link \in [Servers -> {"down", "listing", "cut", "up", "lost"}]
    /\ toolCache \in [ToolKeys -> Definitions \cup {"none"}]
    /\ abandoned \subseteq Servers
    /\ \A k \in ToolKeys : catalog[k] = NoTool \/ (catalog[k].def \in Definitions /\ catalog[k].routing \in Routings)
    /\ mirror \in [ToolKeys -> Definitions \cup {"none"}]
    /\ startup \in {"new", "refreshing", "started", "failed"}
    /\ foreign \cup unheard \subseteq ToolKeys

TRInv == TRTypeOK /\ CatalogFollows /\ WatcherFollows /\ PassthroughRegistered
=============================================================================
