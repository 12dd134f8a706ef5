------------------------------- MODULE MCHost -------------------------------
(***************************************************************************)
(* What the server and the command line keep, part by part: the server's   *)
(* tools and their books, the path of a bridge call, the recordings, the   *)
(* catalog of tools, and the files that configure the conductor and its    *)
(* clients.  The parts share no variable, so one run checks them next to   *)
(* each other: a behaviour moves the part it has chosen in the beginning,  *)
(* and the state spaces add up.                                            *)
(***************************************************************************)
EXTENDS ToolServer, CallPath, Recordings, ToolRegistry, ConfigWatcher, ServerConfig, ClientConfigs

VARIABLE focus

hostVars == <<focus, tsVars, cpathVars, recVars, trVars, cwVars, scVars, cfVars>>

Parts == {"tools", "path", "recordings", "catalog", "watcher", "config", "clients"}

\* A part that does not move stays in one initial state.
MCInit ==
    /\ focus \in Parts
    /\ TSInit /\ RecInit /\ TRInit
    /\ CWInit /\ (focus # "watcher" => ~exclusive)
    /\ CPathInit /\ (focus # "path" => ~redacts /\ ~wouldCache)
    /\ SCInit /\ (focus # "config" => ~envPath /\ primary = Missing /\ alternative = Missing)
    /\ CFInit /\ (focus # "clients" => client = "zed" /\ file = NoConfig)

MCNext ==
    \/ focus = "tools" /\ TSNext
       /\ UNCHANGED <<focus, cpathVars, recVars, trVars, cwVars, scVars, cfVars>>
    \/ focus = "path" /\ CPathNext
       /\ UNCHANGED <<focus, tsVars, recVars, trVars, cwVars, scVars, cfVars>>
    \/ focus = "recordings" /\ RecNext
       /\ UNCHANGED <<focus, tsVars, cpathVars, trVars, cwVars, scVars, cfVars>>
    \/ focus = "catalog" /\ TRNext
       /\ UNCHANGED <<focus, tsVars, cpathVars, recVars, cwVars, scVars, cfVars>>
    \/ focus = "watcher" /\ CWNext
       /\ UNCHANGED <<focus, tsVars, cpathVars, recVars, trVars, scVars, cfVars>>
    \/ focus = "config" /\ SCNext
       /\ UNCHANGED <<focus, tsVars, cpathVars, recVars, trVars, cwVars, cfVars>>
    \/ focus = "clients" /\ CFNext
       /\ UNCHANGED <<focus, tsVars, cpathVars, recVars, trVars, cwVars, scVars>>

MCSpec == MCInit /\ [][MCNext]_hostVars

-----------------------------------------------------------------------------
\* The instance: two servers whose names begin alike, a tool each that give
\* one composed name, and the first one routed to passthrough by the table.
MCServers == {"s1", "s2"}
MCToolKeys == {"a", "b"}
MCOwner == [k \in MCToolKeys |-> IF k = "a" THEN "s1" ELSE "s2"]
MCPrefixed == [s \in MCServers |-> IF s = "s1" THEN {"b"} ELSE {}]
MCComposedName == [k \in MCToolKeys |-> "n"]
MCBuiltInPassthrough == {"a"}
MCPerServerRouting == {[s \in MCServers |-> IF s = "s1" THEN "auto" ELSE r] : r \in {"passthrough", "auto"}}

-----------------------------------------------------------------------------
(***************************************************************************)
(* What the server keeps of the calls it answers: every call is counted    *)
(* once and in its own books, an answer is the backend's and of the mode   *)
(* it was asked in, and a recording replays as it was written.             *)
(***************************************************************************)
CallsAccounted ==
    /\ focus = "tools" => TSInv
    /\ focus = "path" => CPathInv
    /\ focus = "recordings" => RecInv

(***************************************************************************)
(* What the server and the command line keep of servers and tools: the     *)
(* catalog follows the hub, a change of the watched file is read or passed *)
(* over for an exclusive configuration, the saved configuration is what    *)
(* the answers say, and an entry of a client's file is lost only with a    *)
(* backup that failed: each but for the exceptions its module names.       *)
(***************************************************************************)
ConfigurationKept ==
    /\ focus = "catalog" => TRInv
    /\ focus = "watcher" => CWInv
    /\ focus = "config" => SCInv
    /\ focus = "clients" => CFInv
=============================================================================
