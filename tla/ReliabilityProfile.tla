------------------------- MODULE ReliabilityProfile -------------------------
(***************************************************************************)
(* How the effective reliability profile of a tool is resolved             *)
(* (src/reliability/profile.ts and ReliabilityGateway._resolveProfile).    *)
(*                                                                         *)
(* A profile is a function from its fields to a value; an override may     *)
(* leave a field Unset.  Only the fields that steer control flow are kept: *)
(* "retries" and "circuitBreakerMinCalls" stand for the eight of the code, *)
(* which are all merged by the same `??`.                                  *)
(***************************************************************************)
EXTENDS Integers

CONSTANTS
    Tools,            \* tool names of the one server that is modelled
    MutationTools,    \* the tools whose name matches MUTATION_PATTERNS
    DefaultProfile,   \* options.defaultProfile, an override of DEFAULT_PROFILE
    ServerOverride,   \* options.serverProfiles[server]
    RegistryOverride, \* toolLookup.getToolReliability(server, tool), by tool
    ToolOverride      \* options.toolProfiles["server.tool"], by tool

Unset == -1
Fields == {"retries", "circuitBreakerMinCalls"}
Override == [Fields -> Nat \cup {Unset}]
Profile == [Fields -> Nat]

NoOverride == [f \in Fields |-> Unset]

ASSUME ProfileAssumption ==
    /\ MutationTools \subseteq Tools
    /\ DefaultProfile \in Override
    /\ ServerOverride \in Override
    /\ RegistryOverride \in [Tools -> Override]
    /\ ToolOverride \in [Tools -> Override]

DEFAULT_PROFILE ==
    [f \in Fields |-> IF f = "retries" THEN 2 ELSE 10]

\* resolveProfile: every field the override leaves unset comes from the base.
resolveProfile(override, base) ==
    [f \in Fields |-> IF override[f] = Unset THEN base[f] ELSE override[f]]

isMutation(tool) == tool \in MutationTools

\* applyMutationDefault: a mutation whose retries nobody set explicitly does
\* not retry.
applyMutationDefault(tool, profile, explicitRetries) ==
    IF isMutation(tool) /\ ~explicitRetries
    THEN [profile EXCEPT !["retries"] = 0]
    ELSE profile

\* Mutant: retries set by the global default count as explicit.
_resolveProfile_DefaultIsExplicit(tool) ==
    LET globalBase    == resolveProfile(DefaultProfile, DEFAULT_PROFILE)
        afterServer   == resolveProfile(ServerOverride, globalBase)
        afterRegistry == resolveProfile(RegistryOverride[tool], afterServer)
        explicit      == resolveProfile(ToolOverride[tool], afterRegistry)
        explicitRetries ==
            \E o \in {ToolOverride[tool], RegistryOverride[tool],
                      ServerOverride, DefaultProfile} : o["retries"] # Unset
    IN applyMutationDefault(tool, explicit, explicitRetries)

\* The layers of _resolveProfile, lowest priority first.
_resolveProfile(tool) ==
    LET globalBase    == resolveProfile(DefaultProfile, DEFAULT_PROFILE)
        afterServer   == resolveProfile(ServerOverride, globalBase)
        afterRegistry == resolveProfile(RegistryOverride[tool], afterServer)
        explicit      == resolveProfile(ToolOverride[tool], afterRegistry)
        explicitRetries ==
            \E o \in {ToolOverride[tool], RegistryOverride[tool], ServerOverride} :
                o["retries"] # Unset
    IN applyMutationDefault(tool, explicit, explicitRetries)

Retries(tool) == _resolveProfile(tool)["retries"]
=============================================================================
