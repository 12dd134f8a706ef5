------------------------ MODULE MCReliabilityGateway ------------------------
(***************************************************************************)
(* A read that retries once, and a mutation whose profiles leave retries   *)
(* alone; the global default asks for one retry.  The two tools disagree   *)
(* on circuitBreakerMinCalls, so the breaker depends on which comes first. *)
(***************************************************************************)
EXTENDS ReliabilityGateway, TLC

CONSTANTS c1, c2, c3, read, create

MCTools == {read, create}
MCMutationTools == {create}
MCDefaultProfile == [NoOverride EXCEPT !["retries"] = 1]
MCServerOverride == [NoOverride EXCEPT !["circuitBreakerMinCalls"] = 1]
MCRegistryOverride == [t \in MCTools |-> NoOverride]
MCToolOverride ==
    [t \in MCTools |->
        IF t = create THEN [NoOverride EXCEPT !["circuitBreakerMinCalls"] = 2]
                      ELSE NoOverride]

\* The slots of `Calls' are interchangeable.
Slots == Permutations(Calls)

=============================================================================
