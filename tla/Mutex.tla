------------------------------- MODULE Mutex --------------------------------
(***************************************************************************)
(* What src/daemon/shared-lock.ts promises, key by key: requests are       *)
(* served in the order they were made, one at a time.                      *)
(*                                                                         *)
(* Requests are numbered as they are made, over all keys.  A caller who    *)
(* gives up waiting is not visible here: its request just stays in line.   *)
(***************************************************************************)
EXTENDS Integers

CONSTANTS Keys, Requests

VARIABLES
    wants,  \* wants[r]: the key of a request, meaningless before it is made
    phase   \* phase[r]: "new", "inLine", "has" (the lock) or "done"

mutexVars == <<wants, phase>>

Init ==
    /\ wants \in [Requests -> Keys]
    /\ phase = [r \in Requests |-> "new"]

LineUp(r, k) ==
    /\ \A q \in Requests : phase[q] = "new" <=> r <= q
    /\ wants' = [wants EXCEPT ![r] = k]
    /\ phase' = [phase EXCEPT ![r] = "inLine"]

Take(r) ==
    /\ phase[r] = "inLine"
    /\ \A q \in Requests : q < r /\ wants[q] = wants[r] => phase[q] = "done"
    /\ phase' = [phase EXCEPT ![r] = "has"]
    /\ UNCHANGED wants

\* Somebody lets go of all his locks at once.
LetGo(R) ==
    /\ \A r \in R : phase[r] = "has"
    /\ phase' = [r \in Requests |-> IF r \in R THEN "done" ELSE phase[r]]
    /\ UNCHANGED wants

Next ==
    \/ \E r \in Requests : (\E k \in Keys : LineUp(r, k)) \/ Take(r)
    \/ \E R \in SUBSET Requests : LetGo(R)

Spec == Init /\ [][Next]_mutexVars
=============================================================================
