------------------------- MODULE ActivationBarrier -------------------------
(***************************************************************************)
(* What the Activation Barrier promises to eligible Runs (ADR 0007), with  *)
(* no journal, host adapter or crash in sight: Runs are served only while  *)
(* the host exposes exactly the active Generation, a Run that is bound     *)
(* keeps that exposure until it ends, and the active Generation is         *)
(* switched to one the host already exposes.                               *)
(***************************************************************************)
CONSTANTS Gens, Runs, NoGen

VARIABLES
    active,     \* the active Generation
    exposed,    \* the Generations the host serves
    serving,    \* new Runs may pass the gate
    binding     \* the Generation each Run is bound to

vars == <<active, exposed, serving, binding>>

Matching == exposed = {active} \ {NoGen}
Free == \A r \in Runs : binding[r] = NoGen

Init ==
    /\ active \in Gens \union {NoGen}
    /\ Matching
    /\ serving = TRUE
    /\ binding = [r \in Runs |-> NoGen]

Close == serving' = FALSE /\ UNCHANGED <<active, exposed, binding>>

Open ==
    /\ Matching
    /\ serving' = TRUE /\ UNCHANGED <<active, exposed, binding>>

\* The host is moved only when nothing is served from it.
MoveHost ==
    /\ ~serving /\ Free
    /\ exposed' \in SUBSET Gens /\ UNCHANGED <<active, serving, binding>>

Switch(g) ==
    /\ ~serving /\ exposed = {g}
    /\ active' = g /\ UNCHANGED <<exposed, serving, binding>>

Bind(r) ==
    /\ binding[r] = NoGen /\ active # NoGen /\ Matching
    /\ binding' = [binding EXCEPT ![r] = active]
    /\ UNCHANGED <<active, exposed, serving>>

\* Runs end one by one, or all with the process that served them.
End(ended) ==
    /\ binding' = [r \in Runs |-> IF r \in ended THEN NoGen ELSE binding[r]]
    /\ UNCHANGED <<active, exposed, serving>>

Next ==
    \/ Close \/ Open \/ MoveHost
    \/ \E g \in Gens : Switch(g)
    \/ \E r \in Runs : Bind(r)
    \/ \E ended \in SUBSET Runs : End(ended)

Spec == Init /\ [][Next]_vars
=============================================================================
