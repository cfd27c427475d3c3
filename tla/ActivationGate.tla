--------------------------- MODULE ActivationGate ---------------------------
(***************************************************************************)
(* What EndpointLifecycle promises to the endpoint helpers of a worker: a  *)
(* gate which a helper passes once per activation, and which dismisses     *)
(* every helper when the generation stops.  No mutex, no condition         *)
(* variable, no wakeups.                                                   *)
(***************************************************************************)
EXTENDS Naturals

CONSTANTS Helpers, MaxActivation

VARIABLES
    activation,    \* the newest activation reported by the supervisor
    stopping,      \* the generation ends
    place,         \* a helper is "outside", "waiting" or "ended"
    observed       \* the activation a helper passed the gate with last

gateVars == <<activation, stopping, place, observed>>

Init ==
    /\ activation = 0 /\ stopping = FALSE
    /\ place = [h \in Helpers |-> "outside"]
    /\ observed = [h \in Helpers |-> 0]

Activate ==
    /\ ~stopping
    /\ activation' \in activation + 1 .. MaxActivation
    /\ UNCHANGED <<stopping, place, observed>>

Stop ==
    /\ stopping' = TRUE
    /\ UNCHANGED <<activation, place, observed>>

Arrive(h) ==
    /\ place[h] = "outside"
    /\ place' = [place EXCEPT ![h] = "waiting"]
    /\ UNCHANGED <<activation, stopping, observed>>

Pass(h) ==
    /\ place[h] = "waiting" /\ ~stopping /\ activation > observed[h]
    /\ place' = [place EXCEPT ![h] = "outside"]
    /\ observed' = [observed EXCEPT ![h] = activation]
    /\ UNCHANGED <<activation, stopping>>

Dismiss(h) ==
    /\ place[h] = "waiting" /\ stopping
    /\ place' = [place EXCEPT ![h] = "ended"]
    /\ UNCHANGED <<activation, stopping, observed>>

Next ==
    \/ Activate \/ Stop
    \/ \E h \in Helpers : Arrive(h) \/ Pass(h) \/ Dismiss(h)

Spec == Init /\ [][Next]_gateVars

\* Nobody who may pass or must leave is kept waiting.
FairSpec ==
    Spec /\ \A h \in Helpers : WF_gateVars(Pass(h) \/ Dismiss(h))

=============================================================================
