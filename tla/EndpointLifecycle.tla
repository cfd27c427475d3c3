------------------------- MODULE EndpointLifecycle --------------------------
(***************************************************************************)
(* struct EndpointLifecycle of crates/usb-gadget-worker/src/lib.rs: a      *)
(* mutex, a condition variable and the state they guard, used by the       *)
(* control thread of a worker (activate, stop) and by its endpoint helpers *)
(* (wait_for_activation_after).  The state is reached under the mutex      *)
(* only, so what a thread does from lock to unlock, or to the wait that    *)
(* releases the mutex, is one step.                                        *)
(***************************************************************************)
EXTENDS Naturals

CONSTANTS
    Helpers,           \* the threads that do blocking endpoint I/O
    MaxActivation      \* the largest activation (u64::MAX in the code)

ASSUME ActivationAssumption == MaxActivation \in Nat

VARIABLES
    activation,        \* EndpointLifecycleState::activation
    stopping,          \* EndpointLifecycleState::stopping
    hpc,               \* where a helper is in wait_for_activation_after
    observed           \* a helper's argument and the last result it got

lifecycleVars == <<activation, stopping, hpc, observed>>

\* outside; in front of the loop condition; in Condvar::wait; returned None.
HelperPoints == {"outside", "check", "parked", "ended"}

LifecycleTypeOK ==
    /\ activation \in 0 .. MaxActivation
    /\ stopping \in BOOLEAN
    /\ hpc \in [Helpers -> HelperPoints]
    /\ observed \in [Helpers -> 0 .. MaxActivation]

LifecycleInit ==
    /\ activation = 0 /\ stopping = FALSE
    /\ hpc = [h \in Helpers |-> "outside"]
    /\ observed = [h \in Helpers |-> 0]

-----------------------------------------------------------------------------
(* The control thread. *)

\* Mutant: notify_one, which wakes a single waiter.
NotifiesOne ==
    IF \E h \in Helpers : hpc[h] = "parked"
    THEN \E h \in Helpers :
             hpc[h] = "parked" /\ hpc' = [hpc EXCEPT ![h] = "check"]
    ELSE UNCHANGED hpc
\* notify_all
NotifiesAll ==
    hpc' = [h \in Helpers |-> IF hpc[h] = "parked" THEN "check" ELSE hpc[h]]

\* activate(a)
Activates(a) ==
    /\ IF ~stopping /\ a > activation
       THEN activation' = a /\ NotifiesAll
       ELSE UNCHANGED <<activation, hpc>>
    /\ UNCHANGED <<stopping, observed>>

\* stop()
Stops ==
    /\ IF ~stopping THEN stopping' = TRUE /\ NotifiesAll
       ELSE UNCHANGED <<stopping, hpc>>
    /\ UNCHANGED <<activation, observed>>

-----------------------------------------------------------------------------
(* wait_for_activation_after(observed[h]) *)

WaitIsCalled(h) ==
    /\ hpc[h] = "outside"
    /\ hpc' = [hpc EXCEPT ![h] = "check"]
    /\ UNCHANGED <<activation, stopping, observed>>

\* Mutant: an activation that was already observed is good enough.
NotOlder(h) == activation >= observed[h]
Newer(h) == activation > observed[h]

\* Condvar::wait releases the mutex and parks at once.
WaitParks(h) ==
    /\ hpc[h] = "check"
    /\ ~stopping /\ ~Newer(h)
    /\ hpc' = [hpc EXCEPT ![h] = "parked"]
    /\ UNCHANGED <<activation, stopping, observed>>

WaitReturns(h) ==
    /\ hpc[h] = "check"
    /\ ~stopping /\ Newer(h)
    /\ hpc' = [hpc EXCEPT ![h] = "outside"]
    /\ observed' = [observed EXCEPT ![h] = activation]
    /\ UNCHANGED <<activation, stopping>>

\* None: the helper thread ends.
WaitReturnsNone(h) ==
    /\ hpc[h] = "check"
    /\ stopping
    /\ hpc' = [hpc EXCEPT ![h] = "ended"]
    /\ UNCHANGED <<activation, stopping, observed>>

\* A condition variable may wake a waiter for no reason.
SpuriousWakeup(h) ==
    /\ hpc[h] = "parked"
    /\ hpc' = [hpc EXCEPT ![h] = "check"]
    /\ UNCHANGED <<activation, stopping, observed>>

-----------------------------------------------------------------------------
(* The gate this implements. *)

Place ==
    [h \in Helpers |->
        IF hpc[h] \in {"check", "parked"} THEN "waiting" ELSE hpc[h]]

Gate == INSTANCE ActivationGate WITH place <- Place

=============================================================================
