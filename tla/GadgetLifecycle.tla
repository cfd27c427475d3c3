--------------------------- MODULE GadgetLifecycle ---------------------------
(***************************************************************************)
(* What the supervisor promises about the one gadget of the machine, to    *)
(* the host, to the kernel and to the worker: no channel, no messages, no  *)
(* program points.  A gadget is numbered, built, handed over, attached,    *)
(* given up by its worker and removed, in this order; and whatever fails,  *)
(* on either side, leads back to nothing, or, when the kernel refuses to   *)
(* give something up, to the end of the supervisor, which until then only  *)
(* takes down what it still can.                                           *)
(***************************************************************************)
EXTENDS Naturals

VARIABLES
    supervisor,   \* "starting", "running", "leaving" or "down"
    worker,       \* "none", "alive" or "dead" (not yet reaped)
    endpoints,    \* the worker's endpoint files: "closed", "offered", "open"
    objects,      \* what the kernel has of the gadget
    attached,     \* the host sees it
    generation,
    refused       \* the kernel has refused something in this life

gadgetVars ==
    <<supervisor, worker, endpoints, objects, attached, generation, refused>>

Whole == {"gadget", "mount"}

\* An earlier run may have left anything behind.
Init ==
    /\ supervisor = "starting" /\ worker = "none" /\ endpoints = "closed"
    /\ objects \in SUBSET Whole
    /\ attached \in {FALSE, "gadget" \in objects}
    /\ generation = 0 /\ refused = FALSE

\* Whatever is left over goes before anything is started.
Sweep ==
    /\ supervisor = "starting" /\ worker = "none"
    /\ supervisor' = "running"
    /\ objects' = {} /\ attached' = FALSE
    /\ UNCHANGED <<worker, endpoints, generation, refused>>

\* One worker at a time, from generation zero.
Start ==
    /\ supervisor = "running" /\ worker = "none"
    /\ objects = {} /\ generation = 0
    /\ worker' = "alive"
    /\ UNCHANGED <<supervisor, endpoints, objects, attached, generation,
                   refused>>

\* A number is never used again, also when the build fails at once.
Number ==
    /\ supervisor = "running" /\ objects = {} /\ endpoints = "closed"
    /\ supervisor' \in {"running", "leaving"}
    /\ generation' = generation + 1
    /\ objects' \in {{}, {"gadget"}}
    /\ UNCHANGED <<worker, endpoints, attached, refused>>

Mount ==
    /\ supervisor = "running" /\ objects = {"gadget"} /\ ~attached
    /\ objects' = Whole
    /\ UNCHANGED <<supervisor, worker, endpoints, attached, generation,
                   refused>>

\* The files handed over are those of the generation that was built.
Offer ==
    /\ supervisor = "running" /\ worker = "alive"
    /\ objects = Whole /\ ~attached /\ endpoints = "closed"
    /\ endpoints' = "offered"
    /\ UNCHANGED <<supervisor, worker, objects, attached, generation, refused>>

Open ==
    /\ worker = "alive" /\ endpoints = "offered" /\ ~attached
    /\ endpoints' = "open"
    /\ UNCHANGED <<supervisor, worker, objects, attached, generation, refused>>

\* The host sees the gadget when its worker is behind it, unless that died
\* meanwhile.
Attach ==
    /\ supervisor = "running" /\ objects = Whole /\ ~attached
    /\ worker = "alive" => endpoints = "open"
    /\ attached' = TRUE
    /\ UNCHANGED <<supervisor, worker, endpoints, objects, generation, refused>>

Detach ==
    /\ supervisor \in {"running", "leaving"} /\ attached
    /\ attached' = FALSE
    /\ UNCHANGED <<supervisor, worker, endpoints, objects, generation, refused>>

\* A living worker closes its files only behind the host's back, except when
\* the gadget could not be taken from the host.
Close ==
    /\ worker = "alive" /\ (~attached \/ refused)
    /\ endpoints' = "closed"
    /\ UNCHANGED <<supervisor, worker, objects, attached, generation, refused>>

Die ==
    /\ worker = "alive" /\ worker' = "dead"
    /\ endpoints' = "closed"
    /\ UNCHANGED <<supervisor, objects, attached, generation, refused>>

Reap ==
    /\ worker = "dead" /\ worker' = "none"
    /\ UNCHANGED <<supervisor, endpoints, objects, attached, generation,
                   refused>>

\* Nothing is taken away from under an open file.
Remove ==
    /\ supervisor = "running" /\ endpoints = "closed" /\ ~attached
    /\ objects' = {}
    /\ UNCHANGED <<supervisor, worker, endpoints, attached, generation,
                   refused>>

\* The next worker, of this profile or of a new one.
StartOver ==
    /\ supervisor = "running" /\ worker = "none" /\ ~attached
    /\ supervisor' \in {"running", "starting"}
    /\ objects' = {} /\ generation' = 0
    /\ UNCHANGED <<worker, endpoints, attached, refused>>

\* The end of the service, asked for or after an error.
Leave ==
    /\ supervisor \in {"starting", "running"} /\ supervisor' = "leaving"
    /\ UNCHANGED <<worker, endpoints, objects, attached, generation, refused>>

\* An exit in good order leaves nothing.
Exit ==
    /\ supervisor = "leaving" /\ ~refused
    /\ worker = "none" /\ endpoints = "closed" /\ ~attached
    /\ supervisor' = "down"
    /\ objects' = {}
    /\ UNCHANGED <<worker, endpoints, attached, generation, refused>>

\* Something is refused, now or earlier: what can be taken down is, nothing is
\* taken away from under an open file before there was a refusal, and the way
\* leads out.
GiveUp ==
    /\ supervisor # "down" /\ refused' = TRUE
    /\ \/ supervisor' = "leaving"
       \/ supervisor = "leaving" /\ supervisor' = "down"
    /\ objects' \subseteq objects
    /\ objects' # objects => endpoints = "closed" \/ refused
    /\ attached' \in {FALSE, attached}
    /\ attached' => "gadget" \in objects'
    /\ UNCHANGED <<worker, endpoints, generation>>

\* The supervisor is killed and its worker with it, or it gives up before it
\* has swept.
Crash ==
    /\ supervisor # "down" /\ supervisor' = "down"
    /\ worker' = "none" /\ endpoints' = "closed"
    /\ attached' \in {FALSE, attached}
    /\ UNCHANGED <<objects, generation, refused>>

\* The service manager starts it again and has ended a worker left over.
Boot ==
    /\ supervisor = "down" /\ supervisor' = "starting"
    /\ worker' = "none" /\ endpoints' = "closed"
    /\ generation' = 0 /\ refused' = FALSE
    /\ UNCHANGED <<objects, attached>>

Next ==
    \/ Sweep \/ Start \/ Number \/ Mount \/ Offer \/ Open \/ Attach \/ Detach
    \/ Close \/ Die \/ Reap \/ Remove \/ StartOver \/ Leave \/ Exit \/ GiveUp
    \/ Crash \/ Boot

Spec == Init /\ [][Next]_gadgetVars

=============================================================================
