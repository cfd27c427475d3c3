------------------------- MODULE EndpointActivation -------------------------
(***************************************************************************)
(* How a USB configuration becomes endpoint I/O: the host enables and      *)
(* disables the function, the kernel queues FunctionFS events and merges   *)
(* them, the supervisor turns them into numbered UsbBusEvent records, the  *)
(* worker's control thread passes the numbers to EndpointLifecycle, and    *)
(* its helpers issue and park blocking I/O.  One USB generation, from the  *)
(* bind of the UDC to the reply to Quiesce.                                *)
(***************************************************************************)
EXTENDS EndpointLifecycle, Sequences

CONSTANTS
    ChanCap,           \* records the channel to the worker buffers
    MaxEnables         \* bound on how often the host configures the device

ASSUME ActivationBounds ==
    /\ ChanCap \in Nat \ {0}
    /\ MaxEnables \in Nat

VARIABLES
    \* kernel and host
    configured,        \* the endpoints are enabled
    suspended,         \* the link is suspended
    enables,           \* how often configured became TRUE
    events,            \* FunctionFS events not yet read from ep0
    lost,              \* an unread Disable was discarded
    io,                \* where a helper's endpoint I/O is
    \* supervisor
    spc,               \* serve, quiesce, await, done
    batch,             \* events read and not yet forwarded
    endpoints_enabled, endpoint_activation,
    \* channel
    toWorker, quiesced

kernelVars == <<configured, suspended, enables, events, lost>>
supervisorVars == <<spc, batch, endpoints_enabled, endpoint_activation>>
vars == <<lifecycleVars, kernelVars, io, supervisorVars, toWorker, quiesced>>

BusEvents == {"Bind", "Unbind", "Enable", "Disable", "Suspend", "Resume"}
Message(kind, a) == [kind |-> kind, activation |-> a]
Messages ==
    [kind : BusEvents \cup {"Quiesce"}, activation : 0 .. MaxActivation]

TypeOK ==
    /\ LifecycleTypeOK
    /\ configured \in BOOLEAN /\ suspended \in BOOLEAN /\ lost \in BOOLEAN
    /\ enables \in 0 .. MaxEnables
    /\ events \in Seq(BusEvents) /\ batch \in Seq(BusEvents)
    /\ io \in [Helpers -> {"none", "ready", "running", "blocked",
                           "cancelled"}]
    /\ spc \in {"serve", "quiesce", "await", "done"}
    /\ endpoints_enabled \in BOOLEAN
    /\ endpoint_activation \in 0 .. MaxActivation
    /\ toWorker \in Seq(Messages) /\ Len(toWorker) <= ChanCap
    /\ quiesced \in BOOLEAN

\* The UDC was just bound; the helpers start by waiting for an activation.
Init ==
    /\ LifecycleInit
    /\ configured = FALSE /\ suspended = FALSE /\ enables = 0
    /\ events = <<"Bind">> /\ lost = FALSE
    /\ io = [h \in Helpers |-> "cancelled"]
    /\ spc = "serve" /\ batch = <<>>
    /\ endpoints_enabled = FALSE /\ endpoint_activation = 0
    /\ toWorker = <<>> /\ quiesced = FALSE

-----------------------------------------------------------------------------
(* The kernel.  A lifecycle event discards every unread event but those of *)
(* power management, a power event discards its like.                      *)

Power == {"Suspend", "Resume"}
Survives(f, e) ==
    CASE e = "Resume" -> f \notin Power
      [] e = "Suspend" -> f # "Suspend"
      [] OTHER -> f \in Power

\* What survives closes up, in order, and e comes last.
Queue(e) ==
    LET kept == {i \in DOMAIN events : Survives(events[i], e)}
    IN  /\ \E n \in 0 .. Len(events) : \E f \in [1 .. n -> kept] :
              /\ \A i, j \in 1 .. n : i < j => f[i] < f[j]
              /\ \A k \in kept : \E i \in 1 .. n : f[i] = k
              /\ events' = Append([i \in 1 .. n |-> events[f[i]]], e)
        /\ lost' = \/ lost
                   \/ /\ ~Survives("Disable", e)
                      /\ \E i \in DOMAIN events : events[i] = "Disable"

\* Enabling lets I/O run which was issued while disabled; disabling cancels
\* what is running and leaves alone what is blocked.
IoWith(on) ==
    io' = [h \in Helpers |->
              IF on /\ io[h] = "blocked" THEN "running"
              ELSE IF ~on /\ io[h] = "running" THEN "cancelled" ELSE io[h]]

HostEnables ==
    /\ spc = "serve" /\ ~configured
    /\ enables < MaxEnables
    /\ configured' = TRUE /\ enables' = enables + 1
    /\ Queue("Enable") /\ IoWith(TRUE)
    /\ UNCHANGED <<lifecycleVars, suspended, supervisorVars, toWorker,
                   quiesced>>

\* A further interface or a repeated alternate setting.
HostEnablesAgain ==
    /\ spc = "serve" /\ configured
    /\ Queue("Enable")
    /\ UNCHANGED <<lifecycleVars, configured, suspended, enables, io,
                   supervisorVars, toWorker, quiesced>>

HostDisables ==
    /\ spc = "serve" /\ configured
    /\ configured' = FALSE /\ suspended' = FALSE
    /\ Queue("Disable") /\ IoWith(FALSE)
    /\ UNCHANGED <<lifecycleVars, enables, supervisorVars, toWorker, quiesced>>

HostSuspends ==
    /\ spc = "serve" /\ configured
    /\ suspended' = ~suspended
    /\ Queue(IF suspended THEN "Resume" ELSE "Suspend")
    /\ UNCHANGED <<lifecycleVars, configured, enables, io, supervisorVars,
                   toWorker, quiesced>>

-----------------------------------------------------------------------------
(* The supervisor: service_ep0, forward_bus_event, quiesce_worker. *)

\* One read takes what is pending; its events are forwarded before the next.
ReadEp0 ==
    /\ spc = "serve" /\ batch = <<>> /\ events # <<>>
    /\ batch' = events /\ events' = <<>>
    /\ UNCHANGED <<lifecycleVars, configured, suspended, enables, lost, io,
                   spc, endpoints_enabled, endpoint_activation, toWorker,
                   quiesced>>

\* Mutant: every Enable is a new activation.
FreshForEvery(e) == e = "Enable"
\* Only the first Enable after a Disable is.
Fresh(e) == e = "Enable" /\ ~endpoints_enabled

\* Mutant: a Disable leaves endpoints_enabled alone.
EnabledAfterBindOnly(e) ==
    IF e = "Enable" THEN TRUE
    ELSE e \notin {"Bind", "Unbind"} /\ endpoints_enabled
EnabledAfter(e) ==
    IF e = "Enable" THEN TRUE
    ELSE e \notin {"Bind", "Unbind", "Disable"} /\ endpoints_enabled

\* Mutant: plain addition, which in the model leaves the range.
NumberLeftAlways == TRUE
NumberLeft == endpoint_activation < MaxActivation

\* Mutant: a Disable also starts the count again.
AdvancedOrReset(e) ==
    IF Fresh(e) THEN endpoint_activation + 1
    ELSE IF e = "Disable" THEN 0 ELSE endpoint_activation
Advanced(e) == endpoint_activation + (IF Fresh(e) THEN 1 ELSE 0)

\* An event byte outside this set would be an error; the kernel has no other.
ForwardBusEvent ==
    /\ spc = "serve" /\ batch # <<>> /\ Head(batch) \in BusEvents
    /\ Fresh(Head(batch)) => NumberLeft
    /\ Len(toWorker) < ChanCap
    /\ batch' = Tail(batch)
    /\ endpoint_activation' = Advanced(Head(batch))
    /\ endpoints_enabled' = EnabledAfter(Head(batch))
    /\ toWorker' =
           Append(toWorker, Message(Head(batch), Advanced(Head(batch))))
    /\ UNCHANGED <<lifecycleVars, kernelVars, io, spc, quiesced>>

\* unbind: the gadget is disabled with the UDC.
Unbinds ==
    /\ spc' = "quiesce" /\ batch' = <<>>
    /\ configured' = FALSE /\ suspended' = FALSE
    /\ Queue("Unbind") /\ IoWith(FALSE)
    /\ UNCHANGED <<lifecycleVars, enables, endpoints_enabled,
                   endpoint_activation, toWorker, quiesced>>

\* checked_add fails: the error ends serve, and cleanup unbinds.
ActivationOverflows ==
    /\ spc = "serve" /\ batch # <<>>
    /\ Fresh(Head(batch)) /\ ~NumberLeft
    /\ Unbinds

\* A replacement, a reload or a stop, between two rounds of service_ep0.
StartsTeardown ==
    /\ spc = "serve" /\ batch = <<>>
    /\ Unbinds

SendsQuiesce ==
    /\ spc = "quiesce" /\ Len(toWorker) < ChanCap
    /\ spc' = "await"
    /\ toWorker' = Append(toWorker, Message("Quiesce", 0))
    /\ UNCHANGED <<lifecycleVars, kernelVars, io, batch, endpoints_enabled,
                   endpoint_activation, quiesced>>

\* Quiesced, or the deadline.
StopsWaiting ==
    /\ spc = "await"
    /\ spc' = "done"
    /\ UNCHANGED <<lifecycleVars, kernelVars, io, batch, endpoints_enabled,
                   endpoint_activation, toWorker, quiesced>>

-----------------------------------------------------------------------------
(* The worker, after docs/worker-protocol.md and docs/usb-lifecycle.md. *)

ControlTakes ==
    /\ toWorker # <<>>
    /\ toWorker' = Tail(toWorker)
    /\ CASE Head(toWorker).kind = "Enable" ->
                 Activates(Head(toWorker).activation)
         [] Head(toWorker).kind = "Quiesce" -> Stops
         [] OTHER -> UNCHANGED lifecycleVars
    /\ UNCHANGED <<kernelVars, io, supervisorVars, quiesced>>

\* The reply follows the end of the last helper.
ControlReplies ==
    /\ stopping /\ ~quiesced
    /\ \A h \in Helpers : hpc[h] = "ended"
    /\ quiesced' = TRUE
    /\ UNCHANGED <<lifecycleVars, kernelVars, io, supervisorVars, toWorker>>

ControlStep == ControlTakes \/ ControlReplies

notHelper == <<kernelVars, supervisorVars, toWorker, quiesced>>

\* A helper whose I/O was cancelled goes to wait for the next activation.
HelperParks(h) ==
    /\ io[h] = "cancelled" /\ io' = [io EXCEPT ![h] = "none"]
    /\ WaitIsCalled(h)
    /\ UNCHANGED notHelper

HelperWaits(h) ==
    /\ WaitParks(h) \/ WaitReturnsNone(h)
    /\ UNCHANGED <<notHelper, io>>

HelperResumes(h) ==
    /\ WaitReturns(h)
    /\ io' = [io EXCEPT ![h] = "ready"]
    /\ UNCHANGED notHelper

HelperIssues(h) ==
    /\ io[h] = "ready"
    /\ io' = [io EXCEPT ![h] = IF configured THEN "running" ELSE "blocked"]
    /\ UNCHANGED <<lifecycleVars, notHelper>>

HelperStep(h) ==
    HelperParks(h) \/ HelperWaits(h) \/ HelperResumes(h) \/ HelperIssues(h)

IoCompletes(h) ==
    /\ io[h] = "running"
    /\ io' = [io EXCEPT ![h] = "ready"]
    /\ UNCHANGED <<lifecycleVars, notHelper>>

HelperWakes(h) ==
    /\ SpuriousWakeup(h)
    /\ UNCHANGED <<notHelper, io>>

-----------------------------------------------------------------------------
SupervisorStep ==
    ReadEp0 \/ ForwardBusEvent \/ ActivationOverflows \/ SendsQuiesce
        \/ StopsWaiting

HostStep == HostEnables \/ HostEnablesAgain \/ HostDisables \/ HostSuspends

Done == spc = "done" /\ UNCHANGED vars

Next ==
    \/ SupervisorStep \/ StartsTeardown \/ HostStep \/ ControlStep \/ Done
    \/ \E h \in Helpers : HelperStep(h) \/ IoCompletes(h) \/ HelperWakes(h)

Spec == Init /\ [][Next]_vars

\* Every thread runs when it can.
Fairness ==
    /\ WF_vars(SupervisorStep) /\ WF_vars(ControlStep)
    /\ \A h \in Helpers : WF_vars(HelperStep(h))

FairSpec == Spec /\ Fairness

-----------------------------------------------------------------------------
(* Properties. *)

\* Nothing is on its way from the kernel to the helpers.
Settled ==
    /\ events = <<>> /\ batch = <<>> /\ toWorker = <<>>
    /\ \A h \in Helpers : hpc[h] # "check"

\* Numbers reach a helper in the order the supervisor gave them out: what it
\* passed with, what the lifecycle holds, what is queued, and the supervisor's
\* own count never decrease.
QueueInOrder ==
    \A i \in 1 .. Len(toWorker) :
        toWorker[i].kind # "Quiesce" =>
            /\ activation <= toWorker[i].activation
            /\ toWorker[i].activation <= endpoint_activation
            /\ \A j \in 1 .. i :
                   toWorker[j].kind # "Quiesce" =>
                       toWorker[j].activation <= toWorker[i].activation

ActivationsInOrder ==
    /\ \A h \in Helpers : observed[h] <= activation
    /\ activation <= endpoint_activation
    /\ QueueInOrder

\* An activation number stands for a configuration the host really made; a
\* repeated Enable, a suspend or a resume never yields one.
ActivationsAreReal == endpoint_activation <= enables

\* With every event read, the supervisor's endpoints_enabled is what the
\* kernel has, whichever events were merged before it read them.
EnabledMatchesKernel ==
    spc = "serve" /\ events = <<>> /\ batch = <<>> =>
        (endpoints_enabled <=> configured)

\* A helper parks beside an enabled endpoint only if the kernel discarded a
\* Disable unread.
ParkedOnlyAfterLoss ==
    Settled /\ spc = "serve" /\ configured /\ ~lost =>
        \A h \in Helpers : hpc[h] # "parked"

\* Mutex and condition variable implement the gate: no helper passes twice
\* with one activation, none sleeps through an activation or a stop.
GateKept == Gate!FairSpec

\* If the host stays configured and no Disable was lost, endpoint I/O goes on
\* in every helper.
ServiceResumes ==
    \A h \in Helpers :
        <>[](configured /\ spc = "serve" /\ ~lost) =>
            <>[](io[h] \in {"ready", "running"})

=============================================================================
