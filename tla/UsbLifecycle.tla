---------------------------- MODULE UsbLifecycle ----------------------------
(***************************************************************************)
(* The supervisor of UsbRuntime together with its environment: the worker  *)
(* process, which follows docs/worker-protocol.md and may additionally     *)
(* show the Faults, the host behind the UDC, time, and the service         *)
(* manager that signals and restarts the supervisor.                       *)
(***************************************************************************)
EXTENDS UsbRuntime

-----------------------------------------------------------------------------
Points ==
    {"setup", "stale", "start", "awaitConfigure", "configure", "unbind",
     "sendQuiesce", "awaitQuiesced", "stopWorker", "stopUsb", "populate",
     "mount", "publish", "link", "sendEndpoints", "awaitServing", "dwell",
     "bind", "persist", "serve", "poll", "drain", "signals", "control", "ep0",
     "forwardBus", "readData", "forwardSetup", "awaitControl", "stall",
     "answer", "reload", "exited"}
Tasks ==
    {"setup", "serve", "replace", "detach", "restart", "reload", "cleanup"}

ControlOK ==
    /\ pc \in Points
    /\ task \in Tasks
    /\ failed \in BOOLEAN
    /\ decl \in Records
    /\ ready \subseteq {"signal", "control", "ep0"}

ObjectOK ==
    /\ owns_gadget \in BOOLEAN
    /\ functionfs_mounted \in BOOLEAN
    /\ usb \in BOOLEAN

LinkOK ==
    /\ child \in BOOLEAN
    /\ control \in BOOLEAN
    /\ read_timeout \in BOOLEAN

CounterOK ==
    /\ generation \in 0 .. MaxGeneration
    /\ next_control_request \in 1 .. MaxRequest

KernelOK ==
    /\ gadget \in BOOLEAN
    /\ mounted \in BOOLEAN
    /\ ep0 \subseteq EventKinds

UdcOK ==
    /\ bound \in BOOLEAN
    /\ off \in {"never", "recent", "elapsed"}
    /\ detached_at \in BOOLEAN
    /\ cause \in Causes
    /\ denied \subseteq TeardownCalls

WorkerOK ==
    /\ wproc \in {"none", "running", "wedged", "zombie"}
    /\ wphase \in {"boot", "fresh", "detached", "serving", "ejecting",
                   "quiesced"}
    /\ wgen \in Nat
    /\ wreq \in ConfigIds \cup {0}
    /\ wfiles \in BOOLEAN

ChanOK ==
    /\ toWorker \in Seq(Records) /\ Len(toWorker) <= ChanCap
    /\ toSup \in Seq(Records) /\ Len(toSup) <= ChanCap

SignalOK ==
    /\ stop_requested \in BOOLEAN
    /\ restart_requested \in BOOLEAN
    /\ wakeup \in BOOLEAN
    /\ eintr \in BOOLEAN

TypeOK ==
    /\ ControlOK /\ ObjectOK /\ LinkOK /\ CounterOK
    /\ KernelOK /\ UdcOK /\ WorkerOK /\ ChanOK /\ SignalOK

\* Whatever the previous run of the service left behind may still be there.
Init ==
    /\ pc = "setup"
    /\ task = "setup" /\ failed = FALSE /\ decl = NoRecord /\ ready = {}
    /\ owns_gadget = FALSE /\ functionfs_mounted = FALSE /\ usb = FALSE
    /\ child = FALSE /\ control = FALSE /\ read_timeout = FALSE
    /\ generation = 0 /\ next_control_request = 1 /\ detached_at = FALSE
    /\ stop_requested = FALSE /\ restart_requested = FALSE
    /\ wakeup = FALSE /\ eintr = FALSE
    /\ gadget \in BOOLEAN
    /\ mounted \in BOOLEAN
    /\ bound \in {FALSE, gadget}
    /\ off = "never" /\ cause = "unbind" /\ denied = {} /\ ep0 = {}
    /\ wproc = "none" /\ wphase = "boot" /\ wgen = 0 /\ wreq = 0
    /\ wfiles = FALSE
    /\ toWorker = <<>> /\ toSup = <<>>

-----------------------------------------------------------------------------
(* The worker process, after docs/worker-protocol.md.  A reply to a closed *)
(* channel is lost.                                                        *)

Reply(m) ==
    IF control THEN Len(toSup) < ChanCap /\ toSup' = Append(toSup, m)
    ELSE UNCHANGED toSup

Takes(k) ==
    /\ wproc = "running"
    /\ toWorker # <<>> /\ Head(toWorker).kind = k
    /\ toWorker' = Tail(toWorker)

notWorker == <<controlVars, objectVars, linkVars, counterVars, kernelVars,
               udcVars, signalVars>>

WorkerBoots ==
    /\ Takes("InitialResources")
    /\ wphase' = "fresh"
    /\ UNCHANGED <<notWorker, wproc, wgen, wreq, wfiles, toSup>>

\* At most one declaration is outstanding; an empty one needs something to
\* remove, except as the very first.
WorkerDeclares(id, body) ==
    /\ wproc = "running" /\ control
    /\ wreq = 0
    /\ \/ wphase \in {"fresh", "serving"}
       \/ wphase = "detached" /\ (body # "empty" \/ "repeat" \in Faults)
    /\ Reply(Record("Configure", wgen, id, body))
    /\ IF body = "empty" /\ wphase = "fresh"
       THEN wphase' = "detached" /\ UNCHANGED wreq
       ELSE /\ wphase' = IF body = "empty" /\ wphase = "serving"
                         THEN "ejecting" ELSE wphase
            /\ wreq' = id
    /\ UNCHANGED <<notWorker, wproc, wgen, wfiles, toWorker>>

WorkerRejected ==
    /\ Takes("ConfigurationRejected")
    /\ wreq' = 0
    /\ UNCHANGED <<notWorker, wproc, wphase, wgen, wfiles, toSup>>

WorkerQuiesces ==
    /\ Takes("Quiesce")
    /\ Reply(Message("Quiesced", Head(toWorker).generation,
                     Head(toWorker).request_id))
    /\ wfiles' = FALSE
    /\ IF wphase = "ejecting" THEN wphase' = "detached" /\ wreq' = 0
       ELSE wphase' = "quiesced" /\ UNCHANGED wreq
    /\ UNCHANGED <<notWorker, wproc, wgen>>

WorkerInstalls ==
    /\ Takes("UsbEndpoints")
    /\ Reply(Message("Serving", Head(toWorker).generation,
                     Head(toWorker).request_id))
    /\ wgen' = Head(toWorker).generation
    /\ wfiles' = TRUE /\ wphase' = "serving" /\ wreq' = 0
    /\ UNCHANGED <<notWorker, wproc>>

WorkerAnswers ==
    /\ Takes("UsbControlRequest")
    /\ Reply(Message("UsbControlResponse", Head(toWorker).generation,
                     Head(toWorker).request_id))
    /\ UNCHANGED <<notWorker, workerVars>>

WorkerNotes ==
    /\ Takes("UsbBusEvent")
    /\ UNCHANGED <<notWorker, workerVars, toSup>>

WorkerHandles ==
    \/ WorkerBoots \/ WorkerRejected \/ WorkerQuiesces \/ WorkerInstalls
    \/ WorkerAnswers \/ WorkerNotes

\* The process ends: its files and its channel end close, SIGCHLD follows.
WorkerEnds ==
    /\ wproc' = "zombie" /\ WorkerGone
    /\ wakeup' = TRUE
    /\ UNCHANGED <<controlVars, objectVars, linkVars, counterVars, kernelVars,
                   udcVars, toSup, stop_requested, restart_requested, eintr>>

WorkerEof ==
    /\ wproc = "running" /\ ~control /\ toWorker = <<>>
    /\ WorkerEnds

WorkerExits == "exit" \in Faults /\ wproc = "running" /\ WorkerEnds

WorkerWedges ==
    /\ "wedge" \in Faults
    /\ wproc = "running" /\ wproc' = "wedged"
    /\ UNCHANGED <<notWorker, wphase, wgen, wreq, wfiles, chanVars>>

WorkerGarbles ==
    /\ "garbage" \in Faults
    /\ wproc = "running" /\ control /\ wphase # "boot"
    /\ Reply(Message("Garbage", 0, 0))
    /\ UNCHANGED <<notWorker, workerVars, toWorker>>

-----------------------------------------------------------------------------
(* Time, the host, the service manager.                                    *)

Tick ==
    /\ off = "recent" /\ off' = "elapsed"
    /\ UNCHANGED <<controlVars, objectVars, linkVars, counterVars, kernelVars,
                   bound, detached_at, cause, denied, workerVars,
                   chanVars, signalVars>>

HostEvent(e) ==
    /\ bound /\ usb /\ e \notin ep0
    /\ ep0' = ep0 \cup {e}
    /\ UNCHANGED <<controlVars, objectVars, linkVars, counterVars, gadget,
                   mounted, udcVars, workerVars, chanVars, signalVars>>

\* Mutant: the handlers only store their flag.
NotesNothing == UNCHANGED wakeup
\* wake_supervisor writes the pipe.
NotesWakeup == wakeup' = TRUE

\* The handlers store the flag, then write the pipe.  A signal that finds the
\* supervisor blocked ends a receive under SO_RCVTIMEO with EINTR, resumes one
\* without the timeout (SA_RESTART), and ends a poll, so that serve goes round
\* its loop.  One that comes just before the call blocks does none of this.
Interrupts ==
    /\ NotesWakeup
    /\ \/ UNCHANGED <<controlVars, eintr>>
       \/ /\ Awaiting /\ read_timeout /\ toSup = <<>> /\ ~PeerClosed
          /\ eintr' = TRUE
          /\ UNCHANGED controlVars
       \/ /\ pc = "poll" /\ Revents = {}
          /\ Goto("serve")
          /\ UNCHANGED eintr
    /\ UNCHANGED <<objectVars, linkVars, counterVars, kernelVars, udcVars,
                   workerVars, chanVars>>

Sigterm ==
    /\ "TERM" \in Signals /\ pc # "exited" /\ ~stop_requested
    /\ stop_requested' = TRUE
    /\ Interrupts
    /\ UNCHANGED restart_requested

Sighup ==
    /\ "HUP" \in Signals /\ pc # "exited" /\ ~restart_requested
    /\ restart_requested' = TRUE
    /\ Interrupts
    /\ UNCHANGED stop_requested

\* The supervisor is killed.  systemd then kills the rest of the unit, and the
\* kernel may or may not have taken the function off the UDC by itself.
Crash ==
    /\ "crash" \in Faults /\ pc # "exited"
    /\ pc' = "exited" /\ task' = "setup" /\ failed' = TRUE
    /\ decl' = NoRecord /\ ready' = {}
    /\ bound' \in {FALSE, bound}
    /\ off' = IF bound /\ ~bound' THEN "recent" ELSE off
    /\ cause' = IF bound /\ ~bound' THEN "forced" ELSE cause
    /\ ep0' = {}
    /\ wproc' = "none" /\ WorkerGone /\ toSup' = <<>>
    /\ UNCHANGED <<objectVars, linkVars, counterVars, gadget, mounted,
                   detached_at, denied, signalVars>>

\* Restart=on-failure with RestartSec=2s, far longer than the dwell.  systemd
\* has killed what was left of the unit.
ServiceRestart ==
    /\ pc = "exited" /\ failed /\ ~stop_requested
    /\ pc' = "setup"
    /\ task' = "setup" /\ failed' = FALSE /\ decl' = NoRecord /\ ready' = {}
    /\ owns_gadget' = FALSE /\ functionfs_mounted' = FALSE /\ usb' = FALSE
    /\ child' = FALSE /\ control' = FALSE /\ read_timeout' = FALSE
    /\ generation' = 0 /\ next_control_request' = 1 /\ detached_at' = FALSE
    /\ stop_requested' = FALSE /\ restart_requested' = FALSE
    /\ wakeup' = FALSE /\ eintr' = FALSE
    /\ off' = IF off = "recent" THEN "elapsed" ELSE off
    /\ cause' = "unbind" /\ denied' = {}
    /\ wproc' = "none" /\ WorkerGone /\ toSup' = <<>>
    /\ UNCHANGED <<kernelVars, bound>>

Terminated ==
    /\ pc = "exited" /\ (~failed \/ stop_requested)
    /\ UNCHANGED vars

-----------------------------------------------------------------------------
SupervisorStep ==
    \/ Setup \/ CleanupStale \/ StartWorker \/ StartWorkerFails
    \/ AwaitConfigure
    \/ ConfigureMismatch \/ ConfigureAbsent \/ ConfigureDetach
    \/ ConfigureReject \/ ConfigureReplace
    \/ Unbind \/ QuiesceSkipped \/ SendQuiesce \/ Quiesced \/ QuiesceFails
    \/ StopWorker \/ StopUsb
    \/ GenerationOverflow \/ PopulateGadget \/ MountFunctionfs
    \/ PublishFunctionfs \/ LinkFunction \/ SendEndpoints \/ AwaitServing
    \/ Dwell \/ BindUdc \/ Persist
    \/ ServeTop \/ Poll \/ DrainSignals \/ DispatchSignals \/ ServeControl
    \/ Reload
    \/ Ep0Drained \/ (\E e \in EventKinds : Ep0Event(e))
    \/ ForwardBusEvent \/ SetupSuperseded \/ ForwardControlRequest
    \/ AwaitControl \/ StallEp0

WorkerStep ==
    \/ WorkerHandles \/ WorkerEof
    \/ \E id \in ConfigIds, body \in Bodies : WorkerDeclares(id, body)

FaultStep ==
    WorkerExits \/ WorkerWedges \/ WorkerGarbles \/ Crash

EnvironmentStep ==
    \/ EscalateStop \/ Tick \/ Sigterm \/ Sighup \/ ServiceRestart
    \/ TransferEp0
    \/ \E e \in Events : HostEvent(e)

Next == SupervisorStep \/ WorkerStep \/ FaultStep \/ EnvironmentStep
            \/ Terminated

Spec == Init /\ [][Next]_vars

\* The supervisor never idles with work to do, a live worker handles its queue
\* and, once booted, declares itself; time passes.  TransferEp0 waits for the
\* host and is none of them.
FirstDeclaration ==
    wphase = "fresh"
        /\ \E id \in ConfigIds, body \in Bodies : WorkerDeclares(id, body)

Fairness ==
    /\ WF_vars(SupervisorStep)
    /\ WF_vars(WorkerHandles) /\ WF_vars(WorkerEof)
    /\ WF_vars(FirstDeclaration)
    /\ WF_vars(EscalateStop) /\ WF_vars(Tick) /\ WF_vars(ServiceRestart)

FairSpec == Spec /\ Fairness

-----------------------------------------------------------------------------
(* Safety. *)

\* While the UDC is bound, a worker that is alive holds the endpoint files of
\* exactly the generation the host sees: configure binds only after Serving,
\* and no path quiesces, replaces or restarts a worker before the gadget is off
\* the UDC.  The one exception is cleanup, which goes on to the worker when
\* the kernel has refused the unbind.
AttachedIsServed ==
    bound /\ ~PeerClosed =>
        \/ /\ wfiles /\ wgen = generation
           /\ wphase \in {"serving", "ejecting"}
        \/ task = "cleanup" /\ "unbind" \in denied

\* Once stale state is cleaned up, owns_gadget and functionfs_mounted say what
\* ConfigFS and the mount table say, through every failure of a build and
\* every order of teardown.  They are never set without the object; an object
\* without its flag is one whose removal, or a sweep before it, was refused;
\* and a refusal is never forgotten: the error is on its way to main.
BeliefMatchesKernel ==
    pc \notin {"setup", "stale", "exited"} =>
        /\ owns_gadget => gadget
        /\ functionfs_mounted => mounted
        /\ gadget => owns_gadget \/ "remove" \in denied
        /\ mounted => functionfs_mounted \/ denied \cap {"umount", "sweep"} # {}
        /\ bound => \/ owns_gadget /\ ((usb /\ mounted) \/ "sweep" \in denied)
                    \/ {"unbind", "remove"} \subseteq denied
        /\ denied # {} => failed

\* Every expect and unwrap of serve, service_ep0 and configure finds its Some:
\* the worker and the channel at the top of the loop and in every handshake,
\* the USB generation whenever ep0 is serviced, also after a poll whose
\* snapshot is older than the signals handled since.
ExpectsHold ==
    /\ pc \in {"serve", "poll", "drain", "signals", "control", "configure",
               "sendEndpoints", "awaitServing", "awaitConfigure",
               "awaitControl", "persist"} => child /\ control
    /\ pc \in {"ep0", "forwardBus", "readData", "forwardSetup",
               "awaitControl", "stall", "answer", "sendEndpoints", "link"} =>
           usb /\ control

\* An exit that went through cleanup, on whatever path and after whatever
\* failure, leaves behind only what the kernel has refused to give up, call by
\* call: a gadget, a mount, a bound UDC, a worker.  No failure of one step keeps
\* the next from being tried, and an exit after a refusal is an error.
CleanExit ==
    pc = "exited" /\ task = "cleanup" =>
        /\ gadget => "remove" \in denied
        /\ mounted => denied \cap {"umount", "sweep"} # {}
        /\ bound => {"unbind", "remove"} \subseteq denied
        /\ wproc # "none" => "stop" \in denied
        /\ ~control
        /\ denied # {} => failed

\* Kernel objects of a generation disappear only when no endpoint file of it
\* is open in a worker or queued towards one, unless that worker could not be
\* stopped.
EndpointsReleasedBeforeRemoval ==
    [][(gadget /\ ~gadget') \/ (mounted /\ ~mounted') =>
           ~EndpointsHeld \/ "stop" \in denied]_vars

\* A fresh worker starts only after the previous one was reaped, and with no
\* USB state of the previous incarnation left.
OneWorkerAtATime ==
    [][~control /\ control' =>
           /\ wproc = "none"
           /\ ~gadget /\ ~mounted /\ generation = 0]_vars

\* The reconnect dwell: no bind within 250 ms of an unbind, on any path,
\* unless that unbind was asked for by an empty Configure, or was the kernel's
\* own: cleanup_stale_state drops the error of a refused unbind and removes the
\* gadget all the same.
DwellBeforeRebind ==
    [][~bound /\ bound' => off # "recent" \/ cause # "unbind"]_vars

\* Within one worker incarnation generations only grow, and a step back to
\* zero, a restart of the service apart, happens with the gadget gone and the
\* worker reaped.
GenerationsGrow ==
    [][generation' < generation =>
           pc = "exited" \/ (wproc = "none" /\ ~gadget' /\ ~bound')]_vars

-----------------------------------------------------------------------------
(* The promise about the gadget this implements. *)

Supervisor ==
    CASE pc = "exited" -> "down"
      [] pc \in {"setup", "stale"} -> "starting"
      [] pc \notin {"setup", "stale", "exited"} /\ task = "cleanup" -> "leaving"
      [] OTHER -> "running"

Worker ==
    CASE wproc = "none" -> "none"
      [] wproc = "zombie" -> "dead"
      [] OTHER -> "alive"

\* Files of another generation than the supervisor's are nothing the promise
\* knows of.
Endpoints ==
    CASE wfiles /\ wgen = generation -> "open"
      [] wfiles /\ wgen # generation -> "stale"
      [] ~wfiles /\ EndpointsHeld -> "offered"
      [] OTHER -> "closed"

Objects == {o \in {"gadget", "mount"} :
               (o = "gadget" /\ gadget) \/ (o = "mount" /\ mounted)}

Device == INSTANCE GadgetLifecycle WITH
    supervisor <- Supervisor, worker <- Worker, endpoints <- Endpoints,
    objects <- Objects, attached <- bound, refused <- (denied # {})

\* Every step of supervisor, worker, host and service manager, faults
\* included, is one of the gadget's life or none: numbered before it is built,
\* attached only with its worker behind it, removed only when nobody can hold
\* a file of it, numbered anew only for a worker that is not there yet.  From
\* the first refused teardown call on, it is only ever taken down.
GadgetKept == Device!Spec

-----------------------------------------------------------------------------
(* Liveness, under Fairness and with every handshake bounded.              *)

\* service_ep0 drains until the read would block, so it returns to the loop
\* only if the host pauses.
HostPauses == <>[][~(\E e \in Events : HostEvent(e))]_vars

\* transfer_ep0 retries EINTR and polls without a timeout, so it returns, and
\* any signal takes effect, only if the host completes its part or cancels it.
HostFinishes == WF_vars(TransferEp0)
HostBehaves == HostPauses /\ HostFinishes

\* SIGTERM ends the supervisor at whatever program point it arrives, in the
\* middle of a control transaction only once the host has let go of it.
StopHonoured == HostBehaves => (stop_requested ~> pc = "exited")

\* SIGHUP is acted on: the flag and the pipe never lose the wakeup.  A worker
\* that dies again before each poll keeps serve in restart_worker, so the
\* worker has to stay up at some point.
WorkerSettles == <>[][~WorkerExits]_vars
ReloadHonoured ==
    HostBehaves /\ WorkerSettles =>
       (restart_requested ~> (~restart_requested \/ pc = "exited"))

\* A dead worker is noticed and replaced, or the supervisor itself goes down.
WorkerLossRepaired ==
    HostBehaves => (wproc = "zombie" ~> (wproc = "running" \/ pc = "exited"))

\* A published declaration never stays without an answer.
DeclarationAnswered == HostBehaves => (wreq # 0 ~> wreq = 0)

=============================================================================
