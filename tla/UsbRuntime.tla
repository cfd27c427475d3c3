----------------------------- MODULE UsbRuntime -----------------------------
(***************************************************************************)
(* The supervisor in USB mode: struct Runtime of src/src/runtime.rs and    *)
(* its procedures, as the steps of one sequential thread.  pc is its       *)
(* program point, one value per place where another actor can get in       *)
(* between, and task says which of the callers of the shared procedures    *)
(* (unbind, quiesce_worker, stop_worker, stop_usb_generation, configure)   *)
(* is being executed.  UsbLifecycle puts the worker, the host, time and    *)
(* the service manager around it.                                          *)
(***************************************************************************)
EXTENDS Naturals, Sequences

CONSTANTS
    MaxGeneration,    \* the largest USB generation (u32::MAX in the code)
    MaxRequest,       \* the largest control request id (u32::MAX in the code)
    ChanCap,          \* records one direction of the channel buffers
    ConfigIds,        \* request ids a worker uses for Configure, never 0
    Bodies,           \* Configure bodies a worker may publish
    Events,           \* FunctionFS events the host may cause
    Signals,          \* signals the service manager may send
    Faults            \* what may go wrong beside the protocol, see FaultKinds

BodyKinds == {"empty", "valid", "invalid"}
EventKinds == {"bus", "setup"}
SignalKinds == {"TERM", "HUP"}

\* exit: the worker dies; wedge: it stops reacting; slow: it may miss the
\* readiness timeout; garbage: it sends an undecodable record; repeat: it asks
\* to be detached while it is; os: a system call fails, of setup, spawn, build,
\* bind, persist, an EP0 transfer or stall, and of every step of a teardown
\* (unbind, stop_worker, umount, removal of the gadget and of directories), but
\* not try_wait, poll or set_read_timeout of the event loop; profile: the
\* profile on disk does not validate; crash: the supervisor itself is killed.
FaultKinds ==
    {"exit", "wedge", "slow", "garbage", "repeat", "os", "profile", "crash"}

\* The supervisor's write to UDC, that of an empty Configure, or the kernel by
\* itself.
Causes == {"unbind", "eject", "forced"}

\* The calls of a teardown that the kernel may refuse.  "sweep" is a failed
\* cleanup_stale_state, "rmdir" also the removal of the runtime directory and
\* the unmount of ConfigFS at the end of cleanup.
TeardownCalls == {"sweep", "unbind", "stop", "umount", "remove", "rmdir"}

ASSUME BoundsAssumption ==
    /\ MaxGeneration \in Nat
    /\ MaxRequest \in Nat \ {0}
    /\ ChanCap \in Nat \ {0}
    /\ ConfigIds \subseteq Nat \ {0}

ASSUME ChoicesAssumption ==
    /\ Bodies \subseteq BodyKinds
    /\ Events \subseteq EventKinds
    /\ Signals \subseteq SignalKinds
    /\ Faults \subseteq FaultKinds

VARIABLES
    \* the supervisor's control state
    pc,                    \* program point
    task,                  \* caller of the procedure that is running
    failed,                \* an Err is on its way to main
    decl,                  \* the Configure record being handled
    ready,                 \* revents of the last poll, as a set
    \* fields of Runtime
    owns_gadget, functionfs_mounted,
    usb,                   \* usb.is_some()
    child,                 \* worker.is_some()
    control,               \* control.is_some()
    read_timeout,          \* the channel has SO_RCVTIMEO set
    generation, next_control_request,
    detached_at,           \* detached_at.is_some()
    \* the kernel
    gadget, mounted, bound,
    ep0,                   \* events waiting on ep0
    off,                   \* time since the UDC was last unbound
    cause,                 \* history: what unbound it last, see Causes
    denied,                \* history: teardown calls refused in this run
    \* the worker process
    wproc, wphase, wgen, wreq, wfiles,
    \* the channel
    toWorker, toSup,
    \* signal state
    stop_requested, restart_requested,
    wakeup,                \* a byte is in the signal pipe
    eintr                  \* a signal interrupted the blocked receive

controlVars == <<pc, task, failed, decl, ready>>
objectVars == <<owns_gadget, functionfs_mounted, usb>>
linkVars == <<child, control, read_timeout>>
counterVars == <<generation, next_control_request>>
kernelVars == <<gadget, mounted, ep0>>
udcVars == <<bound, off, detached_at, cause, denied>>
workerVars == <<wproc, wphase, wgen, wreq, wfiles>>
chanVars == <<toWorker, toSup>>
signalVars == <<stop_requested, restart_requested, wakeup, eintr>>
vars == <<controlVars, objectVars, linkVars, counterVars, kernelVars,
          udcVars, workerVars, chanVars, signalVars>>

\* What a step of the supervisor leaves alone, for the common cases.
ChannelOnly == UNCHANGED <<objectVars, linkVars, counterVars, kernelVars,
                           udcVars, workerVars, signalVars>>
ControlOnly == ChannelOnly /\ UNCHANGED chanVars
ReceiveOnly == UNCHANGED <<objectVars, linkVars, counterVars, kernelVars,
                           udcVars, workerVars, stop_requested,
                           restart_requested, wakeup>>

-----------------------------------------------------------------------------
(* Records. *)

Kinds == {"InitialResources", "UsbEndpoints", "UsbBusEvent",
          "UsbControlRequest", "Quiesce", "ConfigurationRejected",
          "Configure", "UsbControlResponse", "Serving", "Quiesced",
          "Garbage"}

Record(k, g, r, b) ==
    [kind |-> k, generation |-> g, request_id |-> r, body |-> b]

Message(k, g, r) == Record(k, g, r, "none")
NoRecord == Message("InitialResources", 0, 0)

Records == [kind : Kinds, generation : Nat, request_id : Nat,
            body : BodyKinds \cup {"none"}]

-----------------------------------------------------------------------------
(* The channel, seen from the supervisor. *)

PeerClosed == wproc \in {"none", "zombie"}

\* protocol::send: blocks while the worker's queue is full, EPIPE without peer.
CanSend == ~PeerClosed /\ Len(toWorker) < ChanCap
Send(m) == CanSend /\ toWorker' = Append(toWorker, m) /\ UNCHANGED toSup
SendFails == PeerClosed

\* protocol::receive on a blocking channel.  An undecodable record is an Err.
Awaiting == pc \in {"awaitConfigure", "awaitQuiesced",
                    "awaitServing", "awaitControl"}
TimesOut == /\ read_timeout
            /\ toSup = <<>>
            /\ wproc = "wedged" \/ "slow" \in Faults
Receives == ~eintr /\ toSup # <<>> /\ toSup' = Tail(toSup)
            /\ UNCHANGED <<toWorker, eintr>>
\* A close with unread data resets the channel, so a dead peer may be reported
\* before the records it had sent.
ReceiveFails == /\ eintr \/ PeerClosed \/ TimesOut
                /\ eintr' = FALSE
                /\ UNCHANGED chanVars

\* expect_record: every header field has to match and the body is empty.
Matches(m, k, g, r) ==
    m.kind = k /\ m.generation = g /\ m.request_id = r /\ m.body = "none"

-----------------------------------------------------------------------------
(* Pieces shared by several procedures. *)

\* Mutant: the error is logged and the loop goes on.
FailSwallowed ==
    /\ pc' = "serve" /\ task' = "serve" /\ decl' = NoRecord /\ ready' = {}
    /\ UNCHANGED failed

\* An Err that reaches serve or setup: both end in Runtime::cleanup.
Fail == /\ pc' = "unbind"
        /\ task' = "cleanup"
        /\ failed' = TRUE
        /\ decl' = NoRecord
        /\ ready' = {}

\* cleanup records an error and goes on to p, every other caller gives up.
FailOr(p) ==
    IF task # "cleanup" THEN Fail
    ELSE pc' = p /\ failed' = TRUE /\ UNCHANGED <<task, decl, ready>>

Goto(p) == pc' = p /\ UNCHANGED <<task, failed, decl, ready>>
Begin(t, p) ==
    pc' = p /\ task' = t /\ ready' = {} /\ UNCHANGED <<failed, decl>>

\* Back to the top of the loop of serve; the locals go out of scope.
Resume == /\ pc' = "serve"
          /\ task' = "serve"
          /\ decl' = NoRecord
          /\ ready' = {}
          /\ UNCHANGED failed

\* configure is called with initial = true from setup, restart and reload.
Initial == task \in {"setup", "restart", "reload"}

\* Mutant: the write to UDC is forgotten.
UnboundNot(stamp) == UNCHANGED <<bound, off, detached_at, cause>>

\* unbind, when the write succeeds: a UDC that is not bound answers ENODEV and
\* leaves detached_at alone.  The empty Configure forgets detached_at again
\* (stamp = FALSE).
Unbound(stamp) ==
    /\ bound' = FALSE
    /\ off' = IF bound THEN "recent" ELSE off
    /\ detached_at' = (stamp /\ (detached_at \/ bound))
    /\ cause' = IF ~stamp THEN "eject" ELSE IF bound THEN "unbind" ELSE cause

\* After a refused write the kernel may still take the function off the UDC,
\* when its configuration is unlinked or ep0 closes, and has to when the gadget
\* goes.  The supervisor notes nothing of it.
UnboundByKernel(gone) ==
    /\ bound' = FALSE \/ (~gone /\ bound' = bound)
    /\ off' = IF bound /\ ~bound' THEN "recent" ELSE off
    /\ cause' = IF bound /\ ~bound' THEN "forced" ELSE cause
    /\ UNCHANGED detached_at

\* FunctionFS endpoint files are open in the worker or in flight towards it.
EndpointsHeld ==
    wfiles \/ \E i \in DOMAIN toWorker : toWorker[i].kind = "UsbEndpoints"

\* umount2(target, 0) is refused while files of the mount are open.
UmountRefused == mounted /\ EndpointsHeld

-----------------------------------------------------------------------------
(* Starting: setup, cleanup_stale_state, start_worker. *)

\* Privilege, profile, lock, configfs and UDC selection.  A failure here comes
\* before there is a Runtime, so nothing is cleaned up.
Setup ==
    /\ pc = "setup"
    /\ \/ Goto("stale")
       \/ /\ "os" \in Faults
          /\ pc' = "exited" /\ failed' = TRUE
          /\ UNCHANGED <<task, decl, ready>>
    /\ ControlOnly

\* Mutant: a mount that could not be removed is left behind without an error.
SweepForgiven(refused) == FALSE
\* The result of unbind is dropped, every other one is propagated.
SweepFailed(refused) == refused \ {"unbind"} # {}

\* unbind, remove_gadget_tree, unmount_filesystem, remove_dir_if_exists.  A
\* removal that fails leaves owns_gadget set, for the cleanup that follows.
CleanupStale ==
    \E refused \in SUBSET ((IF gadget THEN {"unbind", "remove"} ELSE {})
                               \cup {"umount", "rmdir"}) :
        /\ pc = "stale"
        /\ refused # {} => "os" \in Faults \/ UmountRefused
        /\ UmountRefused => "remove" \in refused \/ "umount" \in refused
        /\ IF "unbind" \in refused THEN UnboundByKernel("remove" \notin refused)
           ELSE Unbound(TRUE)
        /\ gadget' = ("remove" \in refused)
        /\ owns_gadget' = ("remove" \in refused)
        /\ mounted' = (mounted /\ ("remove" \in refused \/ "umount" \in refused))
        /\ IF SweepFailed(refused)
           THEN denied' = denied \cup {"sweep"} /\ Fail
           ELSE UNCHANGED denied /\ Goto("start")
        /\ UNCHANGED <<functionfs_mounted, usb, linkVars, counterVars, ep0,
                       workerVars, chanVars, signalVars>>

StartWorker ==
    /\ pc = "start"
    /\ child' = TRUE /\ control' = TRUE /\ read_timeout' = TRUE
    /\ wproc' = "running" /\ wphase' = "boot" /\ wgen' = 0 /\ wreq' = 0
    /\ wfiles' = FALSE
    /\ toWorker' = <<Message("InitialResources", 0, 0)>>
    /\ toSup' = <<>>
    /\ Goto("awaitConfigure")
    /\ UNCHANGED <<objectVars, counterVars, kernelVars, udcVars, signalVars>>

\* Directories, resources, socketpair or spawn fail; or the first send does,
\* and then the child is reaped before the error is returned.
StartWorkerFails ==
    /\ pc = "start"
    /\ "os" \in Faults
    /\ Fail
    /\ ControlOnly

AwaitConfigure ==
    /\ pc = "awaitConfigure"
    /\ \/ /\ Receives
          /\ IF Head(toSup).kind = "Garbage" THEN Fail
             ELSE /\ pc' = "configure" /\ decl' = Head(toSup)
                  /\ UNCHANGED <<task, failed, ready>>
       \/ ReceiveFails /\ Fail
    /\ ReceiveOnly

-----------------------------------------------------------------------------
(* configure. *)

Mismatched ==
    decl.kind # "Configure" \/ decl.generation # generation
        \/ decl.request_id = 0

ConfigureMismatch ==
    /\ pc = "configure"
    /\ Mismatched \/ (decl.body = "empty" /\ ~usb /\ ~Initial)
    /\ Fail
    /\ ControlOnly

\* A healthy worker without a USB device.
ConfigureAbsent ==
    /\ pc = "configure" /\ ~Mismatched
    /\ decl.body = "empty" /\ ~usb /\ Initial
    /\ read_timeout' = FALSE
    /\ Resume
    /\ UNCHANGED <<objectVars, child, control, counterVars, kernelVars,
                   udcVars, workerVars, chanVars, signalVars>>

ConfigureDetach ==
    /\ pc = "configure" /\ ~Mismatched
    /\ decl.body = "empty" /\ usb
    /\ Begin("detach", "unbind")
    /\ ControlOnly

\* Mutant: an invalid replacement is dropped without a word to the worker.
SendNoRejection == UNCHANGED chanVars
SendRejection ==
    Send(Message("ConfigurationRejected", generation, decl.request_id))

ConfigureReject ==
    /\ pc = "configure" /\ ~Mismatched
    /\ decl.body = "invalid"
    /\ \/ /\ SendRejection
          /\ IF Initial THEN Fail ELSE Resume
       \/ SendFails /\ Fail /\ UNCHANGED chanVars
    /\ ChannelOnly

ConfigureReplace ==
    /\ pc = "configure" /\ ~Mismatched
    /\ decl.body = "valid"
    /\ read_timeout' = TRUE
    /\ IF usb THEN Begin("replace", "unbind")
       ELSE Begin(IF Initial THEN task ELSE "replace", "populate")
    /\ UNCHANGED <<objectVars, child, control, counterVars, kernelVars,
                   udcVars, workerVars, chanVars, signalVars>>

-----------------------------------------------------------------------------
(* Taking a generation down: unbind, quiesce_worker, stop_worker,          *)
(* stop_usb_generation, in the order each caller runs them.                *)

\* control = None: the socket closes and what the worker had sent is gone.
CloseControl == control' = FALSE /\ toSup' = <<>> /\ UNCHANGED toWorker

\* Mutant: without a generation teardown forgets that there is a worker.
AfterUnbindNoStop == IF usb THEN "sendQuiesce" ELSE "stopUsb"
AfterUnbind ==
    IF task \in {"replace", "detach"} \/ (task # "restart" /\ usb)
    THEN "sendQuiesce" ELSE "stopWorker"

Unbinds == gadget /\ (owns_gadget \/ task \in {"replace", "detach"})

Unbind ==
    /\ pc = "unbind"
    /\ \/ /\ IF Unbinds THEN Unbound(TRUE)
             ELSE UNCHANGED <<bound, off, detached_at, cause>>
          /\ Goto(AfterUnbind)
          /\ UNCHANGED denied
       \/ /\ "os" \in Faults /\ Unbinds
          /\ FailOr(AfterUnbind)
          /\ denied' = denied \cup {"unbind"}
          /\ UNCHANGED <<bound, off, detached_at, cause>>
    /\ IF pc' = "stopWorker" THEN CloseControl
       ELSE UNCHANGED <<control, chanVars>>
    /\ UNCHANGED <<objectVars, child, read_timeout, counterVars, kernelVars,
                   workerVars, signalVars>>

QuiesceId == IF task \in {"replace", "detach"} THEN decl.request_id ELSE 0

\* quiesce_worker without a channel returns Ok at once.
QuiesceSkipped ==
    /\ pc = "sendQuiesce" /\ ~control
    /\ Goto("stopWorker")
    /\ ControlOnly

SendQuiesce ==
    /\ pc = "sendQuiesce" /\ control
    /\ Send(Message("Quiesce", generation, QuiesceId))
    /\ read_timeout' = TRUE
    /\ Goto("awaitQuiesced")
    /\ UNCHANGED <<objectVars, child, control, counterVars, kernelVars,
                   udcVars, workerVars, signalVars>>

IsQuiesced(m) == Matches(m, "Quiesced", generation, QuiesceId)

Quiesced ==
    /\ pc = "awaitQuiesced"
    /\ ~eintr /\ toSup # <<>> /\ IsQuiesced(Head(toSup))
    /\ read_timeout' = FALSE
    /\ IF task \in {"replace", "detach"}
       THEN /\ toSup' = Tail(toSup) /\ UNCHANGED <<control, toWorker>>
            /\ Goto("stopUsb")
       ELSE CloseControl /\ Goto("stopWorker")
    /\ UNCHANGED <<objectVars, child, counterVars, kernelVars, udcVars,
                   workerVars, signalVars>>

\* Whatever goes wrong closes the channel; cleanup goes on, all others give up.
QuiesceFails ==
    /\ \/ pc = "sendQuiesce" /\ control /\ SendFails
       \/ /\ pc = "awaitQuiesced"
          /\ \/ eintr \/ PeerClosed \/ TimesOut
             \/ toSup # <<>> /\ ~IsQuiesced(Head(toSup))
    /\ eintr' = FALSE
    /\ read_timeout' = FALSE
    /\ CloseControl
    /\ FailOr("stopWorker")
    /\ UNCHANGED <<objectVars, child, counterVars, kernelVars, udcVars,
                   workerVars, stop_requested, restart_requested, wakeup>>

\* Nothing is left of a worker process but its exit status.
WorkerGone ==
    /\ wfiles' = FALSE /\ wphase' = "boot" /\ wgen' = 0 /\ wreq' = 0
    /\ toWorker' = <<>>

\* SIGTERM after two seconds, SIGKILL after four.
EscalateStop ==
    /\ pc = "stopWorker" /\ child
    /\ wproc \in {"running", "wedged"}
    /\ wproc' = "zombie" /\ WorkerGone /\ wakeup' = TRUE
    /\ UNCHANGED <<controlVars, objectVars, linkVars, counterVars, kernelVars,
                   udcVars, toSup, stop_requested, restart_requested, eintr>>

\* Mutant: the handle is dropped without waiting for the process.
ReapedAtOnce == TRUE
Reaped == child => PeerClosed

\* The handle is taken first: after a failed try_wait, kill or wait the process
\* is left to itself.
StopWorker ==
    /\ pc = "stopWorker"
    /\ child' = FALSE
    /\ \/ /\ Reaped
          /\ wproc' = IF child /\ PeerClosed THEN "none" ELSE wproc
          /\ Goto("stopUsb")
          /\ UNCHANGED denied
       \/ /\ "os" \in Faults /\ child
          /\ FailOr("stopUsb")
          /\ denied' = denied \cup {"stop"}
          /\ UNCHANGED wproc
    /\ UNCHANGED <<objectVars, control, read_timeout, counterVars, kernelVars,
                   bound, off, detached_at, cause, wphase, wgen, wreq, wfiles,
                   chanVars, signalVars>>

\* The steps after stop_usb_generation in each of its callers.
\* Mutant: restart_worker returns to serve without a new worker.
AfterStopUsbIdle ==
    CASE task = "replace" -> Goto("populate")
      [] task = "reload"  -> Goto("stale")
      [] task = "cleanup" -> Goto("exited")
      [] OTHER            -> Resume
AfterStopUsb ==
    CASE task = "replace" -> Goto("populate")
      [] task = "detach"  -> Resume
      [] task = "restart" -> Goto("start")
      [] task = "reload"  -> Goto("stale")
      [] OTHER            -> Goto("exited")

\* Mutant: an empty Configure starts the numbering over.
ResetsGenerationOnDetach == task \in {"restart", "reload", "detach"}
ResetsGeneration == task \in {"restart", "reload"}

\* Every call is tried whatever became of the ones before, and both flags are
\* cleared also when theirs failed.  umount fails in any case while files of the
\* mount are open, and rmdir while it is mounted.
StopUsbRefusing(refused) ==
    /\ functionfs_mounted /\ UmountRefused => "umount" \in refused
    /\ usb' = FALSE /\ ep0' = {}
    /\ mounted' = (mounted /\ (~functionfs_mounted \/ "umount" \in refused))
    /\ mounted' => "rmdir" \in refused
    /\ functionfs_mounted' = FALSE
    /\ gadget' = (gadget /\ (~owns_gadget \/ "remove" \in refused))
    /\ owns_gadget' = FALSE
    /\ IF ~owns_gadget THEN UNCHANGED <<bound, off, detached_at, cause>>
       ELSE IF "unbind" \in refused THEN UnboundByKernel(~gadget')
       ELSE Unbound(task # "detach" \/ refused # {})
    /\ denied' = denied \cup refused
    /\ IF refused = {} THEN AfterStopUsb ELSE FailOr("exited")
    /\ generation' =
          IF ResetsGeneration /\ refused = {} THEN 0 ELSE generation
    /\ UNCHANGED <<linkVars, next_control_request, workerVars, chanVars,
                   signalVars>>

StopUsbCalls ==
    (IF owns_gadget THEN {"unbind", "remove"} ELSE {})
        \cup (IF functionfs_mounted THEN {"umount"} ELSE {}) \cup {"rmdir"}

StopUsb ==
    /\ pc = "stopUsb"
    /\ \E refused \in SUBSET StopUsbCalls :
          /\ refused # {} => \/ "os" \in Faults
                             \/ mounted /\ (EndpointsHeld \/ ~functionfs_mounted)
          /\ StopUsbRefusing(refused)

-----------------------------------------------------------------------------
(* Building and attaching a generation: the second half of configure.      *)

\* Each step either succeeds or, when the system call fails, gives up.
Attempt(ok) == Goto(ok) \/ ("os" \in Faults /\ Fail)

GenerationOverflow ==
    /\ pc = "populate" /\ generation = MaxGeneration
    /\ Fail
    /\ ControlOnly

\* Mutant: ownership is noted once all attributes are written.
ClaimLate == gadget' = TRUE /\ owns_gadget' = (pc' = "mount")
\* create_dir makes the supervisor the owner at once; an attribute write after
\* it may still fail.
Claim == gadget' = TRUE /\ owns_gadget' = TRUE

PopulateGadget ==
    /\ pc = "populate" /\ generation < MaxGeneration
    /\ generation' = generation + 1
    /\ \/ /\ ~gadget
          /\ Attempt("mount")
          /\ Claim
       \/ /\ gadget \/ "os" \in Faults
          /\ Fail
          /\ UNCHANGED <<gadget, owns_gadget>>
    /\ UNCHANGED <<functionfs_mounted, usb, linkVars, next_control_request,
                   mounted, ep0, udcVars, workerVars, chanVars, signalVars>>

MountFunctionfs ==
    /\ pc = "mount"
    /\ \/ mounted' = TRUE /\ functionfs_mounted' = TRUE /\ Goto("publish")
       \/ "os" \in Faults /\ Fail /\ UNCHANGED <<mounted, functionfs_mounted>>
    /\ UNCHANGED <<owns_gadget, usb, linkVars, counterVars, gadget, ep0,
                   udcVars, workerVars, chanVars, signalVars>>

PublishFunctionfs ==
    /\ pc = "publish"
    /\ \/ usb' = TRUE /\ Goto("link")
       \/ "os" \in Faults /\ Fail /\ UNCHANGED usb
    /\ UNCHANGED <<owns_gadget, functionfs_mounted, linkVars, counterVars,
                   kernelVars, udcVars, workerVars, chanVars, signalVars>>

LinkFunction ==
    /\ pc = "link"
    /\ Attempt("sendEndpoints")
    /\ ControlOnly

SendEndpoints ==
    /\ pc = "sendEndpoints"
    /\ \/ /\ Send(Message("UsbEndpoints", generation, decl.request_id))
          /\ Goto("awaitServing")
       \/ SendFails /\ Fail /\ UNCHANGED chanVars
    /\ ChannelOnly

IsServing(m) == Matches(m, "Serving", generation, decl.request_id)

AwaitServing ==
    /\ pc = "awaitServing"
    /\ \/ Receives /\ IF IsServing(Head(toSup)) THEN Goto("dwell") ELSE Fail
       \/ ReceiveFails /\ Fail
    /\ ReceiveOnly

\* Mutant: the bind does not wait.
DweltAlways == TRUE
\* USB_RECONNECT_DWELL has passed since detached_at, if it was recorded.
Dwelt == ~(detached_at /\ off = "recent")

Dwell ==
    /\ pc = "dwell" /\ Dwelt
    /\ detached_at' = FALSE
    /\ Goto("bind")
    /\ UNCHANGED <<objectVars, linkVars, counterVars, kernelVars, bound, off,
                   cause, denied, workerVars, chanVars, signalVars>>

BindUdc ==
    /\ pc = "bind"
    /\ \/ /\ bound' = TRUE
          /\ ep0' = ep0 \cup (Events \cap {"bus"})
          /\ Goto("persist")
       \/ "os" \in Faults /\ Fail /\ UNCHANGED <<bound, ep0>>
    /\ UNCHANGED <<objectVars, linkVars, counterVars, gadget, mounted, off,
                   detached_at, cause, denied, workerVars, chanVars,
                   signalVars>>

\* set_read_timeout(None), then the debug copy of the bundle.
Persist ==
    /\ pc = "persist"
    /\ read_timeout' = FALSE
    /\ Resume \/ ("os" \in Faults /\ Fail)
    /\ UNCHANGED <<objectVars, child, control, counterVars, kernelVars,
                   udcVars, workerVars, chanVars, signalVars>>

-----------------------------------------------------------------------------
(* serve: the event loop. *)

\* The top of the loop: STOP first, then try_wait, then poll.  An Ok from
\* serve goes through the same cleanup as an Err.
ServeTop ==
    /\ pc = "serve"
    /\ IF stop_requested
       THEN Begin("cleanup", "unbind") /\ UNCHANGED wproc
       ELSE IF PeerClosed
       THEN Begin("restart", "unbind") /\ wproc' = "none"
       ELSE Goto("poll") /\ UNCHANGED wproc
    /\ UNCHANGED <<objectVars, linkVars, counterVars, kernelVars, udcVars,
                   wphase, wgen, wreq, wfiles, chanVars, signalVars>>

Revents ==
    {e \in {"signal", "control", "ep0"} :
        \/ e = "signal" /\ wakeup
        \/ e = "control" /\ (toSup # <<>> \/ PeerClosed)
        \/ e = "ep0" /\ usb /\ ep0 # {}}

Poll ==
    /\ pc = "poll" /\ Revents # {}
    /\ ready' = Revents
    /\ pc' = IF "signal" \in Revents THEN "drain"
             ELSE IF "control" \in Revents THEN "control" ELSE "ep0"
    /\ UNCHANGED <<task, failed, decl>>
    /\ ControlOnly

DrainSignals ==
    /\ pc = "drain"
    /\ wakeup' = FALSE
    /\ Goto("signals")
    /\ UNCHANGED <<objectVars, linkVars, counterVars, kernelVars, udcVars,
                   workerVars, chanVars, stop_requested, restart_requested,
                   eintr>>

DispatchSignals ==
    /\ pc = "signals"
    /\ restart_requested' = (restart_requested /\ stop_requested)
    /\ IF stop_requested THEN Resume
       ELSE IF restart_requested THEN Begin("reload", "reload")
       ELSE IF "control" \in ready THEN Goto("control")
       ELSE IF "ep0" \in ready THEN Goto("ep0")
       ELSE Resume
    /\ UNCHANGED <<objectVars, linkVars, counterVars, kernelVars, udcVars,
                   workerVars, chanVars, stop_requested, wakeup, eintr>>

\* receive_nonblocking.  Only the supervisor takes records out of its queue, so
\* a record the poll saw is still there and WouldBlock is not a case here.
ServeControl ==
    /\ pc = "control"
    /\ \/ /\ toSup # <<>>
          /\ toSup' = Tail(toSup) /\ UNCHANGED toWorker
          /\ LET m == Head(toSup)
             IN  CASE m.kind = "Configure" ->
                        /\ pc' = "configure" /\ decl' = m /\ ready' = {}
                        /\ UNCHANGED <<task, failed>>
                   [] m.kind = "Garbage" -> Begin("restart", "unbind")
                   [] OTHER -> Fail
       \/ PeerClosed /\ Begin("restart", "unbind") /\ UNCHANGED chanVars
    /\ ChannelOnly

\* reload_profile validates the profile on disk before it touches anything.
Reload ==
    /\ pc = "reload"
    /\ Goto("unbind") \/ ("profile" \in Faults /\ Fail)
    /\ ControlOnly

-----------------------------------------------------------------------------
(* service_ep0: until the read would block. *)

Ep0Drained ==
    /\ pc = "ep0" /\ ep0 = {}
    /\ Resume
    /\ ControlOnly

Ep0Event(e) ==
    /\ pc = "ep0" /\ e \in ep0
    /\ ep0' = ep0 \ {e}
    /\ IF e = "bus" THEN Goto("forwardBus")
       ELSE Goto("readData") \/ Goto("forwardSetup")
    /\ UNCHANGED <<objectVars, linkVars, counterVars, gadget, mounted,
                   udcVars, workerVars, chanVars, signalVars>>

ForwardBusEvent ==
    /\ pc = "forwardBus"
    /\ \/ Send(Message("UsbBusEvent", generation, 0)) /\ Goto("ep0")
       \/ SendFails /\ Fail /\ UNCHANGED chanVars
    /\ ChannelOnly

\* transfer_ep0 reads the data stage of an OUT request and writes the answer.
\* It ends when the host has done its part, and until then neither a signal nor
\* a timeout ends it: EINTR is retried and its poll has none.
Transfers == {"readData", "answer"}

TransferEp0 ==
    /\ pc \in Transfers
    /\ Attempt(IF pc = "readData" THEN "forwardSetup" ELSE "ep0")
    /\ ControlOnly

\* EIDRM: something newer is queued and the transaction is dropped.
SetupSuperseded ==
    /\ pc \in Transfers \cup {"stall"} /\ ep0 # {}
    /\ Goto("ep0")
    /\ ControlOnly

\* Mutant: the counter is not checked.
RequestsNeverSpent == FALSE
\* checked_add on the id about to be used: the last one is never sent.
RequestsSpent == next_control_request = MaxRequest

ForwardControlRequest ==
    /\ pc = "forwardSetup"
    /\ IF RequestsSpent
       THEN Fail /\ UNCHANGED <<read_timeout, next_control_request, chanVars>>
       ELSE /\ next_control_request' = next_control_request + 1
            /\ \/ /\ Send(Message("UsbControlRequest", generation,
                                  next_control_request))
                  /\ read_timeout' = TRUE
                  /\ Goto("awaitControl")
               \/ SendFails /\ Fail /\ UNCHANGED <<read_timeout, chanVars>>
    /\ UNCHANGED <<objectVars, child, control, generation, kernelVars,
                   udcVars, workerVars, signalVars>>

IsResponse(m) ==
    Matches(m, "UsbControlResponse", generation, next_control_request - 1)

\* The timeout is cleared before the result of the receive is looked at.  A
\* matching record may still carry a body that is no answer to the request.
AwaitControl ==
    /\ pc = "awaitControl"
    /\ \/ Receives /\ \/ /\ IsResponse(Head(toSup))
                         /\ Goto("stall") \/ Goto("answer")
                      \/ /\ ~IsResponse(Head(toSup)) \/ "garbage" \in Faults
                         /\ Fail
       \/ ReceiveFails /\ Fail
    /\ read_timeout' = FALSE
    /\ UNCHANGED <<objectVars, child, control, counterVars, kernelVars,
                   udcVars, workerVars, stop_requested, restart_requested,
                   wakeup>>

\* A transfer against the direction of the request does not wait.
StallEp0 ==
    /\ pc = "stall"
    /\ Attempt("ep0")
    /\ ControlOnly

=============================================================================
