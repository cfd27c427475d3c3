# usb-gadget-supervisor in TLA+

A verification project for `usb-gadget-supervisor`: TLA+ modules of the
supervisor and of what it runs against, TLC configurations that model-check
them on small instances, and TLAPS proofs for every value of the constants.
Paths below are paths of the repository.

## 1. Inventory of the system

The program owns one Linux USB gadget. As root it builds a ConfigFS gadget and
mounts FunctionFS; an unprivileged *worker* process implements the device. The
two talk over a `SOCK_SEQPACKET` channel that also carries endpoint file
descriptors.

| component | state | operations | meets |
|---|---|---|---|
| USB runtime, `src/runtime.rs` (`Runtime`) | ownership flags `owns_gadget`, `functionfs_mounted`; `usb` (ep0 and its files); `worker`, `control`; `generation`, `next_control_request`, `detached_at` | `setup`, `serve`, `configure`, `service_ep0`, `quiesce_worker`, `stop_usb_generation`, `restart_worker`, `reload_profile`, `cleanup_stale_state`, `cleanup` | kernel, worker, signals |
| device runtime, `src/runtime.rs` (`run_device`) | worker, `bsc_guard`, profile, runtime directory | open the resource, spawn, poll, `stop_worker`, unload, reload | worker, signals, BSC driver, systemd |
| control channel, `src/protocol.rs` | socket, receive timeout | `send`, `receive`, `set_read_timeout`, framing | supervisor and worker |
| signals, `src/main.rs` | two atomics, a self-pipe | handlers, `wake_supervisor`, drain | every blocking call |
| command line, `src/cli.rs` | options so far | `parse` | `run` |
| launch profile, `src/profile.rs` | three hash sets while it validates | `load`, `validate`, `select_variant` | both runtimes, `open_resources` |
| FunctionFS inspection, `src/functionfs.rs` | - | `inspect`: descriptor sets, OS sections and strings parsed and counted | `publish_functionfs` |
| personality projection, `src/usb_personality.rs` | string table, interface name map | `discover_bundle`, `project` | `configure` |
| worker library, `crates/usb-gadget-worker` | `EndpointLifecycle` (activation, stop flag, condition variable); the builder behind the C interface; the bundle being discovered | `activate`, `stop`, `wait_for_activation_after`; `ugsp_personality_builder_*`; `discover` | worker threads, FunctionFS, firmware |
| worker process (not in the repository) | protocol phase, generation, endpoint files | `docs/worker-protocol.md` | supervisor |
| systemd unit, `systemd/` | - | restart on failure, kill of the unit | supervisor |

How they interact. `setup` starts a worker and takes its first `Configure`;
`configure` removes the previous generation (unbind, `Quiesce`/`Quiesced`,
unmount, remove), builds the next one, hands its endpoint files over
(`UsbEndpoints`), waits for `Serving`, and only then binds the UDC. `serve`
polls the wakeup pipe, the channel and ep0; ep0 events are forwarded as
`UsbBusEvent`, class requests as `UsbControlRequest` with a synchronous answer.
An exit of the worker leads through unbind, reap and removal to a new worker;
SIGHUP does the same with a reloaded profile; SIGTERM leads to `cleanup`.

What is hard about it:

* the worker sends a `Configure`, dies, or stops reading at any point of any
  handshake, and one thread has to treat the same death seen as SIGCHLD, EOF,
  reset or EPIPE;
* `poll` takes a snapshot; signals, then the channel, then ep0 are handled from
  it, and each may destroy what the next one refers to;
* a build is six kernel operations, each of which may fail, and teardown must
  remove just what exists, in an order the kernel accepts;
* the receive timeout is state of the socket which nested operations set and
  clear; sends have none;
* FunctionFS coalesces queued events, so endpoint activation is counted from
  what is left of them;
* a personality is validated twice, before and after the old generation is
  taken away, by modules that look for different things;
* endpoint files, endpoint map, interface names and OS sections come from
  separate walks over one descriptor sequence and must agree by position;
* a GPIO line has one owner at a time, and the resources of a profile are
  opened again after every restart and reload, while the old worker may hold
  them;
* the supervisor itself may be killed, leaving kernel objects behind.

What makes each component correct: USB runtime - the host only ever sees a
device that is being served, kernel objects and ownership flags agree and
nothing is left behind but what the kernel refuses to give up, every wait ends; channel - a reply is matched to its own
request; signals - no wakeup is lost; worker library - an activation starts
endpoint I/O once and never twice, and a stop reaches every parked thread;
personality - what is well declared is served and nothing else, file k is
endpoint k, every name a host can ask for has its text; profile - a validated
profile never makes the supervisor fail on itself, and checking one touches
nothing.

PROJECT.json lists every component with its status and every hazard with the
line where it bites and the properties that watch it.

## 2. Modules

| module | what it is |
|---|---|
| `UsbRuntime` | the supervisor's thread: `src/runtime.rs`, `src/protocol.rs` and the flags of `src/main.rs`, one action per step between which another actor may act |
| `UsbLifecycle` | `UsbRuntime` with its environment: worker process, host, clock, service manager; specification, fairness and properties |
| `GadgetLifecycle` | what the supervisor promises about the one gadget, without channel, messages or program points |
| `MCUsbLifecycle` | for TLC: the claims of the documents that the code does not keep |
| `UsbLifecycleTypes` | proof of the type invariant |
| `UsbLifecycleQueues` | predicates about the records in flight and lemmas about how each channel operation changes them |
| `UsbLifecycleInvariant` | the inductive invariant `IInv` and its proof |
| `UsbLifecycleProofs` | the safety theorems drawn from `IInv`; `UsbLifecycle` implements `GadgetLifecycle` |
| `ActivationGate` | what `EndpointLifecycle` promises, without mutex and condition variable |
| `EndpointLifecycle` | the condition-variable object of `crates/usb-gadget-worker/src/lib.rs`, and the refinement mapping to the gate |
| `EndpointActivation` | host, FunctionFS event queue, `forward_bus_event`, channel, control thread and helpers around it |
| `MCEndpointActivation` | for TLC: a claim of the documents that does not hold |
| `EndpointActivationProofs` | activation numbers stay in order; the object implements the gate; the merged event queue |
| `DeviceSupervisor` | `run_device` with its worker, driver, runtime directory and service manager |
| `DeviceSupervisorProofs` | its inductive invariant and safety theorems |
| `LaunchProfile` | command line, validation of the profile, opening of its resources, start, restart and reload |
| `LaunchProfileProofs` | its inductive invariant and safety theorems |
| `PersonalityBundle` | the personality a worker declares, shared by the next four |
| `FirmwareDiscovery` | `discover`: the personality read from firmware, one action per control transfer |
| `NativeBuilder` | the builder handle of the C interface, one action per call |
| `PersonalityProjection` | `discover_bundle` and `project` |
| `FunctionFsInspection` | `functionfs::inspect` |
| `PersonalityPipeline` | the four composed: from the worker's first step to the generation that serves |
| `PersonalityPipelineProofs` | lemmas about ordered selections and concatenation, the pipeline's inductive invariant and its theorems |
| `MCDeclarations` | for TLC: profiles, firmware replies and native interfaces; profile and personality in one run |

`UsbLifecycle`, `EndpointActivation`, `DeviceSupervisor`, `PersonalityPipeline`
and `LaunchProfile` are five systems. `EndpointActivation` looks into one USB
generation of `UsbLifecycle`, from bind to `Quiesced`, where the latter only
counts forwarded events. `DeviceSupervisor` is the other mode of the program.
`PersonalityPipeline` looks into the body of a `Configure`, of which
`UsbLifecycle` knows only `empty`, `valid` and `invalid`; `LaunchProfile` into
the loading of a profile and the start of a worker, which the two runtimes see
as one step that succeeds or fails.

### State and code

`pc` is the place in the code where the supervisor's thread is, `task` the
caller to return to: `setup`, `serve`, `replace` (a `Configure` taken by
`serve`), `detach` (an empty one), `restart` (`restart_worker`), `reload`
(`reload_profile`), `cleanup`. `failed` is the `Err` being propagated. `decl`
is the `Configure` being carried out, `ready` what the last `poll` reported.
`owns_gadget`, `functionfs_mounted`, `usb`, `child`, `control`, `generation`,
`next_control_request`, `detached_at` are the fields of `Runtime` (`child` is its
`worker`; an
`Option` is a Boolean where only `is_some` matters); `read_timeout` is
`SO_RCVTIMEO`; `stop_requested`, `restart_requested`, `wakeup` are the statics
and the self-pipe.

Outside the process: `gadget`, `mounted`, `bound`, `ep0` are what the kernel
has (ConfigFS directory, mount, UDC binding, queued FunctionFS events); `off`
is the time since the last unbind (`never`, `recent`: less than the 250 ms
dwell, `elapsed`) and `cause` whose it was: the supervisor's write to `UDC`
(`unbind`), that of an empty `Configure` (`eject`), or the kernel's own
(`forced`: a refused write is followed by the removal of the configuration or
of the gadget, or the supervisor is killed). `denied` is history: the teardown
calls the kernel has refused in this run of the supervisor;
`wproc`, `wphase`, `wgen`, `wreq`, `wfiles` are the worker's process state,
protocol phase, generation, outstanding declaration and open endpoint files;
`toWorker` and `toSup` are the two directions of the channel.

A record keeps its kind, generation, request id and, for `Configure`, a body:
`empty` (detach), `valid`, or `invalid` (refused by `discover_bundle`,
`runtime.rs:298-307`, while the old generation is still serving). Bytes that do
not decode are the kind `Garbage`.
`EINTR` is modelled by what Linux does: a receive under `SO_RCVTIMEO` ends with
it whatever `SA_RESTART` says (`protocol.rs:175` does not retry), a receive
without a timeout is resumed, `poll` always returns.

Each action is a whole step of the code up to the next point at which another
actor can intervene: a blocking call, a message, a kernel operation that may
fail. Errors take one route (`Fail`): they are propagated to `run` in
`main.rs`, which calls `cleanup`. `cleanup` itself records an error and goes on
with its next step (`FailOr`), and `stop_usb_generation` tries all of its calls
whatever became of the ones before: `StopUsb` chooses the set of those that are
refused. `cleanup_stale_state` drops the error of its unbind and gives up at
the first other one. The worker is external and follows
`docs/worker-protocol.md`.

A control transfer is five program points: `readData` (the data stage of an OUT
request is read), `forwardSetup`, `awaitControl` (the answer of the worker,
under the readiness timeout), then `answer` or `stall`. `readData` and `answer`
are `transfer_ep0`, which waits for the host: it retries EINTR, its `poll` has
no timeout and it does not look at the stop flag (`runtime.rs:950-976`). So
`TransferEp0` is a step the host causes. It ends with success, with an error, or
with EIDRM because something newer is queued (`SetupSuperseded`).

`GadgetLifecycle` is seen through four operators of `UsbLifecycle`: `Supervisor`
is `pc` reduced to down, starting, running or, in `cleanup`, leaving; `Worker`
the process as the kernel has it; `Endpoints` who holds endpoint files (`offered` from the
moment they are in the channel), where files of another generation have a value
the promise never takes; `Objects` the set of kernel objects. `attached` is
`bound`, `generation` itself, `refused` is `denied # {}`. Whatever the supervisor
does between two of the promise's steps - waiting, forwarding events, propagating an error - is a
stutter.

### Endpoint activation

`activation`, `stopping` are the state under the mutex, `hpc` the place of each
helper in `wait_for_activation_after`, `observed` its argument. A critical
section, from lock to unlock or to the wait that releases the mutex, is one
step; a waiter may also wake for no reason. `Place` maps a checking or parked
helper to `waiting` at the gate.

`events` is the queue of FunctionFS with the kernel's rule for merging: a
lifecycle event discards every unread event but `Suspend` and `Resume`. `batch` is
what one `read` returned, `endpoints_enabled` and `endpoint_activation` are the
fields of `UsbGeneration`. `io` is external: an endpoint operation runs, is
blocked because it was issued while the endpoints were disabled, or was
cancelled. `lost` and `enables` are history: a `Disable` was discarded unread;
how often the host really configured the device.

### Device mode

`pc` follows `run_device` and `stop_worker`. `status` is what the inner loop
returned, `guard` is `bsc_guard`, `driver` whether the kernel has the BSC
driver, `leaked` whether no run owns it any more. `try_wait` followed by `kill`
is one step: a worker that ends in between is a zombie and the signal has no
effect. `worker = "deaf"` is a worker that ignores SIGTERM. `DriverGuard` comes
from another repository and is modelled by its use: `load_configured` loads,
`unload` and dropping the guard unload, all of which may fail.

### Launch profile

`stage` is the place in `run` and in the runtimes; `arguments`, `options` are
`parse`'s. `disk` is the file, which the operator may edit while a worker
serves; `candidate` the profile `load` read; `names`, `paths` and `lines` are
the hash sets of `validate`; `profile` is the one in force. `opened` and
`worker[1].files` are open files, each known by what it claims: a device node, or
GPIO lines of a chip. `board` is the model string, given as the set of variants
whose model it contains. A profile is a record: fields that are checked by
themselves (schema, names, directories, account, UDC, mount) are one fact,
`plain`, that holds or not; the resources, their order and what one says about
another are modelled. In device mode a reload stops the worker and unloads the
driver first (`runtime.rs`, end of the inner loop), in USB mode the worker runs
on until the new profile has been validated.

### Personality

`phase` is where the declaration stands: a firmware's requests (`device`,
`languages`, ... `url`, `finish`) or `building`, then `found`, `validated`,
`replaced`, `served`; or `abandoned` (discovery failed), `rejected`
(`ConfigurationRejected`), `failed` (the error ends the supervisor). `bundle` is
the personality, `personality` its projection, `files` and `endpoint_map` what
`UsbEndpoints` carries, `serving` what the host sees.

A USB descriptor is a record with the fields somebody compares: kind, number,
direction, transfer type, name index, and `whole`, whether it is as long as its
kind demands. A text is its index and language, its `form` what the readers
tell apart: `text`, `nul` (readable, with a NUL), `bad`, `languages`. A
compatible ID is `graphic`, `blank`, `control` or `foreign`, a property name
`ascii`, `latin` or `nul`: the classes that one of the readers refuses. A
projected descriptor blob keeps its counts and its stream, so that the
inspection cuts it up again by the counts as the code does.

The firmware answers `Regular`ly or `Odd`ly; a stall is a regular answer where
the code has a meaning for it. A native worker's refused call is no action,
except where it leaves something behind (`AddMicrosoftCompatibleId`).

`WellDeclared` is the reference: it says of the bundle alone, with no blob, what
the two validations together ought to accept.

### Faults

In `UsbLifecycle` the constant `Faults` selects: `exit` (the worker dies
anywhere), `wedge` (it stops reacting for ever), `slow` (a bounded receive times
out although the answer may still come), `garbage`, `repeat` (an empty
`Configure` while detached), `os` (a system call fails: of `setup`, of the spawn,
of each step of a build, of the bind, of the debug copy, of an EP0 transfer or
stall, and every call of a teardown - the write to `UDC`, `try_wait`, `kill` and
`wait` in `stop_worker`, `umount2`, the removal of the gadget and of
directories; not `try_wait`, `poll` and `set_read_timeout` in the event loop),
`profile` (the reloaded profile is refused), `crash` (the supervisor is killed,
the UDC may or may not survive it). `Signals` selects SIGTERM and SIGHUP.

In `DeviceSupervisor`: `fail` (the worker exits with an error), `deaf`, `litter`
(it leaves files in its runtime directory), `os`, `crash`. Both signals and
edits of the profile are always possible.

In `LaunchProfile` the host may refuse anything a start asks for
(`HostRefuses`), the worker may be lost, the file may change. In
`PersonalityPipeline` the fault is the declaration: odd replies, odd native
interfaces, and a builder called in any order.

## 3. Runs

| run | question | result |
|---|---|---|
| `usb_faults` | do the nine safety properties hold with every fault and both signals at once, refused teardown calls included, among them that the system implements `GadgetLifecycle`? | hold, 1.59M states |
| `usb_liveness` | do SIGTERM, SIGHUP, a lost worker and every declaration find their answer, also in the middle of a control transfer, and does nothing deadlock? | hold |
| `usb_serving_unbounded` | does the readiness timeout bound every handshake, as `docs/profile-format.md:115` says? | violated |
| `usb_wedged_send` | does a worker that stops reading lead to bounded recovery, as `docs/worker-protocol.md:205-208` says? | violated |
| `usb_signal_in_handshake` | does SIGHUP keep the process, as `README.md:107-110` says? | violated |
| `usb_crossing_configure` | may a serving worker declare a replacement at any time, as `docs/architecture.md:122-132` says? | violated |
| `usb_worker_loss_in_ep0` | does the same process recover from the loss of an attached worker, as `docs/raspberry-pi-validation.md:99-106` says? | violated |
| `endpoint_activation` | does an enabled endpoint get its I/O started, once per configuration and in every helper, and does the condition variable implement the gate? | holds, 585k states |
| `endpoint_coalesced_disable` | does the `Enable` after a genuine `Disable` start a fresh activation, as `docs/usb-lifecycle.md:23-25` says? | violated |
| `device` | is device mode safe and live with every fault, both signals and a changing profile? | holds, 6.8k states |
| `declarations` | is exactly what is well declared served, with files, names and OS sections in their places; does a validated profile open without a conflict? | hold, 370k states |
| `personality_late_inspection` | does a serving generation survive an invalid candidate, as `docs/architecture.md:85` and `125` say? | violated |

### Properties

`AttachedIsServed`, `BeliefMatchesKernel`, `ExpectsHold`, `CleanExit`,
`EndpointsReleasedBeforeRemoval`, `OneWorkerAtATime`, `DwellBeforeRebind` and
`GadgetKept` are the safety properties, `StopHonoured`, `ReloadHonoured`,
`WorkerLossRepaired` and `DeclarationAnswered` the liveness ones; each is
stated in words above its definition in `UsbLifecycle`.

The kernel may refuse to give something up, and the code then clears its flags
all the same (`runtime.rs:597`, `601`) and does not try again. That flags and
kernel objects always agree, or that nothing is ever left behind, is therefore
not true of this program. What is true, and what `BeliefMatchesKernel` and
`CleanExit` say, is an account: a flag is never set without its object; an
object without its flag, or left behind by `cleanup`, is one whose own removal
was refused (or, for the mount, a sweep of stale state before it); a bound UDC
is left only when both the unbind and the removal of the gadget were refused; and after a
refusal the exit is an error. A step that is skipped because another one failed
violates it. `AttachedIsServed` has one exception, a `cleanup` whose unbind
was refused: `cleanup` records that and quiesces a worker the host still sees
(`runtime.rs:189-192`).

`GadgetKept` is the
refinement: a generation is numbered, built, mounted, handed over, attached, given
up by its worker and removed in this order, whatever fails; from the first
refused teardown call on, there is only `GiveUp`, which takes down what it can
and leads out, beside the worker's end. It says more than
the action properties together (`Attach` needs the worker's files open, `Remove`
needs them closed, numbers go back only in `StartOver` and `Boot`), and every
one of the 18 actions of `GadgetLifecycle` is needed: TLC refutes the refinement
when any of them is left out. `GenerationsGrow`, which says the last of these alone, is
a theorem only.

`ActivationsInOrder`, `ActivationsAreReal` and `EnabledMatchesKernel` follow the
number from the kernel's event to the helper; `ParkedOnlyAfterLoss` says when a
parked helper is legitimate; `GateKept` is the refinement, with the gate's
fairness; `ServiceResumes` is the end-to-end promise.

`WorkerHasItsResource`, `ClosedBeforeUnload`, `SuccessIsEarned`, `CleanExit`,
`OneWorkerAtATime`, `StopHonoured`, `ReloadHonoured` and `WorkerEndNoticed` are
device mode's.

`NoSelfConflict`, `NamesMatchFiles`, `DriverFitsBoard` and `CheckTouchesNothing`
are the launch's. `ReferencedStringsKnown` is discovery's promise,
`EndpointsAgree`, `InterfaceNamesKept` and `OsDescriptorsComplete` relate what
is served to what was declared, `ServedIffWellDeclared` compares the two
validations with the reference, and `DiscoveryServes` says that a regular
firmware is served in the end.

### What the violated runs show

1. *Serving has no timeout.* `configure` sets the timeout (`runtime.rs:312`)
   and then quiesces the old generation; `quiesce_worker` ends with
   `set_read_timeout(None)` (561). The wait for `Serving` (349) of every
   replacement is unbounded.
2. *A blocked send.* `send` is a `sendmsg` without timeout. A worker that stops
   reading while its queue is full blocks it before any deadline exists, and
   SIGTERM changes nothing: `sendmsg` is restarted.
3. *EINTR in a handshake.* A SIGHUP that
   arrives during a bounded receive becomes an error and ends the supervisor;
   systemd then starts a new process.
4. *Crossing messages.* `forward_control_request` takes the next record for the
   response. A `Configure` sent before the worker read the request is a fatal
   mismatch.
5. *Loss of the worker in ep0.* EPIPE or EOF in `service_ep0` is not taken for
   an exit of the worker; `serve` returns the error.
6. *A `Disable` nobody saw.* If the host disables and enables the function
   before ep0 is read, FunctionFS keeps the `Enable` only. `endpoints_enabled`
   is still set (`runtime.rs:421`), no new number is given out, and a helper whose
   I/O the `Disable` cancelled waits beside an enabled endpoint until the
   generation ends. `ParkedOnlyAfterLoss` and `ServiceResumes` hold in
   `endpoint_activation`: this is the only way to get there.
7. *Refused too late.* `functionfs::inspect` runs in `publish_functionfs`
   (`runtime.rs:744`), after the old generation was unbound, quiesced and
   removed, and its error ends the supervisor. `discover_bundle`, which runs
   before, does not look for repeated endpoint addresses, endpoint number 0,
   property types outside 1 to 7, blank compatible IDs, or property names whose
   UTF-16 does not read as UTF-8. `ServedIffWellDeclared` holds: nothing bad is
   served, but the good generation is lost.

### Bounds

`MaxGeneration = 2` gives one replacement and one overflow; nothing compares
generations other than with the previous one, and a fresh worker starts again
at zero. `MaxRequest = 2` gives an accepted and an exhausted control request
id, in `usb_liveness` too: there SIGTERM arrives in every part of a control
transfer; 3 (`usb_crossing_configure`) where two requests must be in play. `ChanCap = 2` is the
smallest queue that can hold a reply and a message that crosses it, and small
enough to fill up. `ConfigIds = {1}`: one declaration is outstanding at a time
and the code compares its id with nothing. `Bodies` has one member per
outcome of `configure`. `EventKinds` has the two that take different paths,
bus events and class requests. These bounds are named in `UsbRuntime` and act
in guards; the theorems hold for all of them.

`endpoint_activation`: two helpers tell `notify_one` from `notify_all`;
`MaxEnables = 3` with `MaxActivation = 2` reaches the counter's overflow and,
before that, every merge of an `Enable`/`Disable` pair; `ChanCap = 1` blocks the
supervisor while the control thread is late. The event queue needs no bound,
merging keeps it at three events. `device` is finite without bounds.

`declarations`: `MaxByte = 3` and `MaxStrings = 7` stand for 255 and 256 and are
met, passed and missed by the configurations and languages in `MCDeclarations`;
a name comes back at the limit, because the code computes a number for it all
the same. `OsString = 9` stands for 0xee;
one configuration of `MCDeclarations` has that index for its name, no other
name has it. `MaxOdd = 1`: a reply that is
refused ends the discovery or the validation, so a second one is seen only when
the first was let through; with 2 the run holds as well. An odd
list of compatible IDs has four entries, one more than `MaxByte` lets a section
count. `MaxCalls = 5` is a new
builder, two interfaces, one capability or text, and the end; a third interface
adds no case, since only pairs are compared. `MaxReloads = 2` lets a worker of a
second profile be replaced by a third. The sets of profiles and descriptors
have at least one member per condition of the code that refuses one. Profile
and personality share a run because neither reads the other's variables: a
behaviour follows one of them while the other is parked. Its
`CHECK_DEADLOCK FALSE` is there because both come to an end of their own.

`usb_faults` says `CHECK_DEADLOCK FALSE` because a wedged worker can block the
supervisor's send for ever (item 2 above); `usb_wedged_send` likewise.
`usb_liveness` has no wedge and checks for deadlocks.

### Fairness

* `WF(SupervisorStep)`: one thread that runs whenever it is not blocked.
* `WF(WorkerHandles)`, `WF(WorkerEof)`: a live worker reads its channel and
  exits when it closes, as the protocol asks.
* `WF(FirstDeclaration)`: a started worker declares itself; nothing else is
  asked of it, later declarations are optional.
* `WF(EscalateStop)`: `stop_worker` polls with `try_wait` and sends SIGKILL,
  which the kernel carries out.
* `WF(Tick)`, `WF(ServiceRestart)`: time passes; `Restart=on-failure`.

* `EndpointActivation`: weak fairness of the supervisor's thread, the control
  thread and each helper; none of the host, of spurious wakeups or of I/O.
* `DeviceSupervisor`: weak fairness of the supervisor, whose two grace periods
  end, and of `WorkerObeys`: a worker that is not deaf exits on SIGTERM. No
  property needs the worker to end by itself.
* `PersonalityPipeline`: weak fairness of `DiscoverStep` (`discover` is one loop
  of calls into the firmware, each of which returns) and of `Supervise`
  (`configure` runs to its end); none of a native worker, which may stop
  calling. `LaunchProfile` has safety properties only.

No strong fairness. Faults, signals, host events and further declarations
are not fair: they need not happen. Neither is `TransferEp0`, which takes the
host. Three assumptions are therefore part of the properties and named there.
`HostBehaves` is two of them: `HostPauses`, as `service_ep0` loops until the read
would block (`runtime.rs:379`), and `HostFinishes` (weak fairness of
`TransferEp0`), as `transfer_ep0` returns only when the host has completed or
cancelled its part: SIGTERM during a transfer waits for the host, without
bound if the host never does either. For SIGHUP only there is `WorkerSettles`, as a
worker that dies again before each poll keeps `serve` in `restart_worker`
(`runtime.rs:112`).

## 4. Proofs

From `BoundsAssumption` (the bounds are natural numbers, `ChanCap` and `MaxRequest` positive)
and `ChoicesAssumption` (the sets of inputs are subsets of the possible ones)
alone, for every value of the constants:

* `TypeCorrect`: `Spec => []TypeOK`;
* `Invariance`: `Spec => []IInv`;
* one theorem for each of the other eight properties of `usb_faults`, and one for
  `GenerationsGrow`.

None of the properties is inductive. `IInv` adds to `TypeOK`:

| part | says | needed because |
|---|---|---|
| `TaskInv` | which callers a program point can have; an error, a refused teardown call first of all, leads to `cleanup` and nowhere else | `AfterStopUsb` returns to a place that depends on `task`; every exception below is one of `cleanup` only because of this |
| `LinkInv` | worker process, channel and queues fit together: at most one incarnation, and a worker without a handle is one that `stop_worker` failed on | `OneWorkerAtATime` and `ExpectsHold` speak of both ends |
| `QuiesceInv` | where a `Quiesce` or its reply is in flight, and that a worker which replied has closed its files | removal follows a *received* reply, `EndpointsReleasedBeforeRemoval` speaks of the files |
| `ServingInv` | the same for `UsbEndpoints` and `Serving`, with the generation they carry; a live worker that is not told to serve is not bound unless the unbind was refused | `bind` follows a received `Serving`, `AttachedIsServed` speaks of the worker |
| `ObjectInv` | which kernel objects exist at each point of build and teardown, and which refused call accounts for any other | `BeliefMatchesKernel` between two steps, `CleanExit` at the end |
| `DwellInv` | `detached_at` set, `off` and `cause` fit together | `bind` looks at `detached_at` only |

The argument about refusals goes: a refused call puts its name into `denied` and
sets `failed` in the same step; `failed` keeps `task = "cleanup"` until the
exit; so wherever `denied` is not empty, no build, no bind and no new worker
can follow, and the parts above may weaken what they say of the objects there.
`UnbindSplits` and `UnbindFrees` say what `Unbind` comes to for the other parts:
the write went through, there was nothing to write, or it is in `denied`.

The messages in flight are the heart of it. `Holds`, `Once`, `AtEnd` and
`Carries` say of a queue that it contains a record of some kind, contains it
once, only as its last record, with given numbers; `UsbLifecycleQueues`
proves how appending and taking a record change them, and the invariant's proof
uses these lemmas only. The proof has one step per action and one lemma per
part of `IInv`; actions which leave a part's variables alone are dealt with by
the `Same...` lemmas. TLC checked every part of `IInv` over the full state
space of `usb_faults` before it was proved.

`GadgetImplemented` (`Spec => GadgetKept`) is the refinement. It needs more than
`IInv`, for the promise speaks of the worker's files at every moment and not only
where the supervisor relies on them. `HandInv`, itself inductive beside `IInv`
and checked by TLC on `usb_faults` first, adds:

| conjunct of `HandInv` | needed because |
|---|---|
| files in a worker or on their way to it are of the supervisor's generation (`EndpointsCurrent`, `wgen = generation`), and their gadget and mount exist | `Number` and `Remove` ask for closed files; a record left over from an earlier generation would be one nobody takes away again |
| a `Quiesce` is the last record a worker is told (`QuiesceLast`) | the files a worker closes must not be followed by new ones |
| nothing is handed over before `sendEndpoints` has run | `Offer` asks for closed files |
| without `usb` there are no kernel objects where a new generation may start | `Number` and `Start` ask for none |

`HandInvStep` has a step per action. For the step simulation, `Calm` says that a
step leaves the mapped values alone, the begin of `cleanup` apart, and
`GadgetEvent` names the 18 actions that may not; `CalmOrEvent` proves that there are no others, and
`GadgetStep` gives the abstract action for each case of the 18.

For `EndpointActivation`, from `ActivationAssumption` and `ActivationBounds`:
`NumbersOrdered` (`Spec => []ActivationsInOrder`; inductive with the types of
counters and records and `QueueInOrder`), `GateImplemented`
(`Spec => Gate!Spec`): every step of the composition is a step of the gate or
leaves it alone, and `ActivationTypes`, `NumbersAreReal`, `BeliefSettles` and
`ParkedAfterLoss` for the other four invariants of `endpoint_activation`. These
rest on `IInvActivation`:

| part | says | needed because |
|---|---|---|
| `MergeFacts` | a queue that merges holds one lifecycle event at most, and `endpoints_enabled` will be what the kernel has once both queues are forwarded | `EnabledMatchesKernel` speaks of empty queues only |
| `CountFacts` | the numbers given out and those the unread events will yield are covered by `enables` | a pending `Enable` is not yet counted |
| `NumberOnItsWay` | while the supervisor serves, its last number is in the channel or has arrived | a settled channel then means that the lifecycle has it |
| `ParkFacts`, `SpentFacts` | a helper without I/O has used up its number: a newer one exists or the next `Enable` will be fresh | `ParkedOnlyAfterLoss` speaks of the end of that path |

`QueueMerges` is the lemma they use: which events, and how many, are left when
one more is queued. `Queue` is stated as an order-preserving selection of
positions, which the prover can reason about, and not by `SelectSeq`.

For `DeviceSupervisor`, from `DeviceAssumption`: `DeviceTypes` and a theorem for
each of its five safety properties. Its `IInv` adds to `TypeOK` where a
worker exists (`WorkerInv`), where the guard is set and that without one only a
leaked driver is loaded (`DriverInv`), and that after the inner loop there is a
status unless a signal asked for the end (`ResultInv`): `SuccessIsEarned` fails
for the induction without it, in `decide` with status `none` and no flag set.

For `LaunchProfile`, from `LaunchAssumption` (profiles have finitely many
resources, of the three kinds, with names, paths and natural offsets) alone:
`LaunchTypes` and a theorem for each of its other four invariants. `IInvLaunch`
adds to the types:

| part | says | needed because |
|---|---|---|
| `StageFacts` | files are open only while they are being opened, a worker exists from its start to its end, a driver only in device mode | `NoSelfConflict` has to know that nobody else holds a line |
| `CandidateFacts` | the resources before `next` are checked, pairwise apart, and remembered in the three sets | `validate` compares a resource with the sets, not with the others |
| `ForceFacts` | the profile in force passed all of that | opening comes long after validation, and the file may have changed |
| `OpenFacts`, `WorkerFacts` | the k-th open file, here and in the worker, is the claim of the k-th resource | `NamesMatchFiles` relates two lists |
| `CheckFacts` | `--check-profile` ends before anything is opened | - |

Its heart is `FreshResource`: a resource that the three sets accept claims
nothing a remembered one claims, although nodes and lines live in different
sets.

For `PersonalityPipeline`, from `SizesAreNaturals`, `RepliesHaveTypes`,
`InterfacesHaveTypes` (a reply or an interface has the fields the code reads,
with natural numbers in them; nothing is said about their values) and the
two bounds `MaxOdd` and `MaxCalls` being natural: a theorem for each of the five
invariants of `declarations` that are about a personality, for every firmware,
regular or not, and every sequence of builder calls. `PipelineInv` is inductive:

| part | says | needed because |
|---|---|---|
| `PipelineTypeOK` | the bundle, the builder, the projection and what was published have their types; in particular every sequence is one | the lemmas about selections need sequences |
| `DiscoveryInv` | what each phase of discovery knows (`Known`): languages first, each string read once and for a name and language that asked for it, all of them once the phase is past `strings`; the capability exists while its lists are read | `ReferencedStringsKnown` speaks of the end, `AskString` of one string |
| `SourceInv` | a bundle under configuration finished, and if firmware made it, `DiscoveryInv`'s facts about it still hold | projection starts from these |
| `PublishInv` | what was validated, replaced, published or refused is `Projection(bundle)` and passes, or not, the checks that phase claims | `served` is three steps after validation, and the properties relate it to the declaration |

The work is in the data. The library's induction theorems take an operator,
which the provers cannot instantiate, so `LeastNumber` and `NumberInduction`
derive induction over a *set* of numbers from the well-foundedness of strict
subsets, which the library states without one. On it rest `FlattenType`
(concatenating a sequence of sequences) and, with the library's facts on
injections between finite sets, `RankOrders`, `AscendingLists` and `AtLists`:
`Ascending(S)` lists a finite set once each and in order, `At(s, P)` holds what
`s` holds at the positions `P`. The model is written with these two (`Rank`
defines order by counting) where it first used sorting and filtering operators
of the community modules, which recur over sequences and sets. The theorems then
follow the code: the projection's
walk and the inspection's walk select the same positions
(`EndpointsDoAgree`); a name's new number is its rank among first appearances,
which `MappedNames` inverts (`InterfaceNamesAreKept`); the sections cut up again
by their counts are the sections written (`OsDescriptorsAreComplete`); and
`WellDeclared` is equivalent to `Projects` and `Publishes` together
(`WellDeclaredIsServed`), limb by limb.

Two statements turned out to be wrong when they met the proof, in cases that the
inputs of the run did not contain and now do. `WithinLimits`
lacked a limit of the code: `project_microsoft_os_1` counts compatible IDs in a
byte. And `ReferencedStringsKnown` said that every text is there once: when a
name has the index of the Microsoft OS string and language 0 is announced, it is
there twice, because `discover_microsoft` asks for it without looking among the
strings already read (`discover_bundle` then refuses the bundle). Both are stated
correctly now.

Only model-checked: the liveness properties (`StopHonoured`, `ReloadHonoured`,
`WorkerLossRepaired`, `DeclarationAnswered`, `ServiceResumes`, `WorkerEndNoticed`,
`DiscoveryServes`) and the gate's fairness in `GateKept`: fairness and `ENABLED`
are outside what the installed provers handle. Every invariant and every
action property of a passing run is a theorem.

## 5. Not modelled, and why

* Privilege drop, ownership and type of files, capabilities, fork: single system
  calls that succeed or fail, `HostRefuses` in `LaunchProfile` and part of one
  step elsewhere. The lock of a run: one instance is modelled.
* The C interface's pointers, result buffers and the callback of
  `ugsp_discover_usb_personality`: memory safety is not a question for TLA+. What
  its calls do to the builder is in `NativeBuilder`.
* CBOR and the schema check of a bundle, the framing of records: bytes either
  decode or do not (`Garbage`, an `invalid` body).
* The contents of class-specific descriptors, the device's maximum speed, packet
  sizes other than zero: copied, never compared.
* String descriptors shorter than their own header, and any other bundle not
  made by the library: discovery and builder make none.
* `StartLimitBurst` of the unit; `TimeoutStopSec`'s SIGKILL is `crash`.
* A worker that lies: answers `Quiesced` with its files open, or declares twice.
  What the first leads to, an `umount` that is refused, is in the model for other
  reasons.
* In `cleanup`, the removal of the runtime directory and the unmount of ConfigFS
  (`runtime.rs:196-207`) have no state of their own: whether one of them fails
  is part of `rmdir` in `denied`. The profile's name is taken to be the same
  after a reload, so that `gadget` is one directory.
* The kernel taking a function off the UDC after the supervisor has exited, when
  a leaked worker closes its last endpoint file.
* What is planned below.

## 6. Plan

In this order; each step comes with its runs, mutants and map entries.

1. *Done:* `UsbRuntime`, `UsbLifecycle` and their theorems.
2. *Done:* `ActivationGate`, `EndpointLifecycle`, `EndpointActivation`, with the
   theorems about the merged event queue.
3. *Done:* `DeviceSupervisor` and its theorems.
4. *Done:* `LaunchProfile` with its theorems; `PersonalityBundle`,
   `FirmwareDiscovery`, `NativeBuilder`, `PersonalityProjection`,
   `FunctionFsInspection` and their composition.
5. *Done:* `GadgetLifecycle`, which `UsbLifecycle` implements, as a property of
   `usb_faults` and as a theorem; the theorems about `PersonalityPipeline`.
6. `UsbLifecycle` with `PersonalityPipeline`'s verdicts in place of `Bodies`, so
   that a late refusal (item 7 above) is one of its faults.
7. A worker that holds endpoint files after `Quiesced`.
