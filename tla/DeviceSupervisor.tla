-------------------------- MODULE DeviceSupervisor --------------------------
(***************************************************************************)
(* The supervisor in device mode: run_device of src/src/runtime.rs and     *)
(* stop_worker, with the worker it starts, the kernel driver it may load   *)
(* for it, the profile on disk, and the service manager.  There is no      *)
(* channel: a signal and an exit status are all the two processes say.     *)
(***************************************************************************)

CONSTANTS
    Profiles,      \* what the profile on disk may be, see ProfileKinds
    Faults         \* what may go wrong, see FaultKinds

\* char, bsc: a device profile with that resource; foreign: valid, of another
\* mode or name; invalid: refused by Profile::load.
Resources == {"char", "bsc"}
ProfileKinds == Resources \cup {"foreign", "invalid"}

\* fail: the worker exits with an error; deaf: it ignores SIGTERM; litter: it
\* leaves files behind; os: opening, loading, spawning or unloading fails;
\* crash: the supervisor is killed.
FaultKinds == {"fail", "deaf", "litter", "os", "crash"}

ASSUME DeviceAssumption ==
    /\ Profiles \subseteq ProfileKinds /\ Profiles \cap Resources # {}
    /\ Faults \subseteq FaultKinds

VARIABLES
    pc,                \* program point, one value per step of the loop
    status,            \* what the inner loop returned: none, ok, bad
    failed,            \* run_device returns an Err
    profile,           \* resource of the loaded profile
    guard,             \* bsc_guard.is_some(), not yet unloaded
    stop_requested, restart_requested, wakeup,
    \* outside the supervisor
    disk,              \* the profile on disk
    driver,            \* the BSC driver is loaded
    leaked,            \* ... and no supervisor run still owns it
    rundir,            \* the runtime directory: absent, empty, littered
    worker,            \* none, running, deaf, ok, bad (the last two: zombie)
    termed             \* the worker was sent SIGTERM

flagVars == <<stop_requested, restart_requested, wakeup>>
driverVars == <<driver, leaked>>
workerVars == <<worker, termed>>
runVars == <<status, failed, profile, guard>>
vars == <<pc, runVars, flagVars, disk, driverVars, rundir, workerVars>>

Points == {"prepare", "open", "spawn", "loop", "poll", "drain", "term",
           "grace", "again", "reap", "unload", "remove", "decide", "exited"}

TypeOK ==
    /\ pc \in Points
    /\ status \in {"none", "ok", "bad"} /\ failed \in BOOLEAN
    /\ profile \in Resources /\ guard \in BOOLEAN
    /\ stop_requested \in BOOLEAN /\ restart_requested \in BOOLEAN
    /\ wakeup \in BOOLEAN
    /\ disk \in Profiles /\ driver \in BOOLEAN /\ leaked \in BOOLEAN
    /\ rundir \in {"absent", "empty", "littered"}
    /\ worker \in {"none", "running", "deaf", "ok", "bad"}
    /\ termed \in BOOLEAN

Init ==
    /\ pc = "prepare" /\ status = "none" /\ failed = FALSE
    /\ disk \in Profiles \cap Resources /\ profile = disk
    /\ guard = FALSE
    /\ stop_requested = FALSE /\ restart_requested = FALSE /\ wakeup = FALSE
    /\ driver = FALSE /\ leaked = FALSE /\ rundir = "absent"
    /\ worker = "none" /\ termed = FALSE

Zombie == worker \in {"ok", "bad"}
Alive == worker \in {"running", "deaf"}

-----------------------------------------------------------------------------
(* One run of the outer loop: prepare, open, spawn. *)

Prepare ==
    /\ pc = "prepare"
    /\ pc' = "open" /\ status' = "none"
    /\ rundir' = IF rundir = "absent" THEN "empty" ELSE rundir
    /\ UNCHANGED <<failed, profile, guard, flagVars, disk, driverVars,
                   workerVars>>

\* open_character_device, or open_bsc_target: a driver left behind is
\* unloaded first, then the guard loads its own.
OpenResource ==
    /\ pc = "open"
    /\ pc' = "spawn"
    /\ IF profile = "bsc"
       THEN driver' = TRUE /\ leaked' = FALSE /\ guard' = TRUE
       ELSE UNCHANGED <<driverVars, guard>>
    /\ UNCHANGED <<status, failed, profile, flagVars, disk, rundir,
                   workerVars>>

\* An early return; dropping the guard unloads the driver.  open_bsc_target may
\* fail before it unloads an old driver, after that, or with its own loaded.
StartFails ==
    /\ "os" \in Faults /\ pc \in {"prepare", "open", "spawn"}
    /\ pc' = "exited" /\ failed' = TRUE
    /\ guard' = FALSE
    /\ driver' \in IF pc = "open" /\ profile = "bsc" THEN {FALSE, driver}
                                                   ELSE {driver /\ ~guard}
    /\ leaked' = (leaked /\ driver')
    /\ UNCHANGED <<status, profile, flagVars, disk, rundir, workerVars>>

Spawn ==
    /\ pc = "spawn"
    /\ pc' = "loop"
    /\ worker' = "running" /\ termed' = FALSE
    /\ UNCHANGED <<runVars, flagVars, disk, driverVars, rundir>>

-----------------------------------------------------------------------------
(* The inner loop. *)

Reaps == worker' = "none" /\ UNCHANGED termed

\* Mutant: SIGHUP does not end the inner loop.
AskedToStop == stop_requested
Asked == stop_requested \/ restart_requested

\* Mutant: a worker that has not ended is taken for one that has.
EndedAlways == TRUE
Ended == Zombie

LoopTop ==
    /\ pc = "loop"
    /\ \/ Asked /\ pc' = "term" /\ UNCHANGED <<status, workerVars>>
       \/ ~Asked /\ Ended /\ pc' = "term" /\ status' = worker /\ Reaps
       \/ ~Asked /\ ~Ended /\ pc' = "poll" /\ UNCHANGED <<status, workerVars>>
    /\ UNCHANGED <<failed, profile, guard, flagVars, disk, driverVars, rundir>>

Poll ==
    /\ pc = "poll" /\ wakeup
    /\ pc' = "drain"
    /\ UNCHANGED <<runVars, flagVars, disk, driverVars, rundir, workerVars>>

DrainSignals ==
    /\ pc = "drain"
    /\ pc' = "loop" /\ wakeup' = FALSE
    /\ UNCHANGED <<runVars, stop_requested, restart_requested, disk,
                   driverVars, rundir, workerVars>>

-----------------------------------------------------------------------------
(* Teardown: SIGTERM, stop_worker, unload, remove the directory. *)

\* Mutant: the worker is left to itself.
AfterTermUnload == "unload"
AfterTerm == "grace"

\* A worker that is a zombie by now is reaped here and its status forgotten.
Terminate ==
    /\ pc = "term"
    /\ pc' = AfterTerm
    /\ IF Zombie THEN Reaps
       ELSE termed' = Alive /\ UNCHANGED worker
    /\ UNCHANGED <<runVars, flagVars, disk, driverVars, rundir>>

\* try_wait finds it, in either grace period or in the final wait.
Reaped ==
    /\ pc \in {"grace", "again", "reap"} /\ ~Alive
    /\ pc' = "unload" /\ Reaps
    /\ UNCHANGED <<runVars, flagVars, disk, driverVars, rundir>>

\* Two seconds without an exit: SIGTERM once more.
GraceOver ==
    /\ pc = "grace" /\ Alive
    /\ pc' = "again" /\ termed' = TRUE
    /\ UNCHANGED <<runVars, flagVars, disk, driverVars, rundir, worker>>

\* Mutant: no escalation.
KillNot == UNCHANGED <<worker, wakeup>>
Kill == worker' = "bad" /\ wakeup' = TRUE

\* And two more: SIGKILL.
AgainOver ==
    /\ pc = "again" /\ Alive
    /\ pc' = "reap" /\ Kill
    /\ UNCHANGED <<runVars, stop_requested, restart_requested, disk,
                   driverVars, rundir, termed>>

\* Mutant: the guard is not unloaded.
KeepsDriver == UNCHANGED <<guard, driverVars>>
UnloadsDriver ==
    /\ guard' = FALSE
    /\ driver' = (driver /\ ~guard) /\ UNCHANGED leaked

\* DriverGuard::unload; rmmod refuses while the worker has the device open.
Unload ==
    /\ pc = "unload" /\ ~(guard /\ Alive)
    /\ pc' = "remove"
    /\ UnloadsDriver
    /\ UNCHANGED <<status, failed, profile, flagVars, disk, rundir,
                   workerVars>>

UnloadFails ==
    /\ pc = "unload" /\ guard /\ (Alive \/ "os" \in Faults)
    /\ pc' = "exited" /\ failed' = TRUE
    /\ guard' = FALSE /\ leaked' = TRUE
    /\ UNCHANGED <<status, profile, flagVars, disk, driver, rundir,
                   workerVars>>

\* remove_dir does not remove a directory with files in it.
RemoveRundir ==
    /\ pc = "remove"
    /\ IF rundir = "littered"
       THEN pc' = "exited" /\ failed' = TRUE /\ UNCHANGED rundir
       ELSE pc' = "decide" /\ rundir' = "absent" /\ UNCHANGED failed
    /\ UNCHANGED <<status, profile, guard, flagVars, disk, driverVars,
                   workerVars>>

\* Mutant: whatever the worker's status, the run was a success.
ExitAlwaysOk == FALSE
ExitFails == status = "bad"

Decide ==
    /\ pc = "decide"
    /\ \/ /\ stop_requested
          /\ pc' = "exited"
          /\ UNCHANGED <<failed, profile, restart_requested>>
       \/ /\ ~stop_requested /\ restart_requested
          /\ restart_requested' = FALSE
          /\ IF disk \in Resources
             THEN pc' = "prepare" /\ profile' = disk /\ UNCHANGED failed
             ELSE pc' = "exited" /\ failed' = TRUE /\ UNCHANGED profile
       \/ /\ ~stop_requested /\ ~restart_requested
          /\ pc' = "exited" /\ failed' = ExitFails
          /\ UNCHANGED <<profile, restart_requested>>
    /\ UNCHANGED <<status, guard, stop_requested, wakeup, disk, driverVars,
                   rundir, workerVars>>

SupervisorStep ==
    \/ Prepare \/ OpenResource \/ StartFails \/ Spawn
    \/ LoopTop \/ Poll \/ DrainSignals
    \/ Terminate \/ Reaped \/ GraceOver \/ AgainOver
    \/ Unload \/ UnloadFails \/ RemoveRundir \/ Decide

-----------------------------------------------------------------------------
(* Signals, and the worker.  Its end sends SIGCHLD.                         *)

\* A handler writes the pipe.  A poll that is already blocked ends with EINTR;
\* one that is about to block is ended by the byte in the pipe.
Wakes ==
    /\ wakeup' = TRUE
    /\ \/ UNCHANGED pc
       \/ pc = "poll" /\ ~wakeup /\ pc' = "loop"

\* Mutant: no handler for SIGCHLD.
ChildUnnoticed == UNCHANGED <<wakeup, pc>>
ChildChanged == Wakes

WorkerEnds(how) ==
    /\ worker' = how
    /\ ChildChanged
    /\ UNCHANGED <<runVars, stop_requested, restart_requested, disk,
                   driverVars, rundir, termed>>

WorkerExits == worker = "running" /\ WorkerEnds("ok")
WorkerFails == "fail" \in Faults /\ worker = "running" /\ WorkerEnds("bad")
WorkerObeys ==
    worker = "running" /\ termed /\ \E how \in {"ok", "bad"} : WorkerEnds(how)

WorkerGoesDeaf ==
    /\ "deaf" \in Faults /\ worker = "running"
    /\ worker' = "deaf"
    /\ UNCHANGED <<pc, runVars, flagVars, disk, driverVars, rundir, termed>>

\* It writes a file to its runtime directory, or removes it again.
WorkerLitters ==
    /\ "litter" \in Faults /\ worker = "running"
    /\ rundir' = IF rundir = "empty" THEN "littered" ELSE "empty"
    /\ UNCHANGED <<pc, runVars, flagVars, disk, driverVars, workerVars>>

-----------------------------------------------------------------------------
(* The service manager and the operator. *)

Interrupts ==
    /\ Wakes
    /\ UNCHANGED <<runVars, disk, driverVars, rundir, workerVars>>

Sigterm ==
    /\ pc # "exited" /\ ~stop_requested
    /\ stop_requested' = TRUE /\ UNCHANGED restart_requested
    /\ Interrupts

Sighup ==
    /\ pc # "exited" /\ ~restart_requested
    /\ restart_requested' = TRUE /\ UNCHANGED stop_requested
    /\ Interrupts

EditProfile(p) ==
    /\ disk' = p /\ disk # p
    /\ UNCHANGED <<pc, runVars, flagVars, driverVars, rundir, workerVars>>

\* PR_SET_PDEATHSIG and the service manager end the worker; the driver stays.
Crash ==
    /\ "crash" \in Faults /\ pc # "exited"
    /\ pc' = "exited" /\ failed' = TRUE
    /\ guard' = FALSE /\ leaked' = driver
    /\ worker' = "none" /\ termed' = FALSE
    /\ UNCHANGED <<status, profile, flagVars, disk, driver, rundir>>

\* Restart=on-failure; a start with a profile that is not for run_device ends
\* at once.
ServiceRestart ==
    /\ pc = "exited" /\ failed /\ ~stop_requested
    /\ disk \in Resources
    /\ pc' = "prepare" /\ status' = "none" /\ failed' = FALSE
    /\ profile' = disk /\ guard' = FALSE
    /\ restart_requested' = FALSE /\ wakeup' = FALSE
    /\ worker' = "none" /\ termed' = FALSE
    /\ UNCHANGED <<stop_requested, disk, driverVars, rundir>>

Stopped == pc = "exited" /\ UNCHANGED vars

WorkerStep == WorkerExits \/ WorkerFails \/ WorkerObeys \/ WorkerGoesDeaf
                  \/ WorkerLitters
ServiceStep == Sigterm \/ Sighup \/ Crash \/ ServiceRestart
                  \/ \E p \in Profiles : EditProfile(p)

Next == SupervisorStep \/ WorkerStep \/ ServiceStep \/ Stopped

Spec == Init /\ [][Next]_vars

\* The supervisor runs, its timers included, and a worker that is not deaf
\* obeys SIGTERM.
FairSpec == Spec /\ WF_vars(SupervisorStep) /\ WF_vars(WorkerObeys)

-----------------------------------------------------------------------------
(* Properties. *)

\* A worker that runs has the resource of the loaded profile and no other: the
\* driver is there exactly when the profile asks for it, across reloads that
\* change the resource, failed starts and crashes.
WorkerHasItsResource ==
    worker # "none" =>
        /\ guard <=> (profile = "bsc")
        /\ guard => driver /\ ~leaked

\* The driver is asked to unload only when the worker, and with it the device,
\* is gone, however the worker took the signals (docs/profile-format.md:138).
ClosedBeforeUnload == pc = "unload" => worker = "none"

\* run_device returns Ok only if it was told to stop or the worker ended well;
\* that the exit status may be lost in Terminate never turns into a success.
SuccessIsEarned ==
    pc = "exited" /\ ~failed => stop_requested \/ status = "ok"

\* A successful return leaves no worker, no driver of its own and no runtime
\* directory behind, however the worker behaved.
CleanExit ==
    pc = "exited" /\ ~failed =>
        /\ worker = "none" /\ rundir = "absent"
        /\ driver => leaked

\* A worker is started only when there is none, and the driver it uses is not
\* the one an earlier run left behind.
OneWorkerAtATime ==
    [][worker' = "running" /\ worker # "running" =>
           worker = "none" /\ (profile = "bsc" => driver /\ ~leaked)]_vars

\* SIGTERM ends the supervisor, also with a worker that ignores it.
StopHonoured == stop_requested ~> pc = "exited"

\* SIGHUP is acted on, or the run ends for another reason.
ReloadHonoured == restart_requested ~> (~restart_requested \/ pc = "exited")

\* A worker that ended is noticed, also when it ends between the check of its
\* status and the poll.
WorkerEndNoticed == Zombie ~> ~Zombie

=============================================================================
