----------------------- MODULE DeviceSupervisorProofs -----------------------
(***************************************************************************)
(* The safety properties of DeviceSupervisor, for every set of profiles    *)
(* and faults.                                                             *)
(***************************************************************************)
EXTENDS DeviceSupervisor, TLAPS

\* Where run_device has a worker, and where it is still to be noticed.
WorkerInv ==
    /\ pc \in {"prepare", "open", "spawn", "unload", "remove", "decide",
               "exited"} => worker = "none"
    /\ pc \in {"loop", "poll", "drain"} => worker # "none"
    /\ pc = "reap" => ~Alive

\* Where it has loaded the driver; without a guard only a leaked one is there.
DriverInv ==
    /\ pc \in {"spawn", "loop", "poll", "drain", "term", "grace", "again",
               "reap", "unload"} => (guard <=> profile = "bsc")
    /\ pc \in {"prepare", "open", "remove", "decide", "exited"} => ~guard
    /\ guard => driver /\ ~leaked
    /\ ~guard /\ driver => leaked

\* What the run will return: after the inner loop there is a status unless a
\* signal asked for the end.
ResultInv ==
    /\ pc \in {"open", "spawn", "loop", "poll", "drain"} => status = "none"
    /\ pc \in {"term", "grace", "again", "reap", "unload", "remove", "decide"}
           /\ status = "none" => Asked
    /\ pc = "decide" => rundir = "absent"
    /\ pc = "exited" /\ ~failed =>
           /\ rundir = "absent"
           /\ stop_requested \/ status = "ok"
    /\ pc # "exited" => ~failed

IInv == TypeOK /\ WorkerInv /\ DriverInv /\ ResultInv

-----------------------------------------------------------------------------

\* The initial states: a start of the service with nothing left behind.
LEMMA InitInv == Init => IInv
  BY DeviceAssumption
     DEF Init, IInv, TypeOK, WorkerInv, DriverInv, ResultInv, Resources,
         Points, Alive, Asked

USE DEF flagVars, driverVars, workerVars, runVars, IInv, TypeOK, Points,
        Resources

\* Preparing, opening and spawning: the start of one run.
LEMMA StartSteps ==
  ASSUME IInv, Prepare \/ OpenResource \/ StartFails \/ Spawn
  PROVE  IInv'
  <1>1. TypeOK'
    <2>1. CASE Prepare  BY <2>1 DEF Prepare
    <2>2. CASE OpenResource
      <3>1. CASE profile = "bsc"  BY <2>2, <3>1 DEF OpenResource
      <3>2. CASE profile # "bsc"  BY <2>2, <3>2 DEF OpenResource
      <3> QED  BY <3>1, <3>2
    <2>3. CASE StartFails
      <3>1. driver' \in BOOLEAN
        BY <2>3 DEF StartFails
      <3> QED  BY <2>3, <3>1 DEF StartFails
    <2>4. CASE Spawn  BY <2>4 DEF Spawn
    <2> QED  BY <2>1, <2>2, <2>3, <2>4
  <1>2. WorkerInv'
    <2>1. CASE Prepare  BY <2>1 DEF Prepare, WorkerInv
    <2>2. CASE OpenResource  BY <2>2 DEF OpenResource, WorkerInv
    <2>3. CASE StartFails  BY <2>3 DEF StartFails, WorkerInv
    <2>4. CASE Spawn  BY <2>4 DEF Spawn, WorkerInv
    <2> QED  BY <2>1, <2>2, <2>3, <2>4
  <1>3. DriverInv'
    <2>1. CASE Prepare  BY <2>1 DEF Prepare, DriverInv
    <2>2. CASE OpenResource  BY <2>2 DEF OpenResource, DriverInv
    <2>3. CASE StartFails  BY <2>3 DEF StartFails, DriverInv
    <2>4. CASE Spawn  BY <2>4 DEF Spawn, DriverInv
    <2> QED  BY <2>1, <2>2, <2>3, <2>4
  <1>4. ResultInv'
    <2>1. CASE Prepare  BY <2>1 DEF Prepare, ResultInv
    <2>2. CASE OpenResource  BY <2>2 DEF OpenResource, ResultInv
    <2>3. CASE StartFails  BY <2>3 DEF StartFails, ResultInv
    <2>4. CASE Spawn  BY <2>4 DEF Spawn, ResultInv
    <2> QED  BY <2>1, <2>2, <2>3, <2>4
  <1> QED  BY <1>1, <1>2, <1>3, <1>4

\* The inner loop.
LEMMA LoopSteps ==
  ASSUME IInv, LoopTop \/ Poll \/ DrainSignals
  PROVE  IInv'
  <1>1. CASE LoopTop
    <2>1. TypeOK'  BY <1>1 DEF LoopTop, Ended, Zombie, Reaps
    <2>2. WorkerInv'  BY <1>1 DEF LoopTop, Ended, Zombie, Reaps, WorkerInv
    <2>3. DriverInv'  BY <1>1 DEF LoopTop, DriverInv
    <2>4. ResultInv'
      BY <1>1 DEF LoopTop, Asked, Ended, Zombie, Reaps, ResultInv
    <2> QED  BY <2>1, <2>2, <2>3, <2>4
  <1>2. CASE Poll  BY <1>2 DEF Poll, WorkerInv, DriverInv, ResultInv
  <1>3. CASE DrainSignals
    BY <1>3 DEF DrainSignals, WorkerInv, DriverInv, ResultInv, Asked
  <1> QED  BY <1>1, <1>2, <1>3

\* stop_worker: whatever it takes, the worker is reaped before "unload".
LEMMA StopSteps ==
  ASSUME IInv, Terminate \/ Reaped \/ GraceOver \/ AgainOver
  PROVE  IInv'
  <1>1. CASE Terminate
    <2>1. worker' \in {"none", "running", "deaf"} /\ termed' \in BOOLEAN
      <3>1. CASE Zombie  BY <1>1, <3>1 DEF Terminate, Zombie, Reaps
      <3>2. CASE ~Zombie
        <4>1. Alive \in BOOLEAN  BY DEF Alive
        <4> QED  BY <1>1, <3>2, <4>1 DEF Terminate, Zombie
      <3> QED  BY <3>1, <3>2
    <2>2. TypeOK'  BY <1>1, <2>1 DEF Terminate, AfterTerm
    <2>3. WorkerInv'  BY <1>1 DEF Terminate, AfterTerm, WorkerInv
    <2>4. DriverInv'  BY <1>1 DEF Terminate, AfterTerm, DriverInv
    <2>5. ResultInv'  BY <1>1 DEF Terminate, AfterTerm, ResultInv, Asked
    <2> QED  BY <2>2, <2>3, <2>4, <2>5
  <1>2. CASE Reaped
    BY <1>2 DEF Reaped, Alive, Reaps, WorkerInv, DriverInv, ResultInv, Asked
  <1>3. CASE GraceOver
    BY <1>3 DEF GraceOver, WorkerInv, DriverInv, ResultInv, Asked
  <1>4. CASE AgainOver
    BY <1>4 DEF AgainOver, Kill, Alive, WorkerInv, DriverInv, ResultInv, Asked
  <1> QED  BY <1>1, <1>2, <1>3, <1>4

\* The end of a run: unload, remove, decide.
LEMMA EndSteps ==
  ASSUME IInv, Unload \/ UnloadFails \/ RemoveRundir \/ Decide
  PROVE  IInv'
  <1>1. CASE Unload
    <2>1. TypeOK'  BY <1>1 DEF Unload, UnloadsDriver
    <2>2. WorkerInv'  BY <1>1 DEF Unload, WorkerInv, Alive
    <2>3. DriverInv'  BY <1>1 DEF Unload, UnloadsDriver, DriverInv
    <2>4. ResultInv'  BY <1>1 DEF Unload, ResultInv, Asked
    <2> QED  BY <2>1, <2>2, <2>3, <2>4
  <1>2. CASE UnloadFails
    BY <1>2 DEF UnloadFails, WorkerInv, DriverInv, ResultInv
  <1>3. CASE RemoveRundir
    BY <1>3 DEF RemoveRundir, WorkerInv, DriverInv, ResultInv, Asked
  <1>4. CASE Decide
    <2>1. TypeOK'
      <3>1. ExitFails \in BOOLEAN  BY DEF ExitFails
      <3>2. failed' \in BOOLEAN  BY <1>4, <3>1 DEF Decide
      <3>3. pc' \in Points /\ profile' \in Resources  BY <1>4 DEF Decide
      <3>4. restart_requested' \in BOOLEAN  BY <1>4 DEF Decide
      <3>5. UNCHANGED <<status, guard, stop_requested, wakeup, disk,
                        driverVars, rundir, workerVars>>
        BY <1>4 DEF Decide
      <3> QED  BY <3>2, <3>3, <3>4, <3>5
    <2>2. WorkerInv'  BY <1>4 DEF Decide, WorkerInv
    <2>3. DriverInv'  BY <1>4 DEF Decide, DriverInv, WorkerInv
    <2>4. ResultInv'  BY <1>4 DEF Decide, ExitFails, Asked, ResultInv
    <2> QED  BY <2>1, <2>2, <2>3, <2>4
  <1> QED  BY <1>1, <1>2, <1>3, <1>4

\* The worker ends or misbehaves wherever it runs.
LEMMA WorkerSteps ==
  ASSUME IInv, WorkerStep
  PROVE  IInv'
  <1>1. ASSUME NEW how \in {"ok", "bad"}, worker = "running", WorkerEnds(how)
        PROVE  IInv'
    <2>1. pc' \in Points /\ wakeup' \in BOOLEAN
          /\ (pc' = pc \/ (pc = "poll" /\ pc' = "loop"))
      BY <1>1 DEF WorkerEnds, ChildChanged, Wakes
    <2>2. TypeOK'  BY <1>1, <2>1 DEF WorkerEnds
    <2>3. WorkerInv'  BY <1>1, <2>1 DEF WorkerEnds, WorkerInv, Alive
    <2>4. DriverInv'  BY <1>1, <2>1 DEF WorkerEnds, DriverInv
    <2>5. ResultInv'  BY <1>1, <2>1 DEF WorkerEnds, ResultInv, Asked
    <2> QED  BY <2>2, <2>3, <2>4, <2>5
  <1>2. CASE WorkerGoesDeaf
    BY <1>2 DEF WorkerGoesDeaf, Alive, WorkerInv, DriverInv, ResultInv, Asked
  <1>3. CASE WorkerLitters
    BY <1>3 DEF WorkerLitters, Alive, WorkerInv, DriverInv, ResultInv, Asked
  <1> QED
    BY <1>1, <1>2, <1>3 DEF WorkerStep, WorkerExits, WorkerFails, WorkerObeys

\* The service manager and the operator.
LEMMA ServiceSteps ==
  ASSUME IInv, ServiceStep
  PROVE  IInv'
  <1>1. CASE Sigterm \/ Sighup
    <2>1. pc' \in Points /\ wakeup' \in BOOLEAN
          /\ (pc' = pc \/ (pc = "poll" /\ pc' = "loop"))
          /\ UNCHANGED <<runVars, disk, driverVars, rundir, workerVars>>
      BY <1>1 DEF Sigterm, Sighup, Interrupts, Wakes
    <2>2. /\ stop_requested' \in BOOLEAN /\ restart_requested' \in BOOLEAN
          /\ stop_requested => stop_requested'
          /\ Asked => Asked'
          /\ pc # "exited"
      BY <1>1 DEF Sigterm, Sighup, Asked
    <2>3. TypeOK'  BY <2>1, <2>2
    <2>4. WorkerInv'  BY <2>1 DEF WorkerInv, Alive
    <2>5. DriverInv'  BY <2>1 DEF DriverInv
    <2>6. ResultInv'  BY <2>1, <2>2 DEF ResultInv
    <2> QED  BY <2>3, <2>4, <2>5, <2>6
  <1>2. CASE Crash  BY <1>2 DEF Crash, WorkerInv, DriverInv, ResultInv
  <1>3. CASE ServiceRestart
    BY <1>3 DEF ServiceRestart, WorkerInv, DriverInv, ResultInv
  <1>4. ASSUME NEW p \in Profiles, EditProfile(p)
        PROVE  IInv'
    BY <1>4 DEF EditProfile, WorkerInv, DriverInv, ResultInv, Asked, Alive
  <1> QED  BY <1>1, <1>2, <1>3, <1>4 DEF ServiceStep

\* IInv is inductive.
LEMMA StepInv == IInv /\ [Next]_vars => IInv'
  <1> SUFFICES ASSUME IInv, [Next]_vars
               PROVE  IInv'
    OBVIOUS
  <1>1. CASE SupervisorStep
    BY <1>1, StartSteps, LoopSteps, StopSteps, EndSteps DEF SupervisorStep
  <1>2. CASE WorkerStep  BY <1>2, WorkerSteps
  <1>3. CASE ServiceStep  BY <1>3, ServiceSteps
  <1>4. CASE UNCHANGED vars
    BY <1>4 DEF vars, WorkerInv, DriverInv, ResultInv, Asked, Alive
  <1> QED  BY <1>1, <1>2, <1>3, <1>4 DEF Next, Stopped

\* Type correctness and the invariant in every reachable state.
THEOREM DeviceInvariance == Spec => []IInv
  BY InitInv, StepInv, PTL DEF Spec

\* Every variable keeps its type, through reloads, crashes and restarts.
THEOREM DeviceTypes == Spec => []TypeOK
  <1>1. IInv => TypeOK
    OBVIOUS
  <1> QED  BY <1>1, DeviceInvariance, PTL

-----------------------------------------------------------------------------

\* A live worker has the resource its profile names: run_device's driver is loaded
\* for it, and no other.
THEOREM ResourceGranted == Spec => []WorkerHasItsResource
  <1>1. IInv => WorkerHasItsResource
    BY DEF WorkerInv, DriverInv, WorkerHasItsResource
  <1> QED  BY <1>1, DeviceInvariance, PTL

\* stop_worker has reaped the worker before DriverGuard::unload.
THEOREM DeviceClosed == Spec => []ClosedBeforeUnload
  <1>1. IInv => ClosedBeforeUnload
    BY DEF WorkerInv, ClosedBeforeUnload
  <1> QED  BY <1>1, DeviceInvariance, PTL

\* run_device returns Ok only after a stop or a worker's success.
THEOREM SuccessEarned == Spec => []SuccessIsEarned
  <1>1. IInv => SuccessIsEarned
    BY DEF ResultInv, SuccessIsEarned
  <1> QED  BY <1>1, DeviceInvariance, PTL

\* An Ok leaves no worker, no driver and no runtime directory behind.
THEOREM DeviceCleanup == Spec => []CleanExit
  <1>1. IInv => CleanExit
    BY DEF WorkerInv, DriverInv, ResultInv, CleanExit
  <1> QED  BY <1>1, DeviceInvariance, PTL

\* Only Spawn starts a worker, and only where there is none and its driver is
\* the run's own.
THEOREM OneDeviceWorker == Spec => OneWorkerAtATime
  <1> DEFINE Started ==
        worker' = "running" /\ worker # "running" =>
            worker = "none" /\ (profile = "bsc" => driver /\ ~leaked)
  <1>1. IInv /\ [Next]_vars => [Started]_vars
    <2> SUFFICES ASSUME IInv, Next, worker' = "running", worker # "running"
                 PROVE  worker = "none"
                        /\ (profile = "bsc" => driver /\ ~leaked)
      BY DEF vars
    <2>1. CASE SupervisorStep
      <3>1. Spawn
        BY <2>1
           DEF SupervisorStep, Prepare, OpenResource, StartFails, LoopTop,
               Reaps, Poll, DrainSignals, Terminate, Reaped, GraceOver,
               AgainOver, Kill, Unload, UnloadFails, RemoveRundir, Decide
      <3> QED  BY <3>1 DEF Spawn, WorkerInv, DriverInv
    <2>2. CASE WorkerStep
      BY <2>2 DEF WorkerStep, WorkerExits, WorkerFails, WorkerObeys,
                  WorkerGoesDeaf, WorkerLitters
    <2>3. CASE ServiceStep
      BY <2>3 DEF ServiceStep, Sigterm, Sighup, Interrupts, EditProfile,
                  Crash, ServiceRestart
    <2>4. CASE Stopped  BY <2>4 DEF Stopped, vars
    <2> QED  BY <2>1, <2>2, <2>3, <2>4 DEF Next
  <1> QED  BY <1>1, DeviceInvariance, PTL DEF Spec, OneWorkerAtATime

=============================================================================
