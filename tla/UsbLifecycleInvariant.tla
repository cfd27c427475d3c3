------------------------ MODULE UsbLifecycleInvariant -----------------------
(***************************************************************************)
(* The inductive invariant behind the safety properties of UsbLifecycle:   *)
(* what holds at each program point of the supervisor, whoever got in      *)
(* between.  Each part is preserved by every action, given all of them.    *)
(***************************************************************************)
EXTENDS UsbLifecycleQueues

-----------------------------------------------------------------------------
Serves == {"serve", "poll", "drain", "signals", "control", "ep0",
           "forwardBus", "readData", "forwardSetup", "awaitControl", "stall",
           "answer"}
Builds == {"populate", "mount", "publish", "link", "sendEndpoints",
           "awaitServing", "dwell", "bind", "persist"}
Links == {"link", "sendEndpoints", "awaitServing", "dwell", "bind", "persist"}

\* Which caller can be at which program point, and that an error, a refused
\* teardown call first of all, leads to cleanup and nowhere else.
TaskInv ==
    /\ pc = "setup" => task = "setup"
    /\ pc = "reload" => task = "reload"
    /\ pc \in Serves => task = "serve"
    /\ pc \in {"stale", "start", "awaitConfigure"} =>
           task \in {"setup", "restart", "reload"}
    /\ pc = "configure" => task \in {"setup", "restart", "reload", "serve"}
    /\ pc \in {"unbind", "sendQuiesce", "awaitQuiesced", "stopUsb"} =>
           task \in {"replace", "detach", "restart", "reload", "cleanup"}
    /\ pc = "stopWorker" => task \in {"restart", "reload", "cleanup"}
    /\ pc \in Builds => task \in {"setup", "restart", "reload", "replace"}
    /\ pc = "exited" => task \in {"setup", "cleanup"}
    /\ failed => task = "cleanup" \/ pc = "exited"
    /\ denied # {} => failed

\* Where the supervisor has a worker and a channel, and where it has none; a
\* worker without a handle is one that could not be stopped.
LinkInv ==
    /\ control => child \/ pc = "exited"
    /\ ~child => wproc = "none" \/ "stop" \in denied
    /\ pc \in Serves \cup Builds
              \cup {"awaitConfigure", "configure", "reload", "awaitQuiesced"}
           => control
    /\ pc \in {"unbind", "sendQuiesce", "stopUsb"}
           /\ task \in {"replace", "detach"} => control
    /\ pc = "stopWorker" => ~control
    /\ pc \in {"setup", "stale", "start"} => ~control
    /\ pc = "stopUsb" /\ task \in {"restart", "reload", "cleanup"} =>
           ~control /\ (wproc = "none" \/ "stop" \in denied)
    /\ pc \in {"setup", "stale", "start"} => wproc = "none"
    /\ pc = "exited" =>
           wproc = "none" \/ (task = "cleanup" /\ "stop" \in denied)
    /\ pc = "exited" /\ task = "cleanup" => ~control

\* What a worker can still hold, and what an answer to Quiesce is worth.
QuiesceInv ==
    /\ PeerClosed => ~wfiles /\ toWorker = <<>>
    /\ ~control => toSup = <<>>
    /\ control /\ QuiesceQueued =>
           pc = "awaitQuiesced" /\ QuiesceLast
    /\ QuiescedAnswer =>
           pc = "awaitQuiesced" /\ toWorker = <<>> /\ ~wfiles
    /\ QuiescedOnce
    /\ pc = "stopUsb" => (toWorker = <<>> /\ ~wfiles) \/ "stop" \in denied

\* What an answer to UsbEndpoints is worth, and that it stays worth it.
ServesGeneration ==
    wfiles /\ wgen = generation /\ wphase \in {"serving", "ejecting"}

ServingInv ==
    /\ bound /\ ~PeerClosed => ServesGeneration \/ "unbind" \in denied
    /\ ~control /\ ~PeerClosed => ~bound \/ "unbind" \in denied
    /\ BootQueued =>
           /\ ~bound
           /\ task # "cleanup" => /\ pc = "awaitConfigure"
                                 /\ wphase = "boot" /\ toSup = <<>>
                                 /\ Len(toWorker) = 1
    /\ EndpointsQueued =>
           /\ ~bound
           /\ task # "cleanup" => /\ pc = "awaitServing"
                                 /\ EndpointsLast
                                 /\ EndpointsCurrent
    /\ ServingAnswer /\ task # "cleanup" =>
           /\ pc = "awaitServing" /\ toWorker = <<>>
           /\ ~PeerClosed => ServesGeneration
           /\ ServingOnce
    /\ pc \in {"dwell", "bind"} =>
           toWorker = <<>> /\ (~PeerClosed => ServesGeneration)

\* What the supervisor believes of the kernel objects.
ObjectInv ==
    /\ bound => gadget
    /\ pc \in {"setup", "stale"} =>
           ~owns_gadget /\ ~functionfs_mounted /\ ~usb
    /\ BeliefMatchesKernel
    /\ pc = "start" => ~gadget /\ ~mounted
    /\ pc \in {"setup", "stale", "start"} => generation = 0
    /\ pc \in {"sendQuiesce", "awaitQuiesced", "stopWorker", "stopUsb"} =>
           ~bound \/ "unbind" \in denied
    /\ pc \in Builds \ {"persist"} => ~bound
    /\ pc \in Builds \ {"populate"} => gadget
    /\ pc \in Links \cup {"publish"} => mounted
    /\ pc \in Links => usb
    /\ pc \in {"ep0", "forwardBus", "readData", "forwardSetup",
               "awaitControl", "stall", "answer"} => usb
    /\ pc \in {"drain", "signals"} /\ "ep0" \in ready => usb
    /\ pc = "exited" /\ task = "cleanup" =>
           /\ gadget => "remove" \in denied
           /\ mounted => denied \cap {"umount", "sweep"} # {}
           /\ bound => {"unbind", "remove"} \subseteq denied

\* An unbind that is less than 250 ms old is recorded, or was an ejection or
\* not the supervisor's.
DwellInv ==
    /\ off = "recent" /\ pc # "exited" => detached_at \/ cause # "unbind"
    /\ pc = "bind" => ~detached_at

IInv == TypeOK /\ TaskInv /\ LinkInv /\ QuiesceInv /\ ServingInv
            /\ ObjectInv /\ DwellInv

-----------------------------------------------------------------------------
(* Each part is preserved.                                                 *)

\* Every step of the worker's side, its faults and the escalation included.
WorkerMove ==
    \/ WorkerStep \/ WorkerExits \/ WorkerWedges \/ WorkerGarbles
    \/ EscalateStop

\* The worker changes nothing of the supervisor, the kernel objects and time.
LEMMA WorkerFrame ==
    ASSUME WorkerMove
    PROVE  UNCHANGED <<controlVars, objectVars, linkVars, counterVars,
                       kernelVars, udcVars>>
<1>1. WorkerHandles => UNCHANGED notWorker
  BY DEF WorkerHandles, WorkerBoots, WorkerRejected, WorkerQuiesces,
         WorkerInstalls, WorkerAnswers, WorkerNotes
<1>2. ASSUME NEW id \in ConfigIds, NEW body \in Bodies,
             WorkerDeclares(id, body)
      PROVE  UNCHANGED notWorker
  BY <1>2 DEF WorkerDeclares
<1>3. WorkerWedges \/ WorkerGarbles => UNCHANGED notWorker
  BY DEF WorkerWedges, WorkerGarbles
<1> QED
  BY <1>1, <1>2, <1>3
     DEF WorkerMove, WorkerStep, WorkerEof, WorkerExits, WorkerEnds,
         EscalateStop, notWorker

\* Every jump of the supervisor keeps caller and program point in step.
LEMMA TaskInvStep == IInv /\ [Next]_vars => TaskInv'
<1> SUFFICES ASSUME IInv, [Next]_vars PROVE TaskInv'
  OBVIOUS
<1> USE DEF IInv, TaskInv, Builds, Serves, controlVars, udcVars, ChannelOnly,
    ControlOnly, ReceiveOnly
<1>1. CASE Setup
  BY <1>1 DEF Setup, Goto
<1>2. CASE CleanupStale
  BY <1>2 DEF CleanupStale, Fail, Goto, SweepFailed, UnboundByKernel,
      objectVars
<1>3. CASE StartWorker
  BY <1>3 DEF StartWorker, Goto
<1>4. CASE StartWorkerFails
  BY <1>4 DEF StartWorkerFails, Fail
<1>5. CASE AwaitConfigure
  BY <1>5 DEF AwaitConfigure, Fail
<1>6. CASE ConfigureMismatch
  BY <1>6 DEF ConfigureMismatch, Fail, Initial
<1>7. CASE ConfigureAbsent
  BY <1>7 DEF ConfigureAbsent, Resume, Initial
<1>8. CASE ConfigureDetach
  BY <1>8 DEF ConfigureDetach, Begin
<1>9. CASE ConfigureReject
  BY <1>9 DEF ConfigureReject, Fail, Resume, Initial
<1>10. CASE ConfigureReplace
  BY <1>10 DEF ConfigureReplace, Begin, Initial
<1>11. CASE Unbind
  <2>1. CASE Goto(AfterUnbind) /\ UNCHANGED denied
    BY <1>11, <2>1 DEF Unbind, Goto, AfterUnbind
  <2>2. CASE FailOr(AfterUnbind)
    BY <1>11, <2>2 DEF Unbind, FailOr, Fail, AfterUnbind
  <2> QED BY <1>11, <2>1, <2>2 DEF Unbind
<1>12. CASE QuiesceSkipped
  BY <1>12 DEF QuiesceSkipped, Goto, LinkInv
<1>13. CASE SendQuiesce
  BY <1>13 DEF SendQuiesce, Goto
<1>14. CASE Quiesced
  BY <1>14 DEF Quiesced, Goto
<1>15. CASE QuiesceFails
  BY <1>15 DEF QuiesceFails, Fail, FailOr
<1>16. CASE StopWorker
  BY <1>16 DEF StopWorker, Goto, FailOr, Fail
<1>17. CASE StopUsb
  BY <1>17 DEF StopUsb, Fail, Goto, Resume, AfterStopUsb, StopUsbRefusing,
      FailOr, UnboundByKernel
<1>18. CASE GenerationOverflow
  BY <1>18 DEF GenerationOverflow, Fail
<1>19. CASE PopulateGadget
  BY <1>19 DEF PopulateGadget, Fail, Goto, Attempt
<1>20. CASE MountFunctionfs
  BY <1>20 DEF MountFunctionfs, Fail, Goto
<1>21. CASE PublishFunctionfs
  BY <1>21 DEF PublishFunctionfs, Fail, Goto
<1>22. CASE LinkFunction
  BY <1>22 DEF LinkFunction, Fail, Goto, Attempt
<1>23. CASE SendEndpoints
  BY <1>23 DEF SendEndpoints, Fail, Goto
<1>24. CASE AwaitServing
  BY <1>24 DEF AwaitServing, Fail, Goto
<1>25. CASE Dwell
  BY <1>25 DEF Dwell, Goto
<1>26. CASE BindUdc
  BY <1>26 DEF BindUdc, Fail, Goto
<1>27. CASE Persist
  BY <1>27 DEF Persist, Fail, Resume
<1>28. CASE ServeTop
  BY <1>28 DEF ServeTop, Goto, Begin
<1>29. CASE Poll
  BY <1>29 DEF Poll
<1>30. CASE DrainSignals
  BY <1>30 DEF DrainSignals, Goto
<1>31. CASE DispatchSignals
  BY <1>31 DEF DispatchSignals, Goto, Begin, Resume
<1>32. CASE ServeControl
  BY <1>32 DEF ServeControl, Fail, Begin
<1>33. CASE Reload
  BY <1>33 DEF Reload, Fail, Goto
<1>34. CASE Ep0Drained
  BY <1>34 DEF Ep0Drained, Resume
<1>35. ASSUME NEW e \in EventKinds, Ep0Event(e) PROVE TaskInv'
  BY <1>35 DEF Ep0Event, Goto
<1>36. CASE ForwardBusEvent
  BY <1>36 DEF ForwardBusEvent, Fail, Goto
<1>37. CASE SetupSuperseded
  BY <1>37 DEF SetupSuperseded, Transfers, Goto
<1>38. CASE ForwardControlRequest
  BY <1>38 DEF ForwardControlRequest, Fail, Goto
<1>39. CASE AwaitControl
  BY <1>39 DEF AwaitControl, Fail, Goto
<1>40. CASE StallEp0
  BY <1>40 DEF StallEp0, Fail, Goto, Attempt
<1>41. CASE TransferEp0
  BY <1>41 DEF TransferEp0, Transfers, Fail, Goto, Attempt
<1>42. CASE Crash
  BY <1>42 DEF Crash
<1>43. CASE Tick
  BY <1>43 DEF Tick, controlVars
<1>44. CASE Sigterm
  BY <1>44 DEF Sigterm, controlVars, Goto, Interrupts
<1>45. CASE Sighup
  BY <1>45 DEF Sighup, controlVars, Goto, Interrupts
<1>46. CASE ServiceRestart
  BY <1>46 DEF ServiceRestart, WorkerGone, kernelVars
<1>47. ASSUME NEW e \in Events, HostEvent(e) PROVE TaskInv'
  BY <1>47 DEF HostEvent, controlVars
<1>48. CASE WorkerMove
  BY <1>48, WorkerFrame DEF controlVars
<1>49. CASE UNCHANGED vars
  BY <1>49 DEF vars, controlVars, objectVars, linkVars, counterVars,
      kernelVars, udcVars, workerVars, chanVars, PeerClosed
<1> QED BY ONLY [Next]_vars, <1>1, <1>2, <1>3, <1>4, <1>5, <1>6, <1>7, <1>8,
    <1>9, <1>10, <1>11, <1>12, <1>13, <1>14, <1>15, <1>16, <1>17, <1>18,
    <1>19, <1>20, <1>21, <1>22, <1>23, <1>24, <1>25, <1>26, <1>27, <1>28,
    <1>29, <1>30, <1>31, <1>32, <1>33, <1>34, <1>35, <1>36, <1>37, <1>38,
    <1>39, <1>40, <1>41, <1>42, <1>43, <1>44, <1>45, <1>46, <1>47, <1>48,
    <1>49 DEF
    Next, SupervisorStep, WorkerMove, FaultStep, EnvironmentStep, Terminated

\* The worker handle and the channel are there at every point that uses them.
LEMMA LinkInvStep == IInv /\ [Next]_vars => LinkInv'
<1> SUFFICES ASSUME IInv, [Next]_vars PROVE LinkInv'
  OBVIOUS
<1> USE DEF IInv, TaskInv, LinkInv, Builds, Serves, controlVars, udcVars,
    PeerClosed
<1>1. CASE Setup
  BY <1>1 DEF Setup, linkVars, workerVars, ChannelOnly, ControlOnly, Goto
<1>2. CASE CleanupStale
  BY <1>2 DEF CleanupStale, linkVars, workerVars, Fail, Goto, SweepFailed,
      UnboundByKernel, objectVars
<1>3. CASE StartWorker
  BY <1>3 DEF StartWorker, Goto
<1>4. CASE StartWorkerFails
  BY <1>4 DEF StartWorkerFails, linkVars, workerVars, ChannelOnly,
      ControlOnly, Fail
<1>5. CASE AwaitConfigure
  BY <1>5 DEF AwaitConfigure, linkVars, workerVars, ReceiveOnly, Fail
<1>6. CASE ConfigureMismatch
  BY <1>6 DEF ConfigureMismatch, linkVars, workerVars, ChannelOnly,
      ControlOnly, Fail, Initial
<1>7. CASE ConfigureAbsent
  BY <1>7 DEF ConfigureAbsent, workerVars, Resume, Initial
<1>8. CASE ConfigureDetach
  BY <1>8 DEF ConfigureDetach, linkVars, workerVars, ChannelOnly, ControlOnly,
      Begin
<1>9. CASE ConfigureReject
  BY <1>9 DEF ConfigureReject, linkVars, workerVars, ChannelOnly, Fail,
      Resume, Initial, PeerClosed, SendFails
<1>10. CASE ConfigureReplace
  BY <1>10 DEF ConfigureReplace, workerVars, Begin, Initial
<1>11. CASE Unbind
  BY <1>11 DEF Unbind, workerVars, Goto, CloseControl, AfterUnbind, FailOr,
      Fail, UnboundByKernel
<1>12. CASE QuiesceSkipped
  BY <1>12 DEF QuiesceSkipped, linkVars, workerVars, ChannelOnly, ControlOnly,
      Goto
<1>13. CASE SendQuiesce
  BY <1>13 DEF SendQuiesce, workerVars, Goto, PeerClosed, CanSend, Send
<1>14. CASE Quiesced
  BY <1>14 DEF Quiesced, workerVars, Goto, CloseControl
<1>15. CASE QuiesceFails
  BY <1>15 DEF QuiesceFails, workerVars, Fail, PeerClosed, SendFails,
      CloseControl, FailOr
<1>16. CASE StopWorker
  BY <1>16 DEF StopWorker, Goto, PeerClosed, Reaped, FailOr, Fail
<1>17. CASE StopUsb
  BY <1>17 DEF StopUsb, linkVars, workerVars, Fail, Goto, Resume,
      AfterStopUsb, StopUsbRefusing, FailOr, UnboundByKernel
<1>18. CASE GenerationOverflow
  BY <1>18 DEF GenerationOverflow, linkVars, workerVars, ChannelOnly,
      ControlOnly, Fail
<1>19. CASE PopulateGadget
  BY <1>19 DEF PopulateGadget, linkVars, workerVars, Fail, Goto, Attempt
<1>20. CASE MountFunctionfs
  BY <1>20 DEF MountFunctionfs, linkVars, workerVars, Fail, Goto
<1>21. CASE PublishFunctionfs
  BY <1>21 DEF PublishFunctionfs, linkVars, workerVars, Fail, Goto
<1>22. CASE LinkFunction
  BY <1>22 DEF LinkFunction, linkVars, workerVars, ChannelOnly, ControlOnly,
      Fail, Goto, Attempt
<1>23. CASE SendEndpoints
  BY <1>23 DEF SendEndpoints, linkVars, workerVars, ChannelOnly, Fail, Goto,
      PeerClosed, CanSend, Send, SendFails
<1>24. CASE AwaitServing
  BY <1>24 DEF AwaitServing, linkVars, workerVars, ReceiveOnly, Fail, Goto
<1>25. CASE Dwell
  BY <1>25 DEF Dwell, linkVars, workerVars, Goto
<1>26. CASE BindUdc
  BY <1>26 DEF BindUdc, linkVars, workerVars, Fail, Goto
<1>27. CASE Persist
  BY <1>27 DEF Persist, workerVars, Fail, Resume
<1>28. CASE ServeTop
  BY <1>28 DEF ServeTop, linkVars, Goto, Begin, PeerClosed
<1>29. CASE Poll
  BY <1>29 DEF Poll, linkVars, workerVars, ChannelOnly, ControlOnly
<1>30. CASE DrainSignals
  BY <1>30 DEF DrainSignals, linkVars, workerVars, Goto
<1>31. CASE DispatchSignals
  BY <1>31 DEF DispatchSignals, linkVars, workerVars, Goto, Begin, Resume
<1>32. CASE ServeControl
  BY <1>32 DEF ServeControl, linkVars, workerVars, ChannelOnly, Fail, Begin,
      PeerClosed
<1>33. CASE Reload
  BY <1>33 DEF Reload, linkVars, workerVars, ChannelOnly, ControlOnly, Fail,
      Goto
<1>34. CASE Ep0Drained
  BY <1>34 DEF Ep0Drained, linkVars, workerVars, ChannelOnly, ControlOnly,
      Resume
<1>35. ASSUME NEW e \in EventKinds, Ep0Event(e) PROVE LinkInv'
  BY <1>35 DEF Ep0Event, linkVars, workerVars, Goto
<1>36. CASE ForwardBusEvent
  BY <1>36 DEF ForwardBusEvent, linkVars, workerVars, ChannelOnly, Fail, Goto,
      PeerClosed, CanSend, Send, SendFails
<1>37. CASE SetupSuperseded
  BY <1>37 DEF SetupSuperseded, Transfers, linkVars, workerVars, ChannelOnly,
      ControlOnly, Goto
<1>38. CASE ForwardControlRequest
  BY <1>38 DEF ForwardControlRequest, workerVars, Fail, Goto, PeerClosed,
      CanSend, Send, SendFails
<1>39. CASE AwaitControl
  BY <1>39 DEF AwaitControl, workerVars, Fail, Goto
<1>40. CASE StallEp0
  BY <1>40 DEF StallEp0, linkVars, workerVars, ChannelOnly, ControlOnly,
      Fail, Goto, Attempt
<1>41. CASE TransferEp0
  BY <1>41 DEF TransferEp0, Transfers, linkVars, workerVars, ChannelOnly,
      ControlOnly,
      Fail, Goto, Attempt
<1>42. CASE WorkerBoots
  BY <1>42 DEF WorkerBoots, controlVars, linkVars, Takes, notWorker
<1>43. CASE WorkerRejected
  BY <1>43 DEF WorkerRejected, controlVars, linkVars, Takes, notWorker
<1>44. CASE WorkerQuiesces
  BY <1>44 DEF WorkerQuiesces, controlVars, linkVars, Takes, notWorker
<1>45. CASE WorkerInstalls
  BY <1>45 DEF WorkerInstalls, controlVars, linkVars, Takes, notWorker
<1>46. CASE WorkerAnswers
  BY <1>46 DEF WorkerAnswers, controlVars, linkVars, workerVars, Takes,
      notWorker
<1>47. CASE WorkerNotes
  BY <1>47 DEF WorkerNotes, controlVars, linkVars, workerVars, Takes,
      notWorker
<1>48. CASE WorkerEof
  BY <1>48 DEF WorkerEof, controlVars, linkVars, WorkerEnds
<1>49. ASSUME NEW id \in ConfigIds, NEW body \in Bodies, WorkerDeclares(id,
    body) PROVE LinkInv'
  BY <1>49 DEF WorkerDeclares, controlVars, linkVars, notWorker
<1>50. CASE WorkerExits
  BY <1>50 DEF WorkerExits, controlVars, linkVars, WorkerEnds
<1>51. CASE WorkerWedges
  BY <1>51 DEF WorkerWedges, controlVars, linkVars, notWorker
<1>52. CASE WorkerGarbles
  BY <1>52 DEF WorkerGarbles, controlVars, linkVars, workerVars, notWorker
<1>53. CASE Crash
  BY <1>53 DEF Crash, linkVars
<1>54. CASE EscalateStop
  BY <1>54 DEF EscalateStop, controlVars, linkVars
<1>55. CASE Tick
  BY <1>55 DEF Tick, controlVars, linkVars, workerVars
<1>56. CASE Sigterm
  BY <1>56 DEF Sigterm, controlVars, linkVars, workerVars, Goto, PeerClosed,
      Interrupts
<1>57. CASE Sighup
  BY <1>57 DEF Sighup, controlVars, linkVars, workerVars, Goto, PeerClosed,
      Interrupts
<1>58. CASE ServiceRestart
  BY <1>58 DEF ServiceRestart, workerVars, WorkerGone, kernelVars
<1>59. ASSUME NEW e \in Events, HostEvent(e) PROVE LinkInv'
  BY <1>59 DEF HostEvent, controlVars, linkVars, workerVars
<1>60. CASE UNCHANGED vars
  BY <1>60 DEF vars, controlVars, objectVars, linkVars, counterVars,
      kernelVars, udcVars, workerVars, chanVars, PeerClosed
<1> QED BY ONLY [Next]_vars, <1>1, <1>2, <1>3, <1>4, <1>5, <1>6, <1>7, <1>8,
    <1>9, <1>10, <1>11, <1>12, <1>13, <1>14, <1>15, <1>16, <1>17, <1>18,
    <1>19, <1>20, <1>21, <1>22, <1>23, <1>24, <1>25, <1>26, <1>27, <1>28,
    <1>29, <1>30, <1>31, <1>32, <1>33, <1>34, <1>35, <1>36, <1>37, <1>38,
    <1>39, <1>40, <1>41, <1>42, <1>43, <1>44, <1>45, <1>46, <1>47, <1>48,
    <1>49,
    <1>50, <1>51, <1>52, <1>53, <1>54, <1>55, <1>56, <1>57, <1>58, <1>59,
    <1>60 DEF Next, SupervisorStep, WorkerStep, WorkerHandles, FaultStep,
    EnvironmentStep, Terminated

\* An answer to Quiesce is the last thing a worker says before it holds nothing.
LEMMA QuiesceInvStep == IInv /\ [Next]_vars => QuiesceInv'
<1> SUFFICES ASSUME IInv, [Next]_vars PROVE QuiesceInv'
  OBVIOUS
<1> USE DEF IInv, QuiesceInv, LinkInv, TaskInv, Builds, Serves, TypeOK,
    PeerClosed, udcVars
<1>1. CASE Setup
  BY <1>1, SameToWorker, SameToSup DEF Setup, linkVars, counterVars, udcVars,
      workerVars, chanVars, ChannelOnly, ControlOnly, Goto
<1>2. CASE CleanupStale
  BY <1>2, SameToWorker, SameToSup DEF CleanupStale, linkVars, counterVars,
      workerVars, chanVars, Fail, Goto, SweepFailed, UnboundByKernel,
      objectVars
<1>3. CASE StartWorker
  BY <1>3, NoToSup, Booted DEF StartWorker, counterVars, udcVars, Goto
<1>4. CASE StartWorkerFails
  BY <1>4, SameToWorker, SameToSup DEF StartWorkerFails, linkVars,
      counterVars, udcVars, workerVars, chanVars, ChannelOnly, ControlOnly,
      Fail
<1>5. CASE AwaitConfigure
  BY <1>5, SameToWorker, SameToSup, Received, HeadType DEF AwaitConfigure,
      linkVars, counterVars, udcVars, workerVars, chanVars, ReceiveOnly, Fail,
      PeerClosed, Receives, ReceiveFails
<1>6. CASE ConfigureMismatch
  BY <1>6, SameToWorker, SameToSup DEF ConfigureMismatch, linkVars,
      counterVars, udcVars, workerVars, chanVars, ChannelOnly, ControlOnly,
      Fail, Initial
<1>7. CASE ConfigureAbsent
  BY <1>7, SameToWorker, SameToSup DEF ConfigureAbsent, counterVars, udcVars,
      workerVars, chanVars, Resume, Initial
<1>8. CASE ConfigureDetach
  BY <1>8, SameToWorker, SameToSup DEF ConfigureDetach, linkVars, counterVars,
      udcVars, workerVars, chanVars, ChannelOnly, ControlOnly, Begin
<1>9. CASE ConfigureReject
  BY <1>9, SameToWorker, SameToSup, Sent, SupervisorRecords, MessageFields,
      KindsMembers DEF ConfigureReject, linkVars, counterVars, udcVars,
      workerVars, chanVars, ChannelOnly, Fail, Resume, Initial, PeerClosed,
      SendFails, SendRejection
<1>10. CASE ConfigureReplace
  BY <1>10, SameToWorker, SameToSup DEF ConfigureReplace, counterVars,
      udcVars, workerVars, chanVars, Begin, Initial
<1>11. CASE Unbind
  BY <1>11, SameToWorker, SameToSup, NoToSup DEF Unbind, counterVars, udcVars,
      workerVars, chanVars, Goto, CloseControl, AfterUnbind, FailOr, Fail,
      UnboundByKernel
<1>12. CASE QuiesceSkipped
  BY <1>12, SameToWorker, SameToSup DEF QuiesceSkipped, linkVars, counterVars,
      udcVars, workerVars, chanVars, ChannelOnly, ControlOnly, Goto
<1>13. CASE SendQuiesce
  BY <1>13, SameToWorker, SameToSup, Sent, SupervisorRecords, MessageFields,
      KindsMembers DEF SendQuiesce, counterVars, udcVars, workerVars, Goto
<1>14. CASE Quiesced
  <2>1. /\ pc = "awaitQuiesced" /\ toSup # <<>>
        /\ Head(toSup).kind = "Quiesced"
        /\ UNCHANGED <<toWorker, wproc, wfiles, task>>
    BY <1>14 DEF Quiesced, IsQuiesced, Matches, CloseControl, Goto, workerVars
  <2>2. QuiescedAnswer
    BY <2>1, Received, SameToSup
       DEF QuiescedAnswer, Holds, ChanOK
  <2>3. toWorker' = <<>> /\ ~wfiles' /\ ~QuiesceQueued'
    BY <2>1, <2>2, NoToWorker
  <2>4. CASE task \in {"replace", "detach"}
    <3>1. toSup' = Tail(toSup) /\ UNCHANGED control
      BY <1>14, <2>4 DEF Quiesced
    <3>2. ~QuiescedAnswer' /\ QuiescedOnce'
      BY <2>1, <3>1, Received
    <3> QED BY <2>1, <2>3, <3>1, <3>2
  <2>5. CASE task \notin {"replace", "detach"}
    <3>1. toSup' = <<>> /\ pc' # "stopUsb"
      BY <1>14, <2>5 DEF Quiesced, CloseControl, Goto
    <3> QED BY <2>1, <2>3, <3>1, NoToSup
  <2> QED BY <2>4, <2>5
<1>15. CASE QuiesceFails
  BY <1>15, SameToWorker, SameToSup, NoToSup DEF QuiesceFails, counterVars,
      udcVars, workerVars, Fail, PeerClosed, SendFails, CloseControl,
      IsQuiesced, Matches, FailOr
<1>16. CASE StopWorker
  BY <1>16, SameToWorker, SameToSup DEF StopWorker, counterVars, udcVars,
      chanVars, Goto, PeerClosed, Reaped, FailOr, Fail
<1>17. CASE StopUsb
  BY <1>17, SameToWorker, SameToSup DEF StopUsb, linkVars, udcVars,
      workerVars, chanVars, Fail, Goto, Resume, AfterStopUsb,
      StopUsbRefusing, FailOr, UnboundByKernel
<1>18. CASE GenerationOverflow
  BY <1>18, SameToWorker, SameToSup DEF GenerationOverflow, linkVars,
      counterVars, udcVars, workerVars, chanVars, ChannelOnly, ControlOnly,
      Fail
<1>19. CASE PopulateGadget
  BY <1>19, SameToWorker, SameToSup DEF PopulateGadget, linkVars, udcVars,
      workerVars, chanVars, Fail, Goto, Attempt
<1>20. CASE MountFunctionfs
  BY <1>20, SameToWorker, SameToSup DEF MountFunctionfs, linkVars,
      counterVars, udcVars, workerVars, chanVars, Fail, Goto
<1>21. CASE PublishFunctionfs
  BY <1>21, SameToWorker, SameToSup DEF PublishFunctionfs, linkVars,
      counterVars, udcVars, workerVars, chanVars, Fail, Goto
<1>22. CASE LinkFunction
  BY <1>22, SameToWorker, SameToSup DEF LinkFunction, linkVars, counterVars,
      udcVars, workerVars, chanVars, ChannelOnly, ControlOnly, Fail, Goto,
      Attempt
<1>23. CASE SendEndpoints
  BY <1>23, SameToWorker, SameToSup, Sent, SupervisorRecords, MessageFields,
      KindsMembers DEF SendEndpoints, linkVars, counterVars, udcVars,
      workerVars, chanVars, ChannelOnly, Fail, Goto, PeerClosed, SendFails
<1>24. CASE AwaitServing
  BY <1>24, SameToWorker, SameToSup, Received, HeadType DEF AwaitServing,
      linkVars, counterVars, udcVars, workerVars, chanVars, ReceiveOnly, Fail,
      Goto, PeerClosed, Receives, ReceiveFails
<1>25. CASE Dwell
  BY <1>25, SameToWorker, SameToSup DEF Dwell, linkVars, counterVars,
      workerVars, chanVars, Goto
<1>26. CASE BindUdc
  BY <1>26, SameToWorker, SameToSup DEF BindUdc, linkVars, counterVars,
      workerVars, chanVars, Fail, Goto
<1>27. CASE Persist
  BY <1>27, SameToWorker, SameToSup DEF Persist, counterVars, udcVars,
      workerVars, chanVars, Fail, Resume
<1>28. CASE ServeTop
  BY <1>28, SameToWorker, SameToSup DEF ServeTop, linkVars, counterVars,
      udcVars, chanVars, Goto, Begin, PeerClosed
<1>29. CASE Poll
  BY <1>29, SameToWorker, SameToSup DEF Poll, linkVars, counterVars, udcVars,
      workerVars, chanVars, ChannelOnly, ControlOnly
<1>30. CASE DrainSignals
  BY <1>30, SameToWorker, SameToSup DEF DrainSignals, linkVars, counterVars,
      udcVars, workerVars, chanVars, Goto
<1>31. CASE DispatchSignals
  BY <1>31, SameToWorker, SameToSup DEF DispatchSignals, linkVars,
      counterVars, udcVars, workerVars, chanVars, Goto, Begin, Resume
<1>32. CASE ServeControl
  BY <1>32, SameToWorker, SameToSup, Received, HeadType DEF ServeControl,
      linkVars, counterVars, udcVars, workerVars, chanVars, ChannelOnly, Fail,
      Begin, PeerClosed
<1>33. CASE Reload
  BY <1>33, SameToWorker, SameToSup DEF Reload, linkVars, counterVars,
      udcVars, workerVars, chanVars, ChannelOnly, ControlOnly, Fail, Goto
<1>34. CASE Ep0Drained
  BY <1>34, SameToWorker, SameToSup DEF Ep0Drained, linkVars, counterVars,
      udcVars, workerVars, chanVars, ChannelOnly, ControlOnly, Resume
<1>35. ASSUME NEW e \in EventKinds, Ep0Event(e) PROVE QuiesceInv'
  BY <1>35, SameToWorker, SameToSup DEF Ep0Event, linkVars, counterVars,
      udcVars, workerVars, chanVars, Goto
<1>36. CASE ForwardBusEvent
  BY <1>36, SameToWorker, SameToSup, Sent, SupervisorRecords, MessageFields,
      KindsMembers DEF ForwardBusEvent, linkVars, counterVars, udcVars,
      workerVars, chanVars, ChannelOnly, Fail, Goto, PeerClosed, SendFails
<1>37. CASE SetupSuperseded
  BY <1>37, SameToWorker, SameToSup DEF SetupSuperseded, Transfers, linkVars,
      counterVars, udcVars, workerVars, chanVars, ChannelOnly, ControlOnly,
      Goto
<1>38. CASE ForwardControlRequest
  BY <1>38, SameToWorker, SameToSup, Sent, SupervisorRecords, MessageFields,
      KindsMembers DEF ForwardControlRequest, udcVars, workerVars, chanVars,
      Fail, Goto, PeerClosed, SendFails
<1>39. CASE AwaitControl
  BY <1>39, SameToWorker, SameToSup, Received, HeadType DEF AwaitControl,
      counterVars, udcVars, workerVars, chanVars, Fail, Goto, PeerClosed,
      Receives, ReceiveFails
<1>40. CASE StallEp0
  BY <1>40, SameToWorker, SameToSup DEF StallEp0, linkVars, counterVars,
      udcVars, workerVars, chanVars, ChannelOnly, ControlOnly, Fail, Goto,
      Attempt
<1>41. CASE TransferEp0
  BY <1>41, SameToWorker, SameToSup DEF TransferEp0, Transfers, linkVars,
      counterVars,
      udcVars, workerVars, chanVars, ChannelOnly, ControlOnly, Fail, Goto,
      Attempt
<1>42. CASE WorkerBoots
  BY <1>42, Taken, SameToSup, NoToWorker DEF WorkerBoots, controlVars,
      linkVars, counterVars, udcVars, notWorker
<1>43. CASE WorkerRejected
  BY <1>43, Taken, SameToSup, NoToWorker DEF WorkerRejected, controlVars,
      linkVars, counterVars, udcVars, notWorker
<1>44. CASE WorkerQuiesces
  BY <1>44, Taken, NoToWorker, Replied, AnswerRecord, MessageFields,
      KindsMembers DEF WorkerQuiesces, controlVars, linkVars, counterVars,
      udcVars, notWorker
<1>45. CASE WorkerInstalls
  BY <1>45, Taken, NoToWorker, Replied, AnswerRecord, MessageFields,
      KindsMembers DEF WorkerInstalls, controlVars, linkVars, counterVars,
      udcVars, notWorker
<1>46. CASE WorkerAnswers
  BY <1>46, Taken, NoToWorker, Replied, AnswerRecord, MessageFields,
      KindsMembers DEF WorkerAnswers, controlVars, linkVars, counterVars,
      udcVars, workerVars, notWorker
<1>47. CASE WorkerNotes
  BY <1>47, Taken, SameToSup, NoToWorker DEF WorkerNotes, controlVars,
      linkVars, counterVars, udcVars, workerVars, notWorker
<1>48. CASE WorkerEof
  BY <1>48, NoToWorker, SameToSup DEF WorkerEof, controlVars, linkVars,
      counterVars, udcVars, WorkerGone, WorkerEnds
<1>49. ASSUME NEW id \in ConfigIds, NEW body \in Bodies, WorkerDeclares(id,
    body) PROVE QuiesceInv'
  BY <1>49, SameToWorker, Replied, ConfigureType DEF WorkerDeclares,
      controlVars, linkVars, counterVars, udcVars, notWorker, Record
<1>50. CASE WorkerExits
  BY <1>50, NoToWorker, SameToSup DEF WorkerExits, controlVars, linkVars,
      counterVars, udcVars, WorkerGone, WorkerEnds
<1>51. CASE WorkerWedges
  BY <1>51, SameToWorker, SameToSup DEF WorkerWedges, controlVars, linkVars,
      counterVars, udcVars, chanVars, notWorker
<1>52. CASE WorkerGarbles
  BY <1>52, SameToWorker, Replied, MessageType, MessageFields, KindsMembers
      DEF WorkerGarbles, controlVars, linkVars, counterVars, udcVars,
      workerVars, notWorker
<1>53. CASE Crash
  BY <1>53, NoToWorker, NoToSup DEF Crash, linkVars, counterVars, WorkerGone
<1>54. CASE EscalateStop
  BY <1>54, NoToWorker, SameToSup DEF EscalateStop, controlVars, linkVars,
      counterVars, udcVars, WorkerGone
<1>55. CASE Tick
  BY <1>55, SameToWorker, SameToSup DEF Tick, controlVars, linkVars,
      counterVars, workerVars, chanVars
<1>56. CASE Sigterm
  BY <1>56, SameToWorker, SameToSup DEF Sigterm, controlVars, linkVars,
      counterVars, udcVars, workerVars, chanVars, Goto, PeerClosed, Interrupts
<1>57. CASE Sighup
  BY <1>57, SameToWorker, SameToSup DEF Sighup, controlVars, linkVars,
      counterVars, udcVars, workerVars, chanVars, Goto, PeerClosed, Interrupts
<1>58. CASE ServiceRestart
  BY <1>58, SameToWorker, NoToWorker, NoToSup DEF ServiceRestart, workerVars,
      WorkerGone, kernelVars
<1>59. ASSUME NEW e \in Events, HostEvent(e) PROVE QuiesceInv'
  BY <1>59, SameToWorker, SameToSup DEF HostEvent, controlVars, linkVars,
      counterVars, udcVars, workerVars, chanVars
<1>60. CASE UNCHANGED vars
  BY <1>60, SameToWorker, SameToSup DEF vars, controlVars, objectVars,
      linkVars, counterVars, kernelVars, udcVars, workerVars, chanVars,
      PeerClosed
<1> QED BY ONLY [Next]_vars, <1>1, <1>2, <1>3, <1>4, <1>5, <1>6, <1>7, <1>8,
    <1>9, <1>10, <1>11, <1>12, <1>13, <1>14, <1>15, <1>16, <1>17, <1>18,
    <1>19, <1>20, <1>21, <1>22, <1>23, <1>24, <1>25, <1>26, <1>27, <1>28,
    <1>29, <1>30, <1>31, <1>32, <1>33, <1>34, <1>35, <1>36, <1>37, <1>38,
    <1>39, <1>40, <1>41, <1>42, <1>43, <1>44, <1>45, <1>46, <1>47, <1>48,
    <1>49,
    <1>50, <1>51, <1>52, <1>53, <1>54, <1>55, <1>56, <1>57, <1>58, <1>59,
    <1>60 DEF Next, SupervisorStep, WorkerStep, WorkerHandles, FaultStep,
    EnvironmentStep, Terminated

\* After the unbind of a caller that goes on, the gadget is off the UDC, or the
\* kernel has refused.
LEMMA UnbindSplits ==
    Unbind => \/ Goto(AfterUnbind) /\ UNCHANGED denied
              \/ FailOr(AfterUnbind)
BY DEF Unbind

LEMMA UnbindFrees ==
    ASSUME IInv, Unbind, pc' # "unbind"
    PROVE  ~bound' \/ "unbind" \in denied'
BY DEF Unbind, Unbinds, Unbound, FailOr, Fail, IInv, ObjectInv,
       BeliefMatchesKernel, TaskInv

\* The worker keeps serving the generation it answered Serving for.
LEMMA ServingInvStep == IInv /\ [Next]_vars => ServingInv'
<1> SUFFICES ASSUME IInv, [Next]_vars PROVE ServingInv'
  OBVIOUS
<1> USE DEF IInv, ServesGeneration, ServingInv, QuiesceInv, LinkInv, TaskInv,
    ObjectInv, BeliefMatchesKernel, Builds, Serves, TypeOK, PeerClosed, udcVars
<1>1. CASE Setup
  BY <1>1, SameToWorker, SameToSup DEF Setup, linkVars, counterVars, udcVars,
      workerVars, chanVars, ChannelOnly, ControlOnly, Goto
<1>2. CASE CleanupStale
  BY <1>2, SameToWorker, SameToSup DEF CleanupStale, linkVars, counterVars,
      workerVars, chanVars, Fail, Goto, Unbound, SweepFailed,
      UnboundByKernel, objectVars
<1>3. CASE StartWorker
  BY <1>3, NoToSup, Booted DEF StartWorker, counterVars, udcVars, Goto
<1>4. CASE StartWorkerFails
  BY <1>4, SameToWorker, SameToSup DEF StartWorkerFails, linkVars,
      counterVars, udcVars, workerVars, chanVars, ChannelOnly, ControlOnly,
      Fail
<1>5. CASE AwaitConfigure
  BY <1>5, SameToWorker, SameToSup, Received, HeadType DEF AwaitConfigure,
      linkVars, counterVars, udcVars, workerVars, chanVars, ReceiveOnly, Fail,
      PeerClosed, Receives, ReceiveFails
<1>6. CASE ConfigureMismatch
  BY <1>6, SameToWorker, SameToSup DEF ConfigureMismatch, linkVars,
      counterVars, udcVars, workerVars, chanVars, ChannelOnly, ControlOnly,
      Fail, Initial
<1>7. CASE ConfigureAbsent
  BY <1>7, SameToWorker, SameToSup DEF ConfigureAbsent, counterVars, udcVars,
      workerVars, chanVars, Resume, Initial
<1>8. CASE ConfigureDetach
  BY <1>8, SameToWorker, SameToSup DEF ConfigureDetach, linkVars, counterVars,
      udcVars, workerVars, chanVars, ChannelOnly, ControlOnly, Begin
<1>9. CASE ConfigureReject
  BY <1>9, SameToWorker, SameToSup, Sent, SupervisorRecords, MessageFields,
      KindsMembers DEF ConfigureReject, linkVars, counterVars, udcVars,
      workerVars, chanVars, ChannelOnly, Fail, Resume, Initial, PeerClosed,
      SendFails, SendRejection
<1>10. CASE ConfigureReplace
  BY <1>10, SameToWorker, SameToSup DEF ConfigureReplace, counterVars,
      udcVars, workerVars, chanVars, Begin, Initial
<1>11. CASE Unbind
  <2>1. /\ bound' => bound
        /\ "unbind" \in denied => "unbind" \in denied'
        /\ UNCHANGED <<wproc, wphase, wgen, wfiles, generation, toWorker>>
    BY <1>11 DEF Unbind, Unbound, CloseControl, workerVars, counterVars,
        chanVars
  <2>2. UNCHANGED toSup \/ toSup' = <<>>
    BY <1>11 DEF Unbind, CloseControl, chanVars
  <2>3. ~control' => ~bound' \/ "unbind" \in denied' \/ ~control
    BY <1>11, UnbindFrees DEF Unbind
  <2>4. pc' \in {"unbind", "sendQuiesce", "stopWorker"}
    BY <1>11 DEF Unbind, FailOr, Fail, Goto, AfterUnbind
  <2>5. task' = task \/ task' = "cleanup"
    BY <1>11 DEF Unbind, FailOr, Fail, Goto
  <2> QED
    BY <1>11, <2>1, <2>2, <2>3, <2>4, <2>5, SameToWorker, SameToSup, NoToSup
       DEF Unbind
<1>12. CASE QuiesceSkipped
  BY <1>12, SameToWorker, SameToSup DEF QuiesceSkipped, linkVars, counterVars,
      udcVars, workerVars, chanVars, ChannelOnly, ControlOnly, Goto
<1>13. CASE SendQuiesce
  BY <1>13, SameToWorker, SameToSup, Sent, SupervisorRecords, MessageFields,
      KindsMembers DEF SendQuiesce, counterVars, udcVars, workerVars, Goto
<1>14. CASE Quiesced
  BY <1>14, SameToWorker, NoToSup, Received DEF Quiesced, counterVars,
      udcVars, workerVars, Goto, CloseControl, IsQuiesced, Matches
<1>15. CASE QuiesceFails
  BY <1>15, SameToWorker, SameToSup, NoToSup DEF QuiesceFails, counterVars,
      udcVars, workerVars, Fail, PeerClosed, SendFails, CloseControl,
      IsQuiesced, Matches, FailOr
<1>16. CASE StopWorker
  BY <1>16, SameToWorker, SameToSup DEF StopWorker, counterVars, udcVars,
      chanVars, Goto, PeerClosed, Reaped, FailOr, Fail
<1>17. CASE StopUsb
  BY <1>17, SameToWorker, SameToSup DEF StopUsb, linkVars, udcVars,
      workerVars, chanVars, Fail, Goto, Resume, Unbound, AfterStopUsb,
      ResetsGeneration, StopUsbRefusing, FailOr, UnboundByKernel
<1>18. CASE GenerationOverflow
  BY <1>18, SameToWorker, SameToSup DEF GenerationOverflow, linkVars,
      counterVars, udcVars, workerVars, chanVars, ChannelOnly, ControlOnly,
      Fail
<1>19. CASE PopulateGadget
  BY <1>19, SameToWorker, SameToSup DEF PopulateGadget, linkVars, udcVars,
      workerVars, chanVars, Fail, Goto, Attempt
<1>20. CASE MountFunctionfs
  BY <1>20, SameToWorker, SameToSup DEF MountFunctionfs, linkVars,
      counterVars, udcVars, workerVars, chanVars, Fail, Goto
<1>21. CASE PublishFunctionfs
  BY <1>21, SameToWorker, SameToSup DEF PublishFunctionfs, linkVars,
      counterVars, udcVars, workerVars, chanVars, Fail, Goto
<1>22. CASE LinkFunction
  BY <1>22, SameToWorker, SameToSup DEF LinkFunction, linkVars, counterVars,
      udcVars, workerVars, chanVars, ChannelOnly, ControlOnly, Fail, Goto,
      Attempt
<1>23. CASE SendEndpoints
  BY <1>23, SameToWorker, SameToSup, Sent, SupervisorRecords, MessageFields,
      KindsMembers DEF SendEndpoints, linkVars, counterVars, udcVars,
      workerVars, chanVars, ChannelOnly, Fail, Goto, PeerClosed, SendFails
<1>24. CASE AwaitServing
  <2>1. /\ pc = "awaitServing" /\ control
        /\ UNCHANGED <<toWorker, bound, generation, control, wproc, wphase,
                       wgen, wfiles>>
    BY <1>24 DEF AwaitServing, Receives, ReceiveFails, ReceiveOnly, chanVars,
             counterVars, linkVars, udcVars, workerVars
  <2>2. CASE Fail
    <3>1. pc' = "unbind" /\ task' = "cleanup"
      BY <2>2 DEF Fail
    <3> QED BY <2>1, <3>1, SameToWorker
  <2>3. CASE ~Fail
    <3>1. /\ toSup # <<>> /\ toSup' = Tail(toSup)
          /\ Head(toSup).kind = "Serving"
          /\ pc' = "dwell" /\ UNCHANGED task
      BY <1>24, <2>3 DEF AwaitServing, Receives, IsServing, Matches, Goto
    <3>2. task # "cleanup"
      BY <2>1
    <3>3. ServingAnswer
      BY <3>1, Received
    <3>4. /\ toWorker' = <<>> /\ ~ServingAnswer'
          /\ ~PeerClosed => ServesGeneration
      BY <2>1, <3>1, <3>2, <3>3, Received
    <3> QED BY <2>1, <3>1, <3>4, NoToWorker
  <2> QED BY <2>2, <2>3
<1>25. CASE Dwell
  BY <1>25, SameToWorker, SameToSup DEF Dwell, linkVars, counterVars,
      workerVars, chanVars, Goto
<1>26. CASE BindUdc
  BY <1>26, SameToWorker, SameToSup DEF BindUdc, linkVars, counterVars,
      workerVars, chanVars, Fail, Goto
<1>27. CASE Persist
  BY <1>27, SameToWorker, SameToSup DEF Persist, counterVars, udcVars,
      workerVars, chanVars, Fail, Resume
<1>28. CASE ServeTop
  BY <1>28, SameToWorker, SameToSup DEF ServeTop, linkVars, counterVars,
      udcVars, chanVars, Goto, Begin, PeerClosed
<1>29. CASE Poll
  BY <1>29, SameToWorker, SameToSup DEF Poll, linkVars, counterVars, udcVars,
      workerVars, chanVars, ChannelOnly, ControlOnly
<1>30. CASE DrainSignals
  BY <1>30, SameToWorker, SameToSup DEF DrainSignals, linkVars, counterVars,
      udcVars, workerVars, chanVars, Goto
<1>31. CASE DispatchSignals
  BY <1>31, SameToWorker, SameToSup DEF DispatchSignals, linkVars,
      counterVars, udcVars, workerVars, chanVars, Goto, Begin, Resume
<1>32. CASE ServeControl
  BY <1>32, SameToWorker, SameToSup, Received, HeadType DEF ServeControl,
      linkVars, counterVars, udcVars, workerVars, chanVars, ChannelOnly, Fail,
      Begin, PeerClosed
<1>33. CASE Reload
  BY <1>33, SameToWorker, SameToSup DEF Reload, linkVars, counterVars,
      udcVars, workerVars, chanVars, ChannelOnly, ControlOnly, Fail, Goto
<1>34. CASE Ep0Drained
  BY <1>34, SameToWorker, SameToSup DEF Ep0Drained, linkVars, counterVars,
      udcVars, workerVars, chanVars, ChannelOnly, ControlOnly, Resume
<1>35. ASSUME NEW e \in EventKinds, Ep0Event(e) PROVE ServingInv'
  BY <1>35, SameToWorker, SameToSup DEF Ep0Event, linkVars, counterVars,
      udcVars, workerVars, chanVars, Goto
<1>36. CASE ForwardBusEvent
  BY <1>36, SameToWorker, SameToSup, Sent, SupervisorRecords, MessageFields,
      KindsMembers DEF ForwardBusEvent, linkVars, counterVars, udcVars,
      workerVars, chanVars, ChannelOnly, Fail, Goto, PeerClosed, SendFails
<1>37. CASE SetupSuperseded
  BY <1>37, SameToWorker, SameToSup DEF SetupSuperseded, Transfers, linkVars,
      counterVars, udcVars, workerVars, chanVars, ChannelOnly, ControlOnly,
      Goto
<1>38. CASE ForwardControlRequest
  BY <1>38, SameToWorker, SameToSup, Sent, SupervisorRecords, MessageFields,
      KindsMembers DEF ForwardControlRequest, udcVars, workerVars, chanVars,
      Fail, Goto, PeerClosed, SendFails
<1>39. CASE AwaitControl
  BY <1>39, SameToWorker, SameToSup, Received, HeadType DEF AwaitControl,
      counterVars, udcVars, workerVars, chanVars, Fail, Goto, PeerClosed,
      Receives, ReceiveFails
<1>40. CASE StallEp0
  BY <1>40, SameToWorker, SameToSup DEF StallEp0, linkVars, counterVars,
      udcVars, workerVars, chanVars, ChannelOnly, ControlOnly, Fail, Goto,
      Attempt
<1>41. CASE TransferEp0
  BY <1>41, SameToWorker, SameToSup DEF TransferEp0, Transfers, linkVars,
      counterVars,
      udcVars, workerVars, chanVars, ChannelOnly, ControlOnly, Fail, Goto,
      Attempt
<1>42. CASE WorkerBoots
  BY <1>42, Taken, SameToSup, NoToWorker DEF WorkerBoots, controlVars,
      linkVars, counterVars, udcVars, notWorker
<1>43. CASE WorkerRejected
  BY <1>43, Taken, SameToSup, NoToWorker DEF WorkerRejected, controlVars,
      linkVars, counterVars, udcVars, notWorker
<1>44. CASE WorkerQuiesces
  BY <1>44, Taken, NoToWorker, Replied, AnswerRecord, MessageFields,
      KindsMembers DEF WorkerQuiesces, controlVars, linkVars, counterVars,
      udcVars, notWorker
<1>45. CASE WorkerInstalls
  <2>1. /\ wproc = "running" /\ toWorker # <<>> /\ EndpointsQueued
        /\ UNCHANGED <<pc, task, control, bound, generation, wproc>>
        /\ wgen' = Head(toWorker).generation
        /\ wfiles' /\ wphase' = "serving"
    BY <1>45, Taken DEF WorkerInstalls, notWorker, controlVars, linkVars,
                    counterVars, udcVars
  <2>2. ~bound
    BY <2>1
  <2>3. CASE task = "cleanup"
    BY <1>45, <2>1, <2>2, <2>3, Taken DEF WorkerInstalls
  <2>4. CASE task # "cleanup"
    <3>1. /\ pc = "awaitServing" /\ control /\ ~ServingAnswer
          /\ EndpointsLast /\ EndpointsCurrent
      BY <2>1, <2>4
    <3>2. toWorker' = <<>> /\ Head(toWorker).generation = generation
      BY <1>45, <3>1, Taken DEF WorkerInstalls
    <3>3. ServingOnce'
      <4>1. ServingOnce
        BY <3>1 DEF ServingAnswer, ServingOnce, Holds, Once
      <4> QED
        BY <1>45, <3>1, <4>1, Replied, AnswerRecord, KindsMembers
           DEF WorkerInstalls
    <3> QED BY <2>1, <2>2, <3>1, <3>2, <3>3, NoToWorker
  <2> QED BY <2>3, <2>4
<1>46. CASE WorkerAnswers
  BY <1>46, Taken, NoToWorker, Replied, AnswerRecord, MessageFields,
      KindsMembers DEF WorkerAnswers, controlVars, linkVars, counterVars,
      udcVars, workerVars, notWorker
<1>47. CASE WorkerNotes
  BY <1>47, Taken, SameToSup, NoToWorker DEF WorkerNotes, controlVars,
      linkVars, counterVars, udcVars, workerVars, notWorker
<1>48. CASE WorkerEof
  BY <1>48, NoToWorker, SameToSup DEF WorkerEof, controlVars, linkVars,
      counterVars, udcVars, WorkerGone, WorkerEnds
<1>49. ASSUME NEW id \in ConfigIds, NEW body \in Bodies, WorkerDeclares(id,
    body) PROVE ServingInv'
  BY <1>49, SameToWorker, Replied, ConfigureType DEF WorkerDeclares,
      controlVars, linkVars, counterVars, udcVars, notWorker, Record
<1>50. CASE WorkerExits
  BY <1>50, NoToWorker, SameToSup DEF WorkerExits, controlVars, linkVars,
      counterVars, udcVars, WorkerGone, WorkerEnds
<1>51. CASE WorkerWedges
  BY <1>51, SameToWorker, SameToSup DEF WorkerWedges, controlVars, linkVars,
      counterVars, udcVars, chanVars, notWorker
<1>52. CASE WorkerGarbles
  BY <1>52, SameToWorker, Replied, MessageType, MessageFields, KindsMembers
      DEF WorkerGarbles, controlVars, linkVars, counterVars, udcVars,
      workerVars, notWorker
<1>53. CASE Crash
  BY <1>53, NoToWorker, NoToSup DEF Crash, linkVars, counterVars, WorkerGone
<1>54. CASE EscalateStop
  BY <1>54, NoToWorker, SameToSup DEF EscalateStop, controlVars, linkVars,
      counterVars, udcVars, WorkerGone
<1>55. CASE Tick
  BY <1>55, SameToWorker, SameToSup DEF Tick, controlVars, linkVars,
      counterVars, workerVars, chanVars
<1>56. CASE Sigterm
  BY <1>56, SameToWorker, SameToSup DEF Sigterm, controlVars, linkVars,
      counterVars, udcVars, workerVars, chanVars, Goto, PeerClosed, Interrupts
<1>57. CASE Sighup
  BY <1>57, SameToWorker, SameToSup DEF Sighup, controlVars, linkVars,
      counterVars, udcVars, workerVars, chanVars, Goto, PeerClosed, Interrupts
<1>58. CASE ServiceRestart
  BY <1>58, SameToWorker, NoToWorker, NoToSup DEF ServiceRestart, workerVars,
      WorkerGone, kernelVars
<1>59. ASSUME NEW e \in Events, HostEvent(e) PROVE ServingInv'
  BY <1>59, SameToWorker, SameToSup DEF HostEvent, controlVars, linkVars,
      counterVars, udcVars, workerVars, chanVars
<1>60. CASE UNCHANGED vars
  BY <1>60, SameToWorker, SameToSup DEF vars, controlVars, objectVars,
      linkVars, counterVars, kernelVars, udcVars, workerVars, chanVars,
      PeerClosed
<1> QED BY ONLY [Next]_vars, <1>1, <1>2, <1>3, <1>4, <1>5, <1>6, <1>7, <1>8,
    <1>9, <1>10, <1>11, <1>12, <1>13, <1>14, <1>15, <1>16, <1>17, <1>18,
    <1>19, <1>20, <1>21, <1>22, <1>23, <1>24, <1>25, <1>26, <1>27, <1>28,
    <1>29, <1>30, <1>31, <1>32, <1>33, <1>34, <1>35, <1>36, <1>37, <1>38,
    <1>39, <1>40, <1>41, <1>42, <1>43, <1>44, <1>45, <1>46, <1>47, <1>48,
    <1>49,
    <1>50, <1>51, <1>52, <1>53, <1>54, <1>55, <1>56, <1>57, <1>58, <1>59,
    <1>60 DEF Next, SupervisorStep, WorkerStep, WorkerHandles, FaultStep,
    EnvironmentStep, Terminated

\* A worker without files and without a queue keeps no mount busy.
LEMMA NothingHeld == toWorker = <<>> /\ ~wfiles => ~EndpointsHeld
BY DEF EndpointsHeld

\* The supervisor's flags follow the kernel objects through every failure.
LEMMA ObjectInvStep == IInv /\ [Next]_vars => ObjectInv'
<1> SUFFICES ASSUME IInv, [Next]_vars PROVE ObjectInv'
  OBVIOUS
<1> USE DEF IInv, ObjectInv, BeliefMatchesKernel, TaskInv, Builds, Links
<1>1. CASE Setup
  BY <1>1 DEF Setup, objectVars, counterVars, kernelVars, udcVars,
      ChannelOnly, ControlOnly, Goto
<1>2. CASE CleanupStale
  <2>1. ~UmountRefused
    BY <1>2, NothingHeld
       DEF CleanupStale, UmountRefused, LinkInv, QuiesceInv, PeerClosed
  <2>2. /\ ~functionfs_mounted /\ ~usb /\ generation = 0
        /\ UNCHANGED <<functionfs_mounted, usb, generation>>
    BY <1>2 DEF CleanupStale, counterVars
  <2>3. CASE pc' = "start"
    <3>1. ASSUME NEW refused, ~SweepFailed(refused)
          PROVE  "remove" \notin refused /\ "umount" \notin refused
      BY <3>1 DEF SweepFailed
    <3>2. ~gadget' /\ ~mounted' /\ ~owns_gadget' /\ UNCHANGED <<denied, failed>>
      BY <1>2, <2>3, <3>1 DEF CleanupStale, Fail, Goto
    <3>3. bound' => gadget'
      BY <1>2 DEF CleanupStale, Unbound, UnboundByKernel
    <3> QED BY <2>2, <2>3, <3>2, <3>3
  <2>4. CASE pc' # "start"
    <3>1. /\ pc' = "unbind" /\ "sweep" \in denied' /\ failed'
          /\ owns_gadget' = gadget'
      BY <1>2, <2>4 DEF CleanupStale, Fail, Goto
    <3>2. bound' => gadget'
      BY <1>2 DEF CleanupStale, Unbound, UnboundByKernel
    <3> QED BY <2>2, <3>1, <3>2
  <2> QED BY <2>3, <2>4
<1>3. CASE StartWorker
  BY <1>3 DEF StartWorker, objectVars, counterVars, kernelVars, udcVars, Goto
<1>4. CASE StartWorkerFails
  BY <1>4 DEF StartWorkerFails, objectVars, counterVars, kernelVars, udcVars,
      ChannelOnly, ControlOnly, Fail
<1>5. CASE AwaitConfigure
  BY <1>5 DEF AwaitConfigure, objectVars, counterVars, kernelVars, udcVars,
      ReceiveOnly, Fail
<1>6. CASE ConfigureMismatch
  BY <1>6 DEF ConfigureMismatch, objectVars, counterVars, kernelVars, udcVars,
      ChannelOnly, ControlOnly, Fail, Initial
<1>7. CASE ConfigureAbsent
  BY <1>7 DEF ConfigureAbsent, objectVars, counterVars, kernelVars, udcVars,
      Resume, Initial
<1>8. CASE ConfigureDetach
  BY <1>8 DEF ConfigureDetach, objectVars, counterVars, kernelVars, udcVars,
      ChannelOnly, ControlOnly, Begin
<1>9. CASE ConfigureReject
  BY <1>9 DEF ConfigureReject, objectVars, counterVars, kernelVars, udcVars,
      ChannelOnly, Fail, Resume, Initial
<1>10. CASE ConfigureReplace
  BY <1>10 DEF ConfigureReplace, objectVars, counterVars, kernelVars, udcVars,
      Begin, Initial
<1>11. CASE Unbind
  <2>1. /\ bound' => bound
        /\ denied \subseteq denied'
        /\ UNCHANGED <<owns_gadget, functionfs_mounted, usb, gadget, mounted,
                       generation>>
    BY <1>11 DEF Unbind, Unbound, objectVars, counterVars, kernelVars
  <2>2. pc' \in {"sendQuiesce", "stopWorker"} =>
            ~bound' \/ "unbind" \in denied'
    BY <1>11, UnbindFrees DEF Unbind
  <2>3. /\ pc' \in {"unbind", "sendQuiesce", "stopWorker"}
        /\ denied' # {} => failed'
    BY <1>11, UnbindSplits DEF FailOr, Fail, Goto, AfterUnbind
  <2> QED BY <1>11, <2>1, <2>2, <2>3 DEF Unbind
<1>12. CASE QuiesceSkipped
  BY <1>12 DEF QuiesceSkipped, objectVars, counterVars, kernelVars, udcVars,
      ChannelOnly, ControlOnly, Goto
<1>13. CASE SendQuiesce
  BY <1>13 DEF SendQuiesce, objectVars, counterVars, kernelVars, udcVars, Goto
<1>14. CASE Quiesced
  BY <1>14 DEF Quiesced, objectVars, counterVars, kernelVars, udcVars, Goto
<1>15. CASE QuiesceFails
  BY <1>15 DEF QuiesceFails, objectVars, counterVars, kernelVars, udcVars,
      Fail, FailOr
<1>16. CASE StopWorker
  BY <1>16 DEF StopWorker, objectVars, counterVars, kernelVars, udcVars,
      Goto, FailOr, Fail
<1>17. CASE StopUsb
  <2>1. PICK refused \in SUBSET StopUsbCalls : StopUsbRefusing(refused)
    BY <1>17 DEF StopUsb
  <2>2. /\ ~owns_gadget' /\ ~functionfs_mounted' /\ ~usb'
        /\ denied' = denied \cup refused
    BY <2>1 DEF StopUsbRefusing
  <2>3. /\ gadget' => "remove" \in denied'
        /\ mounted' => denied' \cap {"umount", "sweep"} # {}
    BY <1>17, <2>1 DEF StopUsb, StopUsbRefusing
  <2>4. bound' => gadget' /\ {"unbind", "remove"} \subseteq denied'
    BY <1>17, <2>1
       DEF StopUsb, StopUsbRefusing, Unbound, UnboundByKernel
  <2>5. CASE refused # {}
    BY <2>1, <2>2, <2>3, <2>4, <2>5 DEF StopUsbRefusing, FailOr, Fail
  <2>6. CASE refused = {}
    <3>1. \/ pc' \in {"populate", "serve"}
          \/ pc' \in {"start", "stale"} /\ generation' = 0
          \/ pc' = "exited"
      BY <2>1, <2>6
         DEF StopUsbRefusing, AfterStopUsb, Goto, Resume, ResetsGeneration
    <3>2. denied' = denied /\ failed' = failed
      BY <2>1, <2>2, <2>6
         DEF StopUsbRefusing, AfterStopUsb, Goto, Resume
    <3>3. denied # {} => task = "cleanup" /\ pc' = "exited"
      BY <1>17, <2>1, <2>6 DEF StopUsb, StopUsbRefusing, AfterStopUsb, Goto
    <3> QED BY <2>2, <2>3, <2>4, <3>1, <3>2, <3>3
  <2> QED BY <2>5, <2>6
<1>18. CASE GenerationOverflow
  BY <1>18 DEF GenerationOverflow, objectVars, counterVars, kernelVars,
      udcVars, ChannelOnly, ControlOnly, Fail
<1>19. CASE PopulateGadget
  BY <1>19 DEF PopulateGadget, udcVars, Fail, Goto, Attempt, Claim, TypeOK,
      KernelOK, ObjectOK
<1>20. CASE MountFunctionfs
  BY <1>20 DEF MountFunctionfs, counterVars, udcVars, Fail, Goto
<1>21. CASE PublishFunctionfs
  BY <1>21 DEF PublishFunctionfs, counterVars, kernelVars, udcVars, Fail, Goto
<1>22. CASE LinkFunction
  BY <1>22 DEF LinkFunction, objectVars, counterVars, kernelVars, udcVars,
      ChannelOnly, ControlOnly, Fail, Goto, Attempt
<1>23. CASE SendEndpoints
  BY <1>23 DEF SendEndpoints, objectVars, counterVars, kernelVars, udcVars,
      ChannelOnly, Fail, Goto
<1>24. CASE AwaitServing
  BY <1>24 DEF AwaitServing, objectVars, counterVars, kernelVars, udcVars,
      ReceiveOnly, Fail, Goto
<1>25. CASE Dwell
  BY <1>25 DEF Dwell, objectVars, counterVars, kernelVars, Goto
<1>26. CASE BindUdc
  BY <1>26 DEF BindUdc, objectVars, counterVars, Fail, Goto
<1>27. CASE Persist
  BY <1>27 DEF Persist, objectVars, counterVars, kernelVars, udcVars, Fail,
      Resume
<1>28. CASE ServeTop
  BY <1>28 DEF ServeTop, objectVars, counterVars, kernelVars, udcVars, Goto,
      Begin
<1>29. CASE Poll
  BY <1>29 DEF Poll, objectVars, counterVars, kernelVars, udcVars,
      ChannelOnly, ControlOnly, Revents
<1>30. CASE DrainSignals
  BY <1>30 DEF DrainSignals, objectVars, counterVars, kernelVars, udcVars,
      Goto
<1>31. CASE DispatchSignals
  BY <1>31 DEF DispatchSignals, objectVars, counterVars, kernelVars, udcVars,
      Goto, Begin, Resume
<1>32. CASE ServeControl
  BY <1>32 DEF ServeControl, objectVars, counterVars, kernelVars, udcVars,
      ChannelOnly, Fail, Begin
<1>33. CASE Reload
  BY <1>33 DEF Reload, objectVars, counterVars, kernelVars, udcVars,
      ChannelOnly, ControlOnly, Fail, Goto
<1>34. CASE Ep0Drained
  BY <1>34 DEF Ep0Drained, objectVars, counterVars, kernelVars, udcVars,
      ChannelOnly, ControlOnly, Resume
<1>35. ASSUME NEW e \in EventKinds, Ep0Event(e) PROVE ObjectInv'
  BY <1>35 DEF Ep0Event, objectVars, counterVars, udcVars, Goto
<1>36. CASE ForwardBusEvent
  BY <1>36 DEF ForwardBusEvent, objectVars, counterVars, kernelVars, udcVars,
      ChannelOnly, Fail, Goto
<1>37. CASE SetupSuperseded
  BY <1>37 DEF SetupSuperseded, Transfers, objectVars, counterVars,
      kernelVars, udcVars,
      ChannelOnly, ControlOnly, Goto
<1>38. CASE ForwardControlRequest
  BY <1>38 DEF ForwardControlRequest, objectVars, kernelVars, udcVars, Fail,
      Goto
<1>39. CASE AwaitControl
  BY <1>39 DEF AwaitControl, objectVars, counterVars, kernelVars, udcVars,
      Fail, Goto
<1>40. CASE StallEp0
  BY <1>40 DEF StallEp0, objectVars, counterVars, kernelVars, udcVars,
      ChannelOnly, ControlOnly, Fail, Goto, Attempt
<1>41. CASE TransferEp0
  BY <1>41 DEF TransferEp0, Transfers, objectVars, counterVars, kernelVars,
      udcVars,
      ChannelOnly, ControlOnly, Fail, Goto, Attempt
<1>42. CASE Crash
  <2>1. /\ pc' = "exited" /\ task' = "setup"
        /\ bound' => bound
        /\ UNCHANGED gadget
    <3>1. bound' = FALSE \/ bound' = bound
      BY <1>42 DEF Crash
    <3> QED BY <1>42, <3>1 DEF Crash
  <2> QED BY <2>1
<1>43. CASE Tick
  BY <1>43 DEF Tick, controlVars, objectVars, counterVars, kernelVars
<1>44. CASE Sigterm
  BY <1>44 DEF Sigterm, controlVars, objectVars, counterVars, kernelVars,
      udcVars, Goto, Interrupts, Revents
<1>45. CASE Sighup
  BY <1>45 DEF Sighup, controlVars, objectVars, counterVars, kernelVars,
      udcVars, Goto, Interrupts, Revents
<1>46. CASE ServiceRestart
  BY <1>46 DEF ServiceRestart, kernelVars, WorkerGone
<1>47. ASSUME NEW e \in Events, HostEvent(e) PROVE ObjectInv'
  BY <1>47 DEF HostEvent, controlVars, objectVars, counterVars, udcVars
<1>48. CASE WorkerMove
  BY <1>48, WorkerFrame DEF controlVars, objectVars, counterVars, kernelVars,
      udcVars
<1>49. CASE UNCHANGED vars
  BY <1>49 DEF vars, controlVars, objectVars, linkVars, counterVars,
      kernelVars, udcVars, workerVars, chanVars, PeerClosed
<1> QED BY ONLY [Next]_vars, <1>1, <1>2, <1>3, <1>4, <1>5, <1>6, <1>7, <1>8,
    <1>9, <1>10, <1>11, <1>12, <1>13, <1>14, <1>15, <1>16, <1>17, <1>18,
    <1>19, <1>20, <1>21, <1>22, <1>23, <1>24, <1>25, <1>26, <1>27, <1>28,
    <1>29, <1>30, <1>31, <1>32, <1>33, <1>34, <1>35, <1>36, <1>37, <1>38,
    <1>39, <1>40, <1>41, <1>42, <1>43, <1>44, <1>45, <1>46, <1>47, <1>48,
    <1>49 DEF
    Next, SupervisorStep, WorkerMove, FaultStep, EnvironmentStep, Terminated

\* No unbind that matters for the dwell is forgotten before the next bind.
LEMMA DwellInvStep == IInv /\ [Next]_vars => DwellInv'
<1> SUFFICES ASSUME IInv, [Next]_vars PROVE DwellInv'
  OBVIOUS
<1> USE DEF IInv, DwellInv, udcVars
<1>1. CASE Setup
  BY <1>1 DEF Setup, udcVars, ChannelOnly, ControlOnly, Goto
<1>2. CASE CleanupStale
  BY <1>2 DEF CleanupStale, Fail, Goto, Unbound, SweepFailed,
      UnboundByKernel, objectVars
<1>3. CASE StartWorker
  BY <1>3 DEF StartWorker, udcVars, Goto
<1>4. CASE StartWorkerFails
  BY <1>4 DEF StartWorkerFails, udcVars, ChannelOnly, ControlOnly, Fail
<1>5. CASE AwaitConfigure
  BY <1>5 DEF AwaitConfigure, udcVars, ReceiveOnly, Fail
<1>6. CASE ConfigureMismatch
  BY <1>6 DEF ConfigureMismatch, udcVars, ChannelOnly, ControlOnly, Fail,
      Initial
<1>7. CASE ConfigureAbsent
  BY <1>7 DEF ConfigureAbsent, udcVars, Resume, Initial
<1>8. CASE ConfigureDetach
  BY <1>8 DEF ConfigureDetach, udcVars, ChannelOnly, ControlOnly, Begin
<1>9. CASE ConfigureReject
  BY <1>9 DEF ConfigureReject, udcVars, ChannelOnly, Fail, Resume, Initial
<1>10. CASE ConfigureReplace
  BY <1>10 DEF ConfigureReplace, udcVars, Begin, Initial
<1>11. CASE Unbind
  <2>1. pc # "exited" /\ pc' # "bind"
    BY <1>11, UnbindSplits DEF Unbind, FailOr, Fail, Goto, AfterUnbind
  <2>2. CASE Unbound(TRUE)
    BY <1>11, <2>1, <2>2 DEF Unbound, TypeOK, UdcOK
  <2>3. CASE UNCHANGED <<bound, off, detached_at, cause>>
    BY <1>11, <2>1, <2>3
  <2> QED BY <1>11, <2>2, <2>3 DEF Unbind
<1>12. CASE QuiesceSkipped
  BY <1>12 DEF QuiesceSkipped, udcVars, ChannelOnly, ControlOnly, Goto
<1>13. CASE SendQuiesce
  BY <1>13 DEF SendQuiesce, udcVars, Goto
<1>14. CASE Quiesced
  BY <1>14 DEF Quiesced, udcVars, Goto
<1>15. CASE QuiesceFails
  BY <1>15 DEF QuiesceFails, udcVars, Fail, FailOr
<1>16. CASE StopWorker
  BY <1>16 DEF StopWorker, udcVars, Goto, FailOr, Fail
<1>17. CASE StopUsb
  BY <1>17 DEF StopUsb, udcVars, Fail, Goto, Resume, Unbound, AfterStopUsb,
      StopUsbRefusing, FailOr, UnboundByKernel
<1>18. CASE GenerationOverflow
  BY <1>18 DEF GenerationOverflow, udcVars, ChannelOnly, ControlOnly, Fail
<1>19. CASE PopulateGadget
  BY <1>19 DEF PopulateGadget, udcVars, Fail, Goto, Attempt
<1>20. CASE MountFunctionfs
  BY <1>20 DEF MountFunctionfs, udcVars, Fail, Goto
<1>21. CASE PublishFunctionfs
  BY <1>21 DEF PublishFunctionfs, udcVars, Fail, Goto
<1>22. CASE LinkFunction
  BY <1>22 DEF LinkFunction, udcVars, ChannelOnly, ControlOnly, Fail, Goto,
      Attempt
<1>23. CASE SendEndpoints
  BY <1>23 DEF SendEndpoints, udcVars, ChannelOnly, Fail, Goto
<1>24. CASE AwaitServing
  BY <1>24 DEF AwaitServing, udcVars, ReceiveOnly, Fail, Goto
<1>25. CASE Dwell
  BY <1>25 DEF Dwell, Goto, Dwelt
<1>26. CASE BindUdc
  BY <1>26 DEF BindUdc, Fail, Goto
<1>27. CASE Persist
  BY <1>27 DEF Persist, udcVars, Fail, Resume
<1>28. CASE ServeTop
  BY <1>28 DEF ServeTop, udcVars, Goto, Begin
<1>29. CASE Poll
  BY <1>29 DEF Poll, udcVars, ChannelOnly, ControlOnly
<1>30. CASE DrainSignals
  BY <1>30 DEF DrainSignals, udcVars, Goto
<1>31. CASE DispatchSignals
  BY <1>31 DEF DispatchSignals, udcVars, Goto, Begin, Resume
<1>32. CASE ServeControl
  BY <1>32 DEF ServeControl, udcVars, ChannelOnly, Fail, Begin
<1>33. CASE Reload
  BY <1>33 DEF Reload, udcVars, ChannelOnly, ControlOnly, Fail, Goto
<1>34. CASE Ep0Drained
  BY <1>34 DEF Ep0Drained, udcVars, ChannelOnly, ControlOnly, Resume
<1>35. ASSUME NEW e \in EventKinds, Ep0Event(e) PROVE DwellInv'
  BY <1>35 DEF Ep0Event, udcVars, Goto
<1>36. CASE ForwardBusEvent
  BY <1>36 DEF ForwardBusEvent, udcVars, ChannelOnly, Fail, Goto
<1>37. CASE SetupSuperseded
  BY <1>37 DEF SetupSuperseded, Transfers, udcVars, ChannelOnly, ControlOnly,
      Goto
<1>38. CASE ForwardControlRequest
  BY <1>38 DEF ForwardControlRequest, udcVars, Fail, Goto
<1>39. CASE AwaitControl
  BY <1>39 DEF AwaitControl, udcVars, Fail, Goto
<1>40. CASE StallEp0
  BY <1>40 DEF StallEp0, udcVars, ChannelOnly, ControlOnly, Fail, Goto,
      Attempt
<1>41. CASE TransferEp0
  BY <1>41 DEF TransferEp0, Transfers, udcVars, ChannelOnly, ControlOnly,
      Fail, Goto,
      Attempt
<1>42. CASE Crash
  BY <1>42 DEF Crash
<1>43. CASE Tick
  BY <1>43 DEF Tick, controlVars
<1>44. CASE Sigterm
  BY <1>44 DEF Sigterm, controlVars, udcVars, Goto, Interrupts
<1>45. CASE Sighup
  BY <1>45 DEF Sighup, controlVars, udcVars, Goto, Interrupts
<1>46. CASE ServiceRestart
  BY <1>46 DEF ServiceRestart, WorkerGone, kernelVars
<1>47. ASSUME NEW e \in Events, HostEvent(e) PROVE DwellInv'
  BY <1>47 DEF HostEvent, controlVars, udcVars
<1>48. CASE WorkerMove
  BY <1>48, WorkerFrame DEF controlVars, udcVars
<1>49. CASE UNCHANGED vars
  BY <1>49 DEF vars, controlVars, objectVars, linkVars, counterVars,
      kernelVars, udcVars, workerVars, chanVars, PeerClosed
<1> QED BY ONLY [Next]_vars, <1>1, <1>2, <1>3, <1>4, <1>5, <1>6, <1>7, <1>8,
    <1>9, <1>10, <1>11, <1>12, <1>13, <1>14, <1>15, <1>16, <1>17, <1>18,
    <1>19, <1>20, <1>21, <1>22, <1>23, <1>24, <1>25, <1>26, <1>27, <1>28,
    <1>29, <1>30, <1>31, <1>32, <1>33, <1>34, <1>35, <1>36, <1>37, <1>38,
    <1>39, <1>40, <1>41, <1>42, <1>43, <1>44, <1>45, <1>46, <1>47, <1>48,
    <1>49 DEF
    Next, SupervisorStep, WorkerMove, FaultStep, EnvironmentStep, Terminated

LEMMA IInvInit == Init => IInv
<1> SUFFICES ASSUME Init PROVE IInv
  OBVIOUS
<1>1. TypeOK
  BY TypeInit
<1>2. TaskInv /\ LinkInv /\ DwellInv
  BY DEF Init, TaskInv, LinkInv, DwellInv, Serves, Builds
<1>3. ObjectInv
  <2>1. bound = FALSE \/ bound = gadget
    BY DEF Init
  <2> QED BY <2>1 DEF Init, ObjectInv, BeliefMatchesKernel, Builds, Links
<1>4. /\ ~QuiesceQueued /\ ~BootQueued /\ ~EndpointsQueued
      /\ ~QuiescedAnswer /\ QuiescedOnce /\ ~ServingAnswer
  BY DEF Init, QuiesceQueued, BootQueued, EndpointsQueued, QuiescedAnswer,
         QuiescedOnce, ServingAnswer, Holds, Once
<1>5. QuiesceInv /\ ServingInv
  BY <1>4 DEF Init, QuiesceInv, ServingInv, PeerClosed
<1> QED BY <1>1, <1>2, <1>3, <1>5 DEF IInv

LEMMA IInvStep == IInv /\ [Next]_vars => IInv'
<1> SUFFICES ASSUME IInv, [Next]_vars PROVE IInv'
  OBVIOUS
<1>1. TypeOK'
  BY TypeStep DEF IInv
<1>2. TaskInv' /\ LinkInv' /\ QuiesceInv'
  BY TaskInvStep, LinkInvStep, QuiesceInvStep
<1>3. ServingInv' /\ ObjectInv' /\ DwellInv'
  BY ServingInvStep, ObjectInvStep, DwellInvStep
<1> QED BY <1>1, <1>2, <1>3 DEF IInv

\* The inductive invariant holds in every reachable state.
THEOREM Invariance == Spec => []IInv
<1>1. Init => IInv
  BY IInvInit
<1>2. IInv /\ [Next]_vars => IInv'
  BY IInvStep
<1> QED BY <1>1, <1>2, PTL DEF Spec

=============================================================================
