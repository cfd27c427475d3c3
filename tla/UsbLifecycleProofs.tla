------------------------- MODULE UsbLifecycleProofs -------------------------
(***************************************************************************)
(* The safety properties of UsbLifecycle, for every value of its           *)
(* constants: any number of generations, requests and queued records, any  *)
(* faults in any order.  All of them follow from the invariant IInv.       *)
(***************************************************************************)
EXTENDS UsbLifecycleInvariant

-----------------------------------------------------------------------------
(* State properties.                                                       *)

\* configure binds the UDC only after Serving, and nothing quiesces or replaces
\* a worker before unbind: as long as its worker lives, an attached gadget has
\* it behind it, unless cleanup goes on after a refused unbind.
THEOREM AttachedServed == Spec => []AttachedIsServed
<1>1. IInv => AttachedIsServed
  <2> SUFFICES ASSUME IInv, bound, ~PeerClosed, ~ServesGeneration
               PROVE  task = "cleanup" /\ "unbind" \in denied
    BY DEF AttachedIsServed, ServesGeneration
  <2>1. "unbind" \in denied
    BY DEF IInv, ServingInv
  <2>2. task = "cleanup"
    BY <2>1 DEF IInv, TaskInv, LinkInv, PeerClosed
  <2> QED BY <2>1, <2>2
<1> QED BY <1>1, Invariance, PTL

\* owns_gadget and functionfs_mounted claim nothing that is not there, and what
\* is there without its flag is what the kernel has refused to remove.
THEOREM BeliefCorrect == Spec => []BeliefMatchesKernel
<1>1. IInv => BeliefMatchesKernel
  BY DEF IInv, ObjectInv
<1> QED BY <1>1, Invariance, PTL

\* No expect or unwrap of serve, service_ep0 and configure can panic.
THEOREM NoPanic == Spec => []ExpectsHold
<1>1. IInv => ExpectsHold
  BY DEF IInv, LinkInv, ObjectInv, ExpectsHold, Serves, Builds, Links
<1> QED BY <1>1, Invariance, PTL

\* cleanup tries every object and the worker, whichever calls were refused
\* before: what is left at the end has itself been refused.
THEOREM CleanupComplete == Spec => []CleanExit
<1>1. IInv => CleanExit
  <2> SUFFICES ASSUME IInv, pc = "exited", task = "cleanup"
               PROVE  /\ gadget => "remove" \in denied
                      /\ mounted => denied \cap {"umount", "sweep"} # {}
                      /\ bound => {"unbind", "remove"} \subseteq denied
                      /\ wproc # "none" => "stop" \in denied
                      /\ ~control
                      /\ denied # {} => failed
    BY DEF CleanExit
  <2>1. /\ gadget => "remove" \in denied
        /\ mounted => denied \cap {"umount", "sweep"} # {}
        /\ bound => {"unbind", "remove"} \subseteq denied
    BY DEF IInv, ObjectInv
  <2>2. (wproc # "none" => "stop" \in denied) /\ ~control
    BY DEF IInv, LinkInv
  <2>3. denied # {} => failed
    BY DEF IInv, TaskInv
  <2> QED BY <2>1, <2>2, <2>3
<1> QED BY <1>1, Invariance, PTL

-----------------------------------------------------------------------------
(* Action properties.  Few actions touch the objects they are about.       *)

\* The steps that remove a kernel object, open a channel, bind the UDC or
\* change the generation.
LEMMA Changes ==
    ASSUME [Next]_vars
    PROVE  /\ gadget /\ ~gadget' => CleanupStale \/ StopUsb
           /\ mounted /\ ~mounted' => CleanupStale \/ StopUsb
           /\ ~control /\ control' => StartWorker
           /\ ~bound /\ bound' => BindUdc
           /\ generation' # generation =>
                  PopulateGadget \/ StopUsb \/ ServiceRestart
<1> DEFINE Goal ==
      /\ gadget /\ ~gadget' => CleanupStale \/ StopUsb
      /\ mounted /\ ~mounted' => CleanupStale \/ StopUsb
      /\ ~control /\ control' => StartWorker
      /\ ~bound /\ bound' => BindUdc
      /\ generation' # generation =>
             PopulateGadget \/ StopUsb \/ ServiceRestart
<1>1. CASE Setup
  BY <1>1 DEF Setup, linkVars, counterVars, kernelVars, udcVars, ChannelOnly,
      ControlOnly
<1>2. CASE CleanupStale
  <2>1. bound' = FALSE \/ bound' = bound
    BY <1>2 DEF CleanupStale, Unbound, UnboundByKernel
  <2>2. UNCHANGED <<control, generation>> /\ pc = "stale"
    BY <1>2 DEF CleanupStale, linkVars, counterVars
  <2> QED BY <1>2, <2>1, <2>2
<1>3. CASE StartWorker
  BY <1>3 DEF StartWorker, counterVars, kernelVars, udcVars
<1>4. CASE StartWorkerFails
  BY <1>4 DEF StartWorkerFails, linkVars, counterVars, kernelVars, udcVars,
      ChannelOnly, ControlOnly
<1>5. CASE AwaitConfigure
  BY <1>5 DEF AwaitConfigure, linkVars, counterVars, kernelVars, udcVars,
      ReceiveOnly
<1>6. CASE ConfigureMismatch
  BY <1>6 DEF ConfigureMismatch, linkVars, counterVars, kernelVars, udcVars,
      ChannelOnly, ControlOnly
<1>7. CASE ConfigureAbsent
  BY <1>7 DEF ConfigureAbsent, counterVars, kernelVars, udcVars
<1>8. CASE ConfigureDetach
  BY <1>8 DEF ConfigureDetach, linkVars, counterVars, kernelVars, udcVars,
      ChannelOnly, ControlOnly
<1>9. CASE ConfigureReject
  BY <1>9 DEF ConfigureReject, linkVars, counterVars, kernelVars, udcVars,
      ChannelOnly
<1>10. CASE ConfigureReplace
  BY <1>10 DEF ConfigureReplace, counterVars, kernelVars, udcVars
<1>11. CASE Unbind
  <2>1. bound' = FALSE \/ bound' = bound
    BY <1>11 DEF Unbind, Unbound
  <2>2. ~(~control /\ control')
    BY <1>11 DEF Unbind, CloseControl
  <2> QED BY <1>11, <2>1, <2>2 DEF Unbind, counterVars, kernelVars
<1>12. CASE QuiesceSkipped
  BY <1>12 DEF QuiesceSkipped, linkVars, counterVars, kernelVars, udcVars,
      ChannelOnly, ControlOnly
<1>13. CASE SendQuiesce
  BY <1>13 DEF SendQuiesce, counterVars, kernelVars, udcVars
<1>14. CASE Quiesced
  BY <1>14 DEF Quiesced, counterVars, kernelVars, udcVars, CloseControl
<1>15. CASE QuiesceFails
  BY <1>15 DEF QuiesceFails, counterVars, kernelVars, udcVars, CloseControl
<1>16. CASE StopWorker
  BY <1>16 DEF StopWorker, counterVars, kernelVars, udcVars
<1>17. CASE StopUsb
  <2>1. PICK refused \in SUBSET StopUsbCalls : StopUsbRefusing(refused)
    BY <1>17 DEF StopUsb
  <2>2. bound' = FALSE \/ bound' = bound
    BY <2>1 DEF StopUsbRefusing, Unbound, UnboundByKernel
  <2> QED BY <1>17, <2>1, <2>2 DEF StopUsbRefusing, linkVars
<1>18. CASE GenerationOverflow
  BY <1>18 DEF GenerationOverflow, linkVars, counterVars, kernelVars, udcVars,
      ChannelOnly, ControlOnly
<1>19. CASE PopulateGadget
  BY <1>19 DEF PopulateGadget, linkVars, udcVars, Claim
<1>20. CASE MountFunctionfs
  BY <1>20 DEF MountFunctionfs, linkVars, counterVars, udcVars
<1>21. CASE PublishFunctionfs
  BY <1>21 DEF PublishFunctionfs, linkVars, counterVars, kernelVars, udcVars
<1>22. CASE LinkFunction
  BY <1>22 DEF LinkFunction, linkVars, counterVars, kernelVars, udcVars,
      ChannelOnly, ControlOnly
<1>23. CASE SendEndpoints
  BY <1>23 DEF SendEndpoints, linkVars, counterVars, kernelVars, udcVars,
      ChannelOnly
<1>24. CASE AwaitServing
  BY <1>24 DEF AwaitServing, linkVars, counterVars, kernelVars, udcVars,
      ReceiveOnly
<1>25. CASE Dwell
  BY <1>25 DEF Dwell, linkVars, counterVars, kernelVars
<1>26. CASE BindUdc
  BY <1>26 DEF BindUdc, linkVars, counterVars
<1>27. CASE Persist
  BY <1>27 DEF Persist, counterVars, kernelVars, udcVars
<1>28. CASE ServeTop
  BY <1>28 DEF ServeTop, linkVars, counterVars, kernelVars, udcVars
<1>29. CASE Poll
  BY <1>29 DEF Poll, linkVars, counterVars, kernelVars, udcVars, ChannelOnly,
      ControlOnly
<1>30. CASE DrainSignals
  BY <1>30 DEF DrainSignals, linkVars, counterVars, kernelVars, udcVars
<1>31. CASE DispatchSignals
  BY <1>31 DEF DispatchSignals, linkVars, counterVars, kernelVars, udcVars
<1>32. CASE ServeControl
  BY <1>32 DEF ServeControl, linkVars, counterVars, kernelVars, udcVars,
      ChannelOnly
<1>33. CASE Reload
  BY <1>33 DEF Reload, linkVars, counterVars, kernelVars, udcVars,
      ChannelOnly, ControlOnly
<1>34. CASE Ep0Drained
  BY <1>34 DEF Ep0Drained, linkVars, counterVars, kernelVars, udcVars,
      ChannelOnly, ControlOnly
<1>35. ASSUME NEW e \in EventKinds, Ep0Event(e) PROVE Goal
  BY <1>35 DEF Ep0Event, linkVars, counterVars, udcVars
<1>36. CASE ForwardBusEvent
  BY <1>36 DEF ForwardBusEvent, linkVars, counterVars, kernelVars, udcVars,
      ChannelOnly
<1>37. CASE SetupSuperseded
  BY <1>37 DEF SetupSuperseded, linkVars, counterVars, kernelVars, udcVars,
      ChannelOnly, ControlOnly
<1>38. CASE ForwardControlRequest
  BY <1>38 DEF ForwardControlRequest, kernelVars, udcVars
<1>39. CASE AwaitControl
  BY <1>39 DEF AwaitControl, counterVars, kernelVars, udcVars
<1>40. CASE StallEp0
  BY <1>40 DEF StallEp0, linkVars, counterVars, kernelVars, udcVars,
      ChannelOnly, ControlOnly
<1>41. CASE TransferEp0
  BY <1>41 DEF TransferEp0, Transfers, linkVars, counterVars, kernelVars,
      udcVars,
      ChannelOnly, ControlOnly
<1>42. CASE Crash
  <2>1. bound' = FALSE \/ bound' = bound
    BY <1>42 DEF Crash
  <2> QED BY <1>42, <2>1 DEF Crash, linkVars, counterVars
<1>43. CASE Tick
  BY <1>43 DEF Tick, linkVars, counterVars, kernelVars
<1>44. CASE Sigterm
  BY <1>44 DEF Sigterm, linkVars, counterVars, kernelVars, udcVars, Interrupts
<1>45. CASE Sighup
  BY <1>45 DEF Sighup, linkVars, counterVars, kernelVars, udcVars, Interrupts
<1>46. CASE ServiceRestart
  BY <1>46 DEF ServiceRestart, kernelVars
<1>47. ASSUME NEW e \in Events, HostEvent(e) PROVE Goal
  BY <1>47 DEF HostEvent, linkVars, counterVars, udcVars
<1>48. CASE WorkerMove
  BY <1>48, WorkerFrame DEF kernelVars, udcVars, linkVars, counterVars
<1>49. CASE UNCHANGED vars
  BY <1>49 DEF vars, kernelVars, udcVars, linkVars, counterVars
<1> QED BY <1>1, <1>2, <1>3, <1>4, <1>5, <1>6, <1>7, <1>8, <1>9, <1>10, <1>11,
    <1>12, <1>13, <1>14, <1>15, <1>16, <1>17, <1>18, <1>19, <1>20, <1>21,
    <1>22, <1>23, <1>24, <1>25, <1>26, <1>27, <1>28, <1>29, <1>30, <1>31,
    <1>32, <1>33, <1>34, <1>35, <1>36, <1>37, <1>38, <1>39, <1>40, <1>41,
    <1>42,
    <1>43, <1>44, <1>45, <1>46, <1>47, <1>48, <1>49 DEF Next, SupervisorStep,
    WorkerMove, FaultStep, EnvironmentStep, Terminated

\* No path unmounts or removes what a worker could still have open, unless it
\* could not be stopped.
THEOREM EndpointsReleased == Spec => EndpointsReleasedBeforeRemoval
<1>1. ASSUME IInv, [Next]_vars,
             (gadget /\ ~gadget') \/ (mounted /\ ~mounted')
      PROVE  ~EndpointsHeld \/ "stop" \in denied
  <2>1. CASE CleanupStale
    BY <1>1, <2>1, NothingHeld
       DEF CleanupStale, IInv, LinkInv, QuiesceInv, PeerClosed
  <2>2. CASE StopUsb
    BY <1>1, <2>2, NothingHeld DEF StopUsb, IInv, QuiesceInv
  <2> QED BY <1>1, <2>1, <2>2, Changes
<1>2. IInv /\ [Next]_vars =>
          [(gadget /\ ~gadget') \/ (mounted /\ ~mounted') =>
               ~EndpointsHeld \/ "stop" \in denied]_vars
  BY <1>1
<1> QED BY <1>2, Invariance, PTL DEF Spec, EndpointsReleasedBeforeRemoval

\* restart_worker and reload_profile never run two workers, and start the next
\* one from generation zero with no gadget left.
THEOREM OneWorker == Spec => OneWorkerAtATime
<1>1. IInv /\ [Next]_vars =>
          [~control /\ control' =>
               wproc = "none" /\ ~gadget /\ ~mounted /\ generation = 0]_vars
  BY Changes DEF StartWorker, IInv, LinkInv, ObjectInv
<1> QED BY <1>1, Invariance, PTL DEF Spec, OneWorkerAtATime

\* Every bind that is not part of an ejection waits out the dwell.
THEOREM DwellKept == Spec => DwellBeforeRebind
<1>1. IInv /\ [Next]_vars =>
          [~bound /\ bound' => off # "recent" \/ cause # "unbind"]_vars
  BY Changes DEF BindUdc, IInv, DwellInv
<1> QED BY <1>1, Invariance, PTL DEF Spec, DwellBeforeRebind

\* The numbering of generations starts over only when nobody can hold an old
\* generation any more.
THEOREM GenerationsOrdered == Spec => GenerationsGrow
<1>1. ASSUME IInv, [Next]_vars, generation' < generation
      PROVE  pc = "exited" \/ (wproc = "none" /\ ~gadget' /\ ~bound')
  <2>1. CASE PopulateGadget
    <3>1. generation \in Nat /\ generation' = generation + 1
      BY <2>1, <1>1, BoundsAssumption
         DEF PopulateGadget, IInv, TypeOK, CounterOK
    <3> QED BY <1>1, <3>1
  <2>2. CASE ServiceRestart
    BY <2>2 DEF ServiceRestart
  <2>3. CASE StopUsb
    <3>1. PICK refused \in SUBSET StopUsbCalls :
             pc = "stopUsb" /\ StopUsbRefusing(refused)
      BY <2>3 DEF StopUsb
    <3>2. ResetsGeneration /\ refused = {}
      BY <1>1, <3>1, BoundsAssumption
         DEF StopUsbRefusing, IInv, TypeOK, CounterOK
    <3>3. denied = {} /\ wproc = "none"
      BY <1>1, <3>1, <3>2 DEF ResetsGeneration, IInv, TaskInv, LinkInv
    <3>4. ~gadget'
      BY <1>1, <3>1, <3>2, <3>3
         DEF StopUsbRefusing, IInv, ObjectInv, BeliefMatchesKernel
    <3>5. ~bound
      BY <1>1, <3>1, <3>3 DEF IInv, ObjectInv
    <3>6. ~bound'
      BY <3>1, <3>2, <3>5 DEF StopUsbRefusing, Unbound
    <3> QED BY <3>3, <3>4, <3>6
  <2>4. generation' # generation
    BY <1>1, BoundsAssumption DEF IInv, TypeOK, CounterOK
  <2> QED BY <1>1, <2>1, <2>2, <2>3, <2>4, Changes
<1>2. IInv /\ [Next]_vars =>
          [generation' < generation =>
               pc = "exited" \/ (wproc = "none" /\ ~gadget' /\ ~bound')]_vars
  BY <1>1
<1> QED BY <1>2, Invariance, PTL DEF Spec, GenerationsGrow

-----------------------------------------------------------------------------
(* The promise about the gadget.                                           *)

Unhanded == {"populate", "mount", "publish", "link", "sendEndpoints"}

\* What the promise needs to know beside IInv: the files in a worker or on
\* their way to it are of this generation, whose objects exist; a Quiesce is
\* the last the worker is told; and without ep0 there is no generation.
HandInv ==
    /\ EndpointsCurrent
    /\ wfiles => wgen = generation
    /\ QuiesceLast
    /\ wfiles \/ EndpointsQueued =>
           (gadget /\ mounted /\ usb) \/ "stop" \in denied
    /\ pc \in Unhanded => ~wfiles /\ ~EndpointsQueued
    /\ pc \in Serves \cup {"awaitConfigure", "configure", "populate"} /\ ~usb =>
           ~gadget /\ ~mounted
    /\ pc = "populate" => ~usb

\* What is not in the queue is at its end and carries any generation.
LEMMA NoneQueued ==
    /\ ~QuiesceQueued' => QuiesceLast'
    /\ ~EndpointsQueued' => EndpointsCurrent'
BY DEF QuiesceQueued, EndpointsQueued, QuiesceLast, EndpointsCurrent, Holds,
       AtEnd, Carries

\* A record sent behind UsbEndpoints changes nothing about it.
LEMMA SentBehind ==
    ASSUME ChanOK, NEW m \in Records, Send(m), m.kind # "UsbEndpoints",
           UNCHANGED generation, EndpointsCurrent
    PROVE  EndpointsCurrent'
<1>1. toWorker \in Seq(Records) /\ toWorker' = Append(toWorker, m)
  BY DEF ChanOK, Send
<1>2. Carries(toWorker', "UsbEndpoints", generation)
  BY <1>1, AppendQueue DEF EndpointsCurrent
<1> QED
  BY <1>2 DEF EndpointsCurrent, Carries

\* What the worker holds is what was handed over last, in every interleaving.
LEMMA HandInvStep == IInv /\ HandInv /\ [Next]_vars => HandInv'
<1> SUFFICES ASSUME IInv, HandInv, [Next]_vars PROVE HandInv'
  OBVIOUS
<1> USE DEF IInv, HandInv, ServesGeneration, ServingInv, QuiesceInv, LinkInv,
    TaskInv, ObjectInv, BeliefMatchesKernel, Builds, Serves, Unhanded, Links,
    TypeOK, PeerClosed, udcVars
<1>1. CASE Setup
  BY <1>1, SameToWorker DEF Setup, linkVars, counterVars, udcVars,
      workerVars, chanVars, ChannelOnly, ControlOnly, Goto, objectVars,
      kernelVars
<1>2. CASE CleanupStale
  BY <1>2, SameToWorker DEF CleanupStale, linkVars, counterVars,
      workerVars, chanVars, Fail, Goto, Unbound, SweepFailed, UnboundByKernel,
      objectVars, kernelVars
<1>3. CASE StartWorker
  BY <1>3, Booted, NoneQueued DEF StartWorker, counterVars, udcVars, Goto,
      objectVars, kernelVars
<1>4. CASE StartWorkerFails
  BY <1>4, SameToWorker DEF StartWorkerFails, linkVars,
      counterVars, udcVars, workerVars, chanVars, ChannelOnly, ControlOnly,
      Fail, objectVars, kernelVars
<1>5. CASE AwaitConfigure
  BY <1>5, SameToWorker, HeadType DEF AwaitConfigure,
      linkVars, counterVars, udcVars, workerVars, chanVars, ReceiveOnly, Fail,
      PeerClosed, Receives, ReceiveFails, objectVars, kernelVars
<1>6. CASE ConfigureMismatch
  BY <1>6, SameToWorker DEF ConfigureMismatch, linkVars,
      counterVars, udcVars, workerVars, chanVars, ChannelOnly, ControlOnly,
      Fail, Initial, objectVars, kernelVars
<1>7. CASE ConfigureAbsent
  BY <1>7, SameToWorker DEF ConfigureAbsent, counterVars, udcVars,
      workerVars, chanVars, Resume, Initial, objectVars, kernelVars
<1>8. CASE ConfigureDetach
  BY <1>8, SameToWorker DEF ConfigureDetach, linkVars, counterVars,
      udcVars, workerVars, chanVars, ChannelOnly, ControlOnly, Begin,
      objectVars, kernelVars
<1>9. CASE ConfigureReject
  BY <1>9, SameToWorker, Sent, SupervisorRecords, MessageFields,
      KindsMembers DEF ConfigureReject, linkVars, counterVars, udcVars,
      workerVars, chanVars, ChannelOnly, Fail, Resume, Initial, PeerClosed,
      SendFails, SendRejection, objectVars, kernelVars
<1>10. CASE ConfigureReplace
  BY <1>10, SameToWorker DEF ConfigureReplace, counterVars,
      udcVars, workerVars, chanVars, Begin, Initial, objectVars, kernelVars
<1>11. CASE Unbind
  BY <1>11, SameToWorker DEF Unbind, counterVars, udcVars,
      workerVars, chanVars, Goto, FailOr, Fail, CloseControl, AfterUnbind,
      objectVars, kernelVars
<1>12. CASE QuiesceSkipped
  BY <1>12, SameToWorker DEF QuiesceSkipped, linkVars, counterVars,
      udcVars, workerVars, chanVars, ChannelOnly, ControlOnly, Goto,
      objectVars, kernelVars
<1>13. CASE SendQuiesce
  BY <1>13, SameToWorker, Sent, SentBehind, SupervisorRecords, MessageFields,
      KindsMembers DEF SendQuiesce, counterVars, udcVars, workerVars, Goto,
      objectVars, kernelVars
<1>14. CASE Quiesced
  BY <1>14, SameToWorker DEF Quiesced, counterVars,
      udcVars, workerVars, Goto, CloseControl, IsQuiesced, Matches,
      objectVars, kernelVars
<1>15. CASE QuiesceFails
  BY <1>15, SameToWorker DEF QuiesceFails, counterVars,
      udcVars, workerVars, Fail, PeerClosed, SendFails, CloseControl,
      IsQuiesced, Matches, FailOr, objectVars, kernelVars
<1>16. CASE StopWorker
  BY <1>16, SameToWorker DEF StopWorker, counterVars, udcVars,
      chanVars, Goto, PeerClosed, Reaped, FailOr, Fail, objectVars, kernelVars
<1>17. CASE StopUsb
  BY <1>17, SameToWorker, NoneQueued, NoToWorker DEF StopUsb, linkVars,
      workerVars, chanVars, Fail, FailOr, Goto, Resume, StopUsbRefusing,
      AfterStopUsb, ResetsGeneration, objectVars, kernelVars
<1>18. CASE GenerationOverflow
  BY <1>18, SameToWorker DEF GenerationOverflow, linkVars,
      counterVars, udcVars, workerVars, chanVars, ChannelOnly, ControlOnly,
      Fail, objectVars, kernelVars
<1>19. CASE PopulateGadget
  BY <1>19, SameToWorker, NoneQueued DEF PopulateGadget, linkVars, udcVars,
      workerVars, chanVars, Fail, Goto, Attempt, objectVars, kernelVars
<1>20. CASE MountFunctionfs
  BY <1>20, SameToWorker DEF MountFunctionfs, linkVars,
      counterVars, udcVars, workerVars, chanVars, Fail, Goto, objectVars,
      kernelVars
<1>21. CASE PublishFunctionfs
  BY <1>21, SameToWorker DEF PublishFunctionfs, linkVars,
      counterVars, udcVars, workerVars, chanVars, Fail, Goto, objectVars,
      kernelVars
<1>22. CASE LinkFunction
  BY <1>22, SameToWorker DEF LinkFunction, linkVars, counterVars,
      udcVars, workerVars, chanVars, ChannelOnly, ControlOnly, Fail, Goto,
      Attempt, objectVars, kernelVars
<1>23. CASE SendEndpoints
  BY <1>23, SameToWorker, Sent, SupervisorRecords, MessageFields,
      KindsMembers DEF SendEndpoints, linkVars, counterVars, udcVars,
      workerVars, chanVars, ChannelOnly, Fail, Goto, PeerClosed, SendFails,
      objectVars, kernelVars
<1>24. CASE AwaitServing
  BY <1>24, SameToWorker, HeadType DEF AwaitServing,
      linkVars, counterVars, udcVars, workerVars, chanVars, ReceiveOnly,
      Fail, Goto,
      Receives, ReceiveFails, objectVars, kernelVars
<1>25. CASE Dwell
  BY <1>25, SameToWorker DEF Dwell, linkVars, counterVars,
      workerVars, chanVars, Goto, objectVars, kernelVars
<1>26. CASE BindUdc
  BY <1>26, SameToWorker DEF BindUdc, linkVars, counterVars,
      workerVars, chanVars, Fail, Goto, objectVars, kernelVars
<1>27. CASE Persist
  BY <1>27, SameToWorker DEF Persist, counterVars, udcVars,
      workerVars, chanVars, Fail, Resume, objectVars, kernelVars
<1>28. CASE ServeTop
  BY <1>28, SameToWorker DEF ServeTop, linkVars, counterVars,
      udcVars, chanVars, Goto, Begin, PeerClosed, objectVars, kernelVars
<1>29. CASE Poll
  BY <1>29, SameToWorker DEF Poll, linkVars, counterVars, udcVars,
      workerVars, chanVars, ChannelOnly, ControlOnly, objectVars, kernelVars
<1>30. CASE DrainSignals
  BY <1>30, SameToWorker DEF DrainSignals, linkVars, counterVars,
      udcVars, workerVars, chanVars, Goto, objectVars, kernelVars
<1>31. CASE DispatchSignals
  BY <1>31, SameToWorker DEF DispatchSignals, linkVars,
      counterVars, udcVars, workerVars, chanVars, Goto, Begin, Resume,
      objectVars, kernelVars
<1>32. CASE ServeControl
  BY <1>32, SameToWorker, HeadType DEF ServeControl,
      linkVars, counterVars, udcVars, workerVars, chanVars, ChannelOnly, Fail,
      Begin, PeerClosed, objectVars, kernelVars
<1>33. CASE Reload
  BY <1>33, SameToWorker DEF Reload, linkVars, counterVars,
      udcVars, workerVars, chanVars, ChannelOnly, ControlOnly, Fail, Goto,
      objectVars, kernelVars
<1>34. CASE Ep0Drained
  BY <1>34, SameToWorker DEF Ep0Drained, linkVars, counterVars,
      udcVars, workerVars, chanVars, ChannelOnly, ControlOnly, Resume,
      objectVars, kernelVars
<1>35. ASSUME NEW e \in EventKinds, Ep0Event(e) PROVE HandInv'
  BY <1>35, SameToWorker DEF Ep0Event, linkVars, counterVars,
      udcVars, workerVars, chanVars, Goto, objectVars, kernelVars
<1>36. CASE ForwardBusEvent
  BY <1>36, SameToWorker, Sent, SupervisorRecords, MessageFields,
      KindsMembers DEF ForwardBusEvent, linkVars, counterVars, udcVars,
      workerVars, chanVars, ChannelOnly, Fail, Goto, PeerClosed, SendFails,
      objectVars, kernelVars
<1>37. CASE SetupSuperseded
  BY <1>37, SameToWorker DEF SetupSuperseded, Transfers, linkVars,
      counterVars, udcVars, workerVars, chanVars, ChannelOnly, ControlOnly,
      Goto, objectVars, kernelVars
<1>38. CASE ForwardControlRequest
  BY <1>38, SameToWorker, Sent, SupervisorRecords, MessageFields,
      KindsMembers DEF ForwardControlRequest, udcVars, workerVars, chanVars,
      Fail, Goto, PeerClosed, SendFails, objectVars, kernelVars
<1>39. CASE AwaitControl
  BY <1>39, SameToWorker, HeadType DEF AwaitControl,
      counterVars, udcVars, workerVars, chanVars, Fail, Goto, PeerClosed,
      Receives, ReceiveFails, objectVars, kernelVars
<1>40. CASE StallEp0
  BY <1>40, SameToWorker DEF StallEp0, linkVars, counterVars,
      udcVars, workerVars, chanVars, ChannelOnly, ControlOnly, Fail, Goto,
      Attempt, objectVars, kernelVars
<1>41. CASE TransferEp0
  BY <1>41, SameToWorker DEF TransferEp0, Transfers, linkVars, counterVars,
      udcVars, workerVars, chanVars, ChannelOnly, ControlOnly, Fail, Goto,
      Attempt, objectVars, kernelVars
<1>42. CASE WorkerBoots
  BY <1>42, Taken, NoToWorker, NoneQueued DEF WorkerBoots, controlVars,
      linkVars, counterVars, udcVars, notWorker, objectVars, kernelVars
<1>43. CASE WorkerRejected
  BY <1>43, Taken, NoToWorker, NoneQueued DEF WorkerRejected, controlVars,
      linkVars, counterVars, udcVars, notWorker, objectVars, kernelVars
<1>44. CASE WorkerQuiesces
  BY <1>44, Taken, NoToWorker, NoneQueued, MessageFields,
      KindsMembers DEF WorkerQuiesces, controlVars, linkVars, counterVars,
      udcVars, notWorker, objectVars, kernelVars
<1>45. CASE WorkerInstalls
  BY <1>45, Taken, NoToWorker, NoneQueued DEF WorkerInstalls, controlVars,
      linkVars,
      counterVars, udcVars, notWorker, objectVars, kernelVars
<1>46. CASE WorkerAnswers
  BY <1>46, Taken, NoToWorker, NoneQueued, MessageFields,
      KindsMembers DEF WorkerAnswers, controlVars, linkVars, counterVars,
      udcVars, workerVars, notWorker, objectVars, kernelVars
<1>47. CASE WorkerNotes
  BY <1>47, Taken, NoToWorker, NoneQueued DEF WorkerNotes, controlVars,
      linkVars, counterVars, udcVars, workerVars, notWorker, objectVars,
      kernelVars
<1>48. CASE WorkerEof
  BY <1>48, NoToWorker, NoneQueued DEF WorkerEof, controlVars, linkVars,
      counterVars, udcVars, WorkerGone, WorkerEnds, objectVars, kernelVars
<1>49. ASSUME NEW id \in ConfigIds, NEW body \in Bodies, WorkerDeclares(id,
    body) PROVE HandInv'
  BY <1>49, SameToWorker DEF WorkerDeclares,
      controlVars, linkVars, counterVars, udcVars, notWorker, Record,
      objectVars, kernelVars
<1>50. CASE WorkerExits
  BY <1>50, NoToWorker, NoneQueued DEF WorkerExits, controlVars, linkVars,
      counterVars, udcVars, WorkerGone, WorkerEnds, objectVars, kernelVars
<1>51. CASE WorkerWedges
  BY <1>51, SameToWorker DEF WorkerWedges, controlVars, linkVars,
      counterVars, udcVars, chanVars, notWorker, objectVars, kernelVars
<1>52. CASE WorkerGarbles
  BY <1>52, SameToWorker, MessageFields, KindsMembers
      DEF WorkerGarbles, controlVars, linkVars, counterVars, udcVars,
      workerVars, notWorker, objectVars, kernelVars
<1>53. CASE Crash
  BY <1>53, NoToWorker, NoneQueued DEF Crash, linkVars, counterVars,
      WorkerGone, objectVars,
       kernelVars
<1>54. CASE EscalateStop
  BY <1>54, NoToWorker, NoneQueued DEF EscalateStop, controlVars, linkVars,
      counterVars, udcVars, WorkerGone, objectVars, kernelVars
<1>55. CASE Tick
  BY <1>55, SameToWorker DEF Tick, controlVars, linkVars,
      counterVars, workerVars, chanVars, objectVars, kernelVars
<1>56. CASE Sigterm
  BY <1>56, SameToWorker DEF Sigterm, controlVars, linkVars,
      counterVars, udcVars, workerVars, chanVars, Goto, PeerClosed,
      Interrupts, objectVars,
      kernelVars
<1>57. CASE Sighup
  BY <1>57, SameToWorker DEF Sighup, controlVars, linkVars,
      counterVars, udcVars, workerVars, chanVars, Goto, PeerClosed,
      Interrupts, objectVars,
      kernelVars
<1>58. CASE ServiceRestart
  BY <1>58, SameToWorker, NoToWorker, NoneQueued DEF ServiceRestart,
      workerVars, WorkerGone,
      objectVars, kernelVars
<1>59. ASSUME NEW e \in Events, HostEvent(e) PROVE HandInv'
  BY <1>59, SameToWorker DEF HostEvent, controlVars, linkVars,
      counterVars, udcVars, workerVars, chanVars, objectVars, kernelVars
<1>60. CASE UNCHANGED vars
  BY <1>60, SameToWorker DEF vars, controlVars, objectVars,
      linkVars, counterVars, kernelVars, udcVars, workerVars, chanVars,
      PeerClosed, objectVars, kernelVars
<1> QED BY ONLY [Next]_vars, <1>1, <1>2, <1>3, <1>4, <1>5, <1>6, <1>7, <1>8,
    <1>9, <1>10, <1>11, <1>12, <1>13, <1>14, <1>15, <1>16, <1>17, <1>18,
    <1>19, <1>20, <1>21, <1>22, <1>23, <1>24, <1>25, <1>26, <1>27, <1>28,
    <1>29, <1>30, <1>31, <1>32, <1>33, <1>34, <1>35, <1>36, <1>37, <1>38,
    <1>39, <1>40, <1>41, <1>42, <1>43, <1>44, <1>45, <1>46, <1>47, <1>48,
    <1>49,
    <1>50, <1>51, <1>52, <1>53, <1>54, <1>55, <1>56, <1>57, <1>58, <1>59,
    <1>60 DEF Next, SupervisorStep, WorkerStep, WorkerHandles, FaultStep,
    EnvironmentStep, Terminated

-----------------------------------------------------------------------------
(* Every step is one of the gadget's life, or none.                        *)

\* A step the promise does not speak of, the begin of cleanup apart.
Calm ==
    /\ UNCHANGED <<gadget, mounted, bound, generation, wfiles, denied>>
    /\ EndpointsQueued' <=> EndpointsQueued
    /\ Worker' = Worker
    /\ \/ Supervisor' = Supervisor
       \/ Supervisor = "running" /\ Supervisor' = "leaving"

\* The others.
GadgetEvent ==
    \/ Setup \/ CleanupStale \/ StartWorker \/ Unbind \/ StopWorker \/ StopUsb
    \/ PopulateGadget \/ MountFunctionfs \/ SendEndpoints \/ BindUdc
    \/ ServeTop
    \/ WorkerQuiesces \/ WorkerInstalls \/ WorkerEof \/ WorkerExits
    \/ EscalateStop \/ Crash \/ ServiceRestart

\* Messages, signals, time and the host leave the gadget's life as it is.
LEMMA CalmOrEvent == IInv /\ [Next]_vars => Calm \/ GadgetEvent
<1> SUFFICES ASSUME IInv, [Next]_vars PROVE Calm \/ GadgetEvent
  OBVIOUS
<1> USE DEF IInv, Calm, Worker, Supervisor, TypeOK, PeerClosed, udcVars,
    TaskInv, Builds, Serves
<1>1. CASE StartWorkerFails
  BY <1>1, SameToWorker DEF StartWorkerFails, linkVars,
      counterVars, udcVars, workerVars, chanVars, ChannelOnly, ControlOnly,
      Fail, objectVars, kernelVars, controlVars
<1>2. CASE AwaitConfigure
  BY <1>2, SameToWorker, HeadType DEF AwaitConfigure,
      linkVars, counterVars, udcVars, workerVars, chanVars, ReceiveOnly, Fail,
      PeerClosed, Receives, ReceiveFails, objectVars, kernelVars, controlVars
<1>3. CASE ConfigureMismatch
  BY <1>3, SameToWorker DEF ConfigureMismatch, linkVars,
      counterVars, udcVars, workerVars, chanVars, ChannelOnly, ControlOnly,
      Fail, Initial, objectVars, kernelVars, controlVars
<1>4. CASE ConfigureAbsent
  BY <1>4, SameToWorker DEF ConfigureAbsent, counterVars, udcVars,
      workerVars, chanVars, Resume, Initial, objectVars, kernelVars,
      controlVars
<1>5. CASE ConfigureDetach
  BY <1>5, SameToWorker DEF ConfigureDetach, linkVars, counterVars,
      udcVars, workerVars, chanVars, ChannelOnly, ControlOnly, Begin,
      objectVars, kernelVars,
      controlVars
<1>6. CASE ConfigureReject
  BY <1>6, SameToWorker, Sent, SupervisorRecords, MessageFields,
      KindsMembers DEF ConfigureReject, linkVars, counterVars, udcVars,
      workerVars, chanVars, ChannelOnly, Fail, Resume, Initial, PeerClosed,
      SendFails, SendRejection, objectVars, kernelVars, controlVars
<1>7. CASE ConfigureReplace
  BY <1>7, SameToWorker DEF ConfigureReplace, counterVars,
      udcVars, workerVars, chanVars, Begin, Initial, objectVars, kernelVars,
      controlVars
<1>8. CASE QuiesceSkipped
  BY <1>8, SameToWorker DEF QuiesceSkipped, linkVars, counterVars,
      udcVars, workerVars, chanVars, ChannelOnly, ControlOnly, Goto,
      objectVars, kernelVars,
      controlVars
<1>9. CASE SendQuiesce
  BY <1>9, SameToWorker, Sent, SupervisorRecords, MessageFields,
      KindsMembers DEF SendQuiesce, counterVars, udcVars, workerVars, Goto,
      objectVars,
      kernelVars, controlVars, chanVars
<1>10. CASE Quiesced
  BY <1>10, SameToWorker DEF Quiesced, counterVars,
      udcVars, workerVars, Goto, CloseControl, IsQuiesced, Matches,
      objectVars, kernelVars,
      controlVars, chanVars
<1>11. CASE QuiesceFails
  BY <1>11, SameToWorker DEF QuiesceFails, counterVars,
      udcVars, workerVars, Fail, PeerClosed, SendFails, CloseControl,
      IsQuiesced, Matches, FailOr, objectVars, kernelVars, controlVars,
      chanVars
<1>12. CASE GenerationOverflow
  BY <1>12, SameToWorker DEF GenerationOverflow, linkVars,
      counterVars, udcVars, workerVars, chanVars, ChannelOnly, ControlOnly,
      Fail, objectVars, kernelVars, controlVars
<1>13. CASE PublishFunctionfs
  BY <1>13, SameToWorker DEF PublishFunctionfs, linkVars,
      counterVars, udcVars, workerVars, chanVars, Fail, Goto, objectVars,
      kernelVars, controlVars
<1>14. CASE LinkFunction
  BY <1>14, SameToWorker DEF LinkFunction, linkVars, counterVars,
      udcVars, workerVars, chanVars, ChannelOnly, ControlOnly, Fail, Goto,
      Attempt, objectVars, kernelVars, controlVars
<1>15. CASE AwaitServing
  BY <1>15, SameToWorker, HeadType DEF AwaitServing,
      linkVars, counterVars, udcVars, workerVars, chanVars, ReceiveOnly,
      Fail, Goto,
      Receives, ReceiveFails, objectVars, kernelVars, controlVars
<1>16. CASE Dwell
  BY <1>16, SameToWorker DEF Dwell, linkVars, counterVars,
      workerVars, chanVars, Goto, objectVars, kernelVars, controlVars
<1>17. CASE Persist
  BY <1>17, SameToWorker DEF Persist, counterVars, udcVars,
      workerVars, chanVars, Fail, Resume, objectVars, kernelVars, controlVars
<1>18. CASE Poll
  BY <1>18, SameToWorker DEF Poll, linkVars, counterVars, udcVars,
      workerVars, chanVars, ChannelOnly, ControlOnly, objectVars, kernelVars,
      controlVars
<1>19. CASE DrainSignals
  BY <1>19, SameToWorker DEF DrainSignals, linkVars, counterVars,
      udcVars, workerVars, chanVars, Goto, objectVars, kernelVars, controlVars
<1>20. CASE DispatchSignals
  BY <1>20, SameToWorker DEF DispatchSignals, linkVars,
      counterVars, udcVars, workerVars, chanVars, Goto, Begin, Resume,
      objectVars, kernelVars,
      controlVars
<1>21. CASE ServeControl
  BY <1>21, SameToWorker, HeadType DEF ServeControl,
      linkVars, counterVars, udcVars, workerVars, chanVars, ChannelOnly, Fail,
      Begin, PeerClosed, objectVars, kernelVars, controlVars
<1>22. CASE Reload
  BY <1>22, SameToWorker DEF Reload, linkVars, counterVars,
      udcVars, workerVars, chanVars, ChannelOnly, ControlOnly, Fail, Goto,
      objectVars,
      kernelVars, controlVars
<1>23. CASE Ep0Drained
  BY <1>23, SameToWorker DEF Ep0Drained, linkVars, counterVars,
      udcVars, workerVars, chanVars, ChannelOnly, ControlOnly, Resume,
      objectVars, kernelVars,
      controlVars
<1>24. ASSUME NEW e \in EventKinds, Ep0Event(e) PROVE Calm
  BY <1>24, SameToWorker DEF Ep0Event, linkVars, counterVars,
      udcVars, workerVars, chanVars, Goto, objectVars, kernelVars, controlVars
<1>25. CASE ForwardBusEvent
  BY <1>25, SameToWorker, Sent, SupervisorRecords, MessageFields,
      KindsMembers DEF ForwardBusEvent, linkVars, counterVars, udcVars,
      workerVars, chanVars, ChannelOnly, Fail, Goto, PeerClosed, SendFails,
      objectVars,
      kernelVars, controlVars
<1>26. CASE SetupSuperseded
  BY <1>26, SameToWorker DEF SetupSuperseded, Transfers, linkVars,
      counterVars, udcVars, workerVars, chanVars, ChannelOnly, ControlOnly,
      Goto, objectVars, kernelVars, controlVars
<1>27. CASE ForwardControlRequest
  BY <1>27, SameToWorker, Sent, SupervisorRecords, MessageFields,
      KindsMembers DEF ForwardControlRequest, udcVars, workerVars, chanVars,
      Fail, Goto, PeerClosed, SendFails, objectVars, kernelVars, controlVars
<1>28. CASE AwaitControl
  BY <1>28, SameToWorker, HeadType DEF AwaitControl,
      counterVars, udcVars, workerVars, chanVars, Fail, Goto, PeerClosed,
      Receives, ReceiveFails, objectVars, kernelVars, controlVars
<1>29. CASE StallEp0
  BY <1>29, SameToWorker DEF StallEp0, linkVars, counterVars,
      udcVars, workerVars, chanVars, ChannelOnly, ControlOnly, Fail, Goto,
      Attempt, objectVars, kernelVars, controlVars
<1>30. CASE TransferEp0
  BY <1>30, SameToWorker DEF TransferEp0, Transfers, linkVars, counterVars,
      udcVars, workerVars, chanVars, ChannelOnly, ControlOnly, Fail, Goto,
      Attempt, objectVars, kernelVars, controlVars
<1>31. CASE WorkerBoots
  BY <1>31, Taken DEF WorkerBoots, controlVars,
      linkVars, counterVars, udcVars, notWorker, objectVars, kernelVars,
      workerVars, chanVars
<1>32. CASE WorkerRejected
  BY <1>32, Taken DEF WorkerRejected, controlVars,
      linkVars, counterVars, udcVars, notWorker, objectVars, kernelVars,
      workerVars, chanVars
<1>33. CASE WorkerAnswers
  BY <1>33, Taken, MessageFields,
      KindsMembers DEF WorkerAnswers, controlVars, linkVars, counterVars,
      udcVars, workerVars, notWorker, objectVars, kernelVars, chanVars
<1>34. CASE WorkerNotes
  BY <1>34, Taken DEF WorkerNotes, controlVars,
      linkVars, counterVars, udcVars, workerVars, notWorker, objectVars,
      kernelVars, chanVars
<1>35. ASSUME NEW id \in ConfigIds, NEW body \in Bodies, WorkerDeclares(id,
    body) PROVE Calm
  BY <1>35, SameToWorker DEF WorkerDeclares,
      controlVars, linkVars, counterVars, udcVars, notWorker, Record,
      objectVars, kernelVars,
      workerVars, chanVars
<1>36. CASE WorkerWedges
  BY <1>36, SameToWorker DEF WorkerWedges, controlVars, linkVars,
      counterVars, udcVars, chanVars, notWorker, objectVars, kernelVars,
      workerVars
<1>37. CASE WorkerGarbles
  BY <1>37, SameToWorker, MessageFields, KindsMembers
      DEF WorkerGarbles, controlVars, linkVars, counterVars, udcVars,
      workerVars, notWorker, objectVars, kernelVars, chanVars
<1>38. CASE Tick
  BY <1>38, SameToWorker DEF Tick, controlVars, linkVars,
      counterVars, workerVars, chanVars, objectVars, kernelVars
<1>39. CASE Sigterm
  BY <1>39, SameToWorker DEF Sigterm, controlVars, linkVars,
      counterVars, udcVars, workerVars, chanVars, Goto, PeerClosed,
      Interrupts, objectVars,
      kernelVars
<1>40. CASE Sighup
  BY <1>40, SameToWorker DEF Sighup, controlVars, linkVars,
      counterVars, udcVars, workerVars, chanVars, Goto, PeerClosed,
      Interrupts, objectVars,
      kernelVars
<1>41. ASSUME NEW e \in Events, HostEvent(e) PROVE Calm
  BY <1>41, SameToWorker DEF HostEvent, controlVars, linkVars,
      counterVars, udcVars, workerVars, chanVars, objectVars, kernelVars
<1>42. CASE UNCHANGED vars
  BY <1>42, SameToWorker DEF vars, controlVars, objectVars,
      linkVars, counterVars, kernelVars, udcVars, workerVars, chanVars,
      PeerClosed, objectVars, kernelVars
<1> QED
  BY ONLY [Next]_vars, <1>1, <1>2, <1>3, <1>4, <1>5, <1>6, <1>7, <1>8, <1>9,
      <1>10, <1>11, <1>12,
       <1>13, <1>14, <1>15, <1>16, <1>17, <1>18, <1>19, <1>20, <1>21, <1>22,
       <1>23, <1>24, <1>25,
       <1>26, <1>27, <1>28, <1>29, <1>30, <1>31, <1>32, <1>33, <1>34, <1>35,
       <1>36, <1>37, <1>38, <1>39,
       <1>40, <1>41, <1>42
     DEF GadgetEvent, Next, SupervisorStep, WorkerStep, WorkerHandles,
         FaultStep, EnvironmentStep, Terminated

\* With what is known of them, two facts say what the endpoints are.
LEMMA EndpointsAre ==
    ASSUME TypeOK, HandInv
    PROVE  /\ wfiles => Endpoints = "open"
           /\ ~wfiles /\ EndpointsQueued => Endpoints = "offered"
           /\ ~wfiles /\ ~EndpointsQueued => Endpoints = "closed"
<1>1. (wfiles => wgen = generation) /\ wfiles \in BOOLEAN
  BY DEF HandInv, TypeOK, WorkerOK
<1>2. toWorker \in Seq(Records)
  BY DEF TypeOK, ChanOK
<1>3. EndpointsHeld <=> wfiles \/ EndpointsQueued
  BY <1>2 DEF EndpointsHeld, EndpointsQueued, Holds
<1> QED
  BY <1>1, <1>3 DEF Endpoints

\* The same after a step.
LEMMA EndpointsWillBe ==
    ASSUME TypeOK', HandInv'
    PROVE  /\ wfiles' => Endpoints' = "open"
           /\ ~wfiles' /\ EndpointsQueued' => Endpoints' = "offered"
           /\ ~wfiles' /\ ~EndpointsQueued' => Endpoints' = "closed"
<1>1. (wfiles' => wgen' = generation') /\ wfiles' \in BOOLEAN
  BY DEF HandInv, TypeOK, WorkerOK
<1>2. toWorker' \in Seq(Records)
  BY DEF TypeOK, ChanOK
<1>3. EndpointsHeld' <=> wfiles' \/ EndpointsQueued'
  BY <1>2 DEF EndpointsHeld, EndpointsQueued, Holds
<1> QED
  BY <1>1, <1>3 DEF Endpoints

\* What the kernel has, in the words of the promise.
LEMMA ObjectsAre ==
    /\ Objects = {} <=> ~gadget /\ ~mounted
    /\ Objects = {"gadget"} <=> gadget /\ ~mounted
    /\ Objects = Device!Whole <=> gadget /\ mounted
    /\ Objects \in SUBSET Device!Whole
    /\ "gadget" \in Objects <=> gadget
    /\ "gadget" \in Objects' <=> gadget'
    /\ (gadget' => gadget) /\ (mounted' => mounted) => Objects' \subseteq Objects
    /\ Objects' = {} <=> ~gadget' /\ ~mounted'
    /\ Objects' = {"gadget"} <=> gadget' /\ ~mounted'
    /\ Objects' = Device!Whole <=> gadget' /\ mounted'
    /\ (gadget' <=> gadget) /\ (mounted' <=> mounted) => Objects' = Objects
BY DEF Objects, Device!Whole

\* The initial states are initial states of the promise.
LEMMA GadgetInit == Init => Device!Init
<1> SUFFICES ASSUME Init PROVE Device!Init
  OBVIOUS
<1>1. /\ Supervisor = "starting" /\ Worker = "none" /\ generation = 0
      /\ denied = {}
  BY DEF Init, Supervisor, Worker
<1>2. Endpoints = "closed"
  BY DEF Init, Endpoints, EndpointsHeld
<1>3. bound \in {FALSE, "gadget" \in Objects}
  BY ObjectsAre DEF Init
<1> QED
  BY <1>1, <1>2, <1>3, ObjectsAre DEF Device!Init

\* HandInv holds at the start: there is no queue and no ep0 yet.
LEMMA HandInvInit == Init => HandInv
BY DEF Init, HandInv, EndpointsCurrent, QuiesceLast, EndpointsQueued, Holds,
       AtEnd, Carries, Unhanded, Serves

\* One step of the promise for each event.
LEMMA GadgetStep ==
    ASSUME IInv, HandInv, TypeOK', HandInv', [Next]_vars
    PROVE  [Device!Next]_(Device!gadgetVars)
<1> DEFINE Step == Device!Next \/ UNCHANGED Device!gadgetVars
           Closed == Endpoints = "closed" /\ Endpoints' = "closed"
<1> SUFFICES Step
  OBVIOUS
<1>0. TypeOK
  BY DEF IInv
<1>1. ASSUME Calm  PROVE Step
  <2>1. Endpoints' = Endpoints /\ Objects' = Objects
    BY <1>0, <1>1, EndpointsAre, EndpointsWillBe, ObjectsAre DEF Calm
  <2> QED
    BY <1>1, <2>1 DEF Calm, Device!gadgetVars, Device!Next, Device!Leave
<1>2. ASSUME UNCHANGED <<toWorker, wfiles>>  PROVE Endpoints' = Endpoints
  BY <1>0, <1>2, SameToWorker, EndpointsAre, EndpointsWillBe
<1>3. PeerClosed => Endpoints = "closed"
  BY <1>0, EndpointsAre DEF IInv, QuiesceInv, EndpointsQueued, Holds
<1>4. toWorker' = <<>> /\ ~wfiles' => Endpoints' = "closed"
  BY NoToWorker, EndpointsWillBe
\* A step in which a teardown call is refused, or that comes after one.
<1>a. ASSUME UNCHANGED <<toWorker, wfiles, wproc, generation>>,
             Supervisor # "down", denied' # {},
             \/ Supervisor' = "leaving"
             \/ Supervisor = "leaving" /\ Supervisor' = "down",
             gadget' => gadget, mounted' => mounted,
             \/ UNCHANGED <<gadget, mounted>>
             \/ Endpoints = "closed"
             \/ denied # {},
             bound' \in {FALSE, bound}, bound' => gadget'
      PROVE  Step
  <2>1. Worker' = Worker /\ Endpoints' = Endpoints
    BY <1>2, <1>a DEF Worker
  <2>2. /\ Objects' \subseteq Objects
        /\ Objects' # Objects => Endpoints = "closed" \/ denied # {}
        /\ bound' => "gadget" \in Objects'
    BY <1>a, ObjectsAre
  <2>3. Device!GiveUp
    BY <1>a, <2>1, <2>2 DEF Device!GiveUp
  <2> QED
    BY <2>3 DEF Device!Next
<1> HIDE DEF Step
<1>5. CASE Setup
  <2>1. /\ pc = "setup" /\ pc' \in {"stale", "exited"}
        /\ UNCHANGED <<toWorker, wfiles, wproc, gadget, mounted, bound,
                       generation, denied>>
    BY <1>5 DEF Setup, Goto, ControlOnly, ChannelOnly, kernelVars, udcVars,
                workerVars, chanVars, counterVars
  <2>2. wproc = "none"
    BY <2>1 DEF IInv, LinkInv
  <2>3. Endpoints' = "closed" /\ Endpoints = "closed"
    BY <1>2, <1>3, <2>1, <2>2 DEF PeerClosed
  <2>4. /\ Worker = "none" /\ Worker' = "none" /\ Supervisor = "starting"
        /\ Supervisor' \in {"starting", "down"} /\ Objects' = Objects
    BY <2>1, <2>2, ObjectsAre DEF Worker, Supervisor
  <2> QED
    BY <2>1, <2>3, <2>4 DEF Step, Device!Next, Device!Crash, Device!gadgetVars
<1>6. CASE CleanupStale
  <2>1. /\ pc = "stale" /\ wproc = "none" /\ denied = {}
        /\ UNCHANGED <<toWorker, wfiles, wproc, generation>>
    BY <1>6 DEF CleanupStale, workerVars, chanVars, counterVars, IInv, LinkInv,
                TaskInv
  <2>2. Endpoints' = "closed" /\ Endpoints = "closed"
    BY <1>2, <1>3, <2>1 DEF PeerClosed
  <2>3. Worker = "none" /\ Worker' = "none" /\ Supervisor = "starting"
    BY <2>1 DEF Worker, Supervisor
  <2>4. /\ gadget' => gadget
        /\ mounted' => mounted
        /\ bound' \in {FALSE, bound}
        /\ bound' => gadget'
    BY <1>6 DEF CleanupStale, Unbound, UnboundByKernel
  <2>5. CASE denied' # {}
    <3>1. Fail
      BY <1>6, <2>1, <2>5 DEF CleanupStale
    <3>2. Supervisor' = "leaving"
      BY <3>1 DEF Fail, Supervisor
    <3> QED
      BY <1>a, <2>1, <2>2, <2>3, <2>4, <2>5, <3>2
  <2>6. CASE denied' = {}
    <3>1. ~gadget' /\ ~mounted' /\ Goto("start")
      <4>1. denied' # denied \cup {"sweep"}
        BY <2>6
      <4>2. PICK refused :
               /\ ~SweepFailed(refused) /\ Goto("start")
               /\ gadget' = ("remove" \in refused)
               /\ mounted' = (mounted /\ ("remove" \in refused
                                           \/ "umount" \in refused))
        BY <1>6, <4>1 DEF CleanupStale
      <4>3. "remove" \notin refused /\ "umount" \notin refused
        BY <4>2 DEF SweepFailed
      <4> QED
        BY <4>2, <4>3
    <3>2. bound' = FALSE
      BY <2>4, <3>1
    <3>3. pc' = "start" /\ task' # "cleanup"
      BY <2>1, <3>1 DEF IInv, TaskInv, Goto
    <3>4. Supervisor' = "running" /\ Objects' = {}
      BY <3>1, <3>3, ObjectsAre DEF Supervisor
    <3> QED
      BY <2>1, <2>2, <2>3, <2>6, <3>2, <3>4
         DEF Step, Device!Next, Device!Sweep
  <2> QED
    BY <2>5, <2>6
<1>7. CASE StartWorker
  <2>1. /\ pc = "start" /\ wproc = "none" /\ ~gadget /\ ~mounted
        /\ generation = 0
        /\ pc' = "awaitConfigure" /\ wproc' = "running" /\ wfiles' = FALSE
        /\ task # "cleanup" /\ task' = task
        /\ UNCHANGED <<gadget, mounted, bound, generation, denied>>
    BY <1>7 DEF StartWorker, Goto, kernelVars, udcVars, counterVars, IInv,
                LinkInv, ObjectInv, TaskInv
  <2>2. ~EndpointsQueued'
    BY <1>7, Booted DEF StartWorker
  <2>3. Endpoints = "closed" /\ Endpoints' = "closed"
    BY <1>3, <2>1, <2>2, EndpointsWillBe DEF PeerClosed
  <2>4. /\ Worker = "none" /\ Worker' = "alive" /\ Supervisor = "running"
        /\ Supervisor' = "running" /\ Objects' = Objects /\ Objects = {}
    BY <2>1, ObjectsAre DEF Worker, Supervisor
  <2> QED
    BY <2>1, <2>3, <2>4 DEF Step, Device!Next, Device!Start
<1>8. CASE Unbind
  <2>1. /\ pc = "unbind"
        /\ UNCHANGED <<toWorker, wfiles, wproc, gadget, mounted, generation>>
    BY <1>8 DEF Unbind, CloseControl, kernelVars, workerVars, chanVars,
                counterVars
  <2>2. CASE Goto(AfterUnbind) /\ UNCHANGED denied
    <3>1. bound' = bound \/ (bound /\ bound' = FALSE)
      BY <1>8, <2>2
         DEF Unbind, Unbound, udcVars, IInv, TypeOK, UdcOK
    <3>2. pc' \in {"sendQuiesce", "stopWorker"} /\ task' = task
      BY <2>2 DEF Goto, AfterUnbind
    <3>3. /\ Worker' = Worker /\ Supervisor \in {"running", "leaving"}
          /\ Supervisor' = Supervisor /\ Objects' = Objects
      BY <2>1, <3>2, ObjectsAre DEF Worker, Supervisor
    <3> QED
      BY <1>2, <2>1, <2>2, <3>1, <3>3
         DEF Step, Device!Next, Device!Detach, Device!gadgetVars
  <2>3. CASE FailOr(AfterUnbind) /\ denied' # {} /\ UNCHANGED bound
    <3>1. task' = "cleanup" /\ pc' \in {"unbind", "sendQuiesce", "stopWorker"}
      BY <2>3 DEF FailOr, Fail, AfterUnbind
    <3>2. Supervisor # "down" /\ Supervisor' = "leaving"
      BY <2>1, <3>1 DEF Supervisor
    <3>3. bound' => gadget'
      BY <2>1, <2>3 DEF IInv, ObjectInv
    <3> QED
      BY <1>a, <2>1, <2>3, <3>2, <3>3
  <2> QED
    BY <1>8, <2>2, <2>3 DEF Unbind
<1>9. CASE StopWorker \/ ServeTop
  <2>1. /\ pc \in {"stopWorker", "serve"}
        /\ UNCHANGED <<toWorker, wfiles, gadget, mounted, bound, generation>>
    BY <1>9 DEF StopWorker, ServeTop, kernelVars, udcVars, chanVars,
                counterVars
  <2>2. Supervisor \in {"running", "leaving"} /\ Objects' = Objects
    BY <2>1, ObjectsAre DEF Supervisor
  <2>3. CASE /\ wproc' = wproc \/ (PeerClosed /\ wproc' = "none")
             /\ UNCHANGED denied
             /\ pc' \in {"stopUsb", "unbind", "poll"}
             /\ task' = "cleanup" <=> task = "cleanup"
    <3>1. /\ Supervisor' = Supervisor
          /\ Worker' = Worker \/ (Worker = "dead" /\ Worker' = "none")
      BY <2>1, <2>3 DEF Worker, Supervisor, PeerClosed
    <3> QED
      BY <1>2, <2>1, <2>2, <2>3, <3>1
         DEF Step, Device!Next, Device!Reap, Device!gadgetVars
  <2>4. CASE /\ UNCHANGED <<wproc, denied>>
             /\ pc' = "unbind" /\ task' = "cleanup" /\ task # "cleanup"
    <3>1. /\ Supervisor = "running" /\ Supervisor' = "leaving"
          /\ Worker' = Worker
      BY <2>1, <2>4 DEF Worker, Supervisor
    <3> QED
      BY <1>2, <2>1, <2>2, <2>4, <3>1
         DEF Step, Device!Next, Device!Leave
  <2>5. CASE /\ UNCHANGED wproc /\ denied' # {}
             /\ pc' \in {"unbind", "stopUsb"} /\ task' = "cleanup"
    <3>1. Supervisor' = "leaving"
      BY <2>5 DEF Supervisor
    <3>2. bound' => gadget'
      BY <2>1 DEF IInv, ObjectInv
    <3> QED
      BY <1>a, <2>1, <2>2, <2>5, <3>1, <3>2
  <2>6. CASE StopWorker
    BY <2>3, <2>5, <2>6 DEF StopWorker, Goto, FailOr, Fail
  <2>7. CASE ServeTop
    BY <2>3, <2>4, <2>7 DEF ServeTop, Goto, Begin, udcVars, IInv, TaskInv,
    Serves
  <2> QED
    BY <1>9, <2>6, <2>7
<1>10. CASE StopUsb
  <2>1. PICK refused \in SUBSET StopUsbCalls : StopUsbRefusing(refused)
    BY <1>10 DEF StopUsb
  <2>2. /\ pc = "stopUsb"
        /\ task \in {"replace", "detach", "restart", "reload", "cleanup"}
        /\ UNCHANGED <<toWorker, wfiles, wproc>>
        /\ denied' = denied \cup refused
    BY <1>10, <2>1
       DEF StopUsb, StopUsbRefusing, workerVars, chanVars, IInv, TaskInv
  <2>3. Endpoints = "closed" \/ denied # {}
    BY <1>0, <2>2, EndpointsAre DEF EndpointsQueued, Holds, IInv, QuiesceInv
  <2>4. CASE denied' # {}
    <3>1. \/ task # "cleanup" /\ Fail
          \/ task = "cleanup" /\ pc' = "exited"
      <4>1. CASE refused # {}
        BY <2>1, <4>1 DEF StopUsbRefusing, FailOr
      <4>2. CASE refused = {}
        <5>1. task = "cleanup"
          BY <2>2, <2>4, <4>2 DEF IInv, TaskInv
        <5> QED
          BY <2>1, <4>2, <5>1 DEF StopUsbRefusing, AfterStopUsb, Goto
      <4> QED BY <4>1, <4>2
    <3>2. /\ Supervisor # "down"
          /\ \/ Supervisor' = "leaving"
             \/ Supervisor = "leaving" /\ Supervisor' = "down"
      BY <2>2, <3>1 DEF Supervisor, Fail
    <3>3. (gadget' => gadget) /\ (mounted' => mounted)
      BY <2>1 DEF StopUsbRefusing
    <3>4. bound' \in {FALSE, bound} /\ (bound' => gadget')
      BY <2>1 DEF StopUsbRefusing, Unbound, UnboundByKernel, IInv, ObjectInv
    <3>5. generation' = generation
      BY <2>1, <2>2, <2>4
         DEF StopUsbRefusing, ResetsGeneration, IInv, TaskInv
    <3> QED
      BY <1>a, <2>2, <2>3, <2>4, <3>2, <3>3, <3>4, <3>5
  <2>5. CASE denied' = {}
    <3>1. refused = {} /\ denied = {}
      BY <2>2, <2>5
    <3>2. ~gadget' /\ ~mounted'
      <4>1. /\ "remove" \notin denied /\ denied \cap {"umount", "sweep"} = {}
            /\ "remove" \notin refused /\ "umount" \notin refused
        BY <3>1
      <4>2. (gadget => owns_gadget) /\ (mounted => functionfs_mounted)
        BY <2>2, <4>1 DEF IInv, ObjectInv, BeliefMatchesKernel
      <4> QED
        BY <2>1, <4>1, <4>2 DEF StopUsbRefusing
    <3>3. ~bound /\ bound' = bound
      BY <2>1, <2>2, <3>1
         DEF StopUsbRefusing, Unbound, IInv, ObjectInv, TypeOK, UdcOK
    <3>4. Endpoints = "closed" /\ Endpoints' = "closed"
      BY <1>2, <2>2, <2>3, <3>1
    <3>5. Worker' = Worker /\ Objects' = {}
      BY <2>2, <3>2, ObjectsAre DEF Worker
    <3>6. task \in {"restart", "reload", "cleanup"} => Worker = "none"
      BY <2>2, <3>1 DEF IInv, LinkInv, Worker
    <3>7. AfterStopUsb
      BY <2>1, <3>1 DEF StopUsbRefusing
    <3>8. generation' = IF ResetsGeneration THEN 0 ELSE generation
      BY <2>1, <3>1 DEF StopUsbRefusing
    <3>9. CASE task \in {"replace", "detach"}
      <4>1. /\ pc' \in {"populate", "serve"} /\ task' # "cleanup"
            /\ generation' = generation
        BY <3>7, <3>8, <3>9 DEF AfterStopUsb, Goto, Resume, ResetsGeneration
      <4>2. Supervisor = "running" /\ Supervisor' = "running"
        BY <2>2, <3>9, <4>1 DEF Supervisor
      <4> QED
        BY <2>5, <3>1, <3>3, <3>4, <3>5, <4>1, <4>2
           DEF Step, Device!Next, Device!Remove
    <3>10. CASE task \in {"restart", "reload"}
      <4>1. pc' \in {"start", "stale"} /\ task' = task /\ generation' = 0
        BY <3>7, <3>8, <3>10 DEF AfterStopUsb, Goto, ResetsGeneration
      <4>2. Supervisor = "running" /\ Supervisor' \in {"running", "starting"}
        BY <2>2, <3>10, <4>1 DEF Supervisor
      <4> QED
        BY <2>5, <3>1, <3>3, <3>4, <3>5, <3>6, <3>10, <4>1, <4>2
           DEF Step, Device!Next, Device!StartOver
    <3>11. CASE task = "cleanup"
      <4>1. pc' = "exited" /\ generation' = generation
        BY <3>7, <3>8, <3>11 DEF AfterStopUsb, Goto, ResetsGeneration
      <4>2. Supervisor = "leaving" /\ Supervisor' = "down"
        BY <2>2, <3>11, <4>1 DEF Supervisor
      <4> QED
        BY <2>5, <3>1, <3>3, <3>4, <3>5, <3>6, <3>11, <4>1, <4>2
           DEF Step, Device!Next, Device!Exit
    <3> QED
      BY <2>2, <3>9, <3>10, <3>11
  <2> QED
    BY <2>4, <2>5
<1>11. CASE PopulateGadget
  <2>1. /\ pc = "populate" /\ pc' \in {"mount", "unbind"} /\ task # "cleanup"
        /\ generation' = generation + 1
        /\ UNCHANGED <<toWorker, wfiles, wproc, mounted, bound, denied>>
    BY <1>11 DEF PopulateGadget, Attempt, Goto, Fail, udcVars, workerVars,
                 chanVars, IInv, TaskInv, Builds
  <2>2. ~gadget /\ ~mounted /\ ~wfiles /\ ~EndpointsQueued
    BY <2>1 DEF HandInv, Unhanded
  <2>3. Endpoints = "closed" /\ Endpoints' = "closed"
    BY <1>0, <1>2, <2>1, <2>2, EndpointsAre
  <2>4. /\ Worker' = Worker /\ Supervisor = "running"
        /\ Supervisor' \in {"running", "leaving"} /\ Objects = {}
        /\ Objects' \in {{}, {"gadget"}}
    BY <2>1, <2>2, ObjectsAre DEF Worker, Supervisor
  <2> QED
    BY <2>1, <2>3, <2>4 DEF Step, Device!Next, Device!Number
<1>12. CASE MountFunctionfs
  <2>1. /\ pc = "mount" /\ gadget /\ ~bound /\ task # "cleanup"
        /\ UNCHANGED <<toWorker, wfiles, wproc, gadget, bound, generation,
                       denied>>
        /\ \/ mounted' = TRUE /\ pc' = "publish" /\ task' = task
           \/ UNCHANGED mounted /\ pc' = "unbind" /\ task' = "cleanup"
    BY <1>12 DEF MountFunctionfs, Goto, Fail, udcVars, workerVars, chanVars,
                 counterVars, IInv, ObjectInv, Builds, TaskInv
  <2>2. Worker' = Worker /\ Supervisor = "running"
    BY <2>1 DEF Worker, Supervisor
  <2>3. \/ /\ Supervisor' = "running"
           /\ \/ Objects' = Objects
              \/ Objects = {"gadget"} /\ Objects' = Device!Whole
        \/ Supervisor' = "leaving" /\ Objects' = Objects
    BY <2>1, ObjectsAre DEF Supervisor
  <2> QED
    BY <1>2, <2>1, <2>2, <2>3
       DEF Step, Device!Next, Device!Mount, Device!Leave, Device!gadgetVars
<1>13. CASE SendEndpoints
  <2>1. /\ pc = "sendEndpoints" /\ gadget /\ mounted /\ ~bound
        /\ ~wfiles /\ ~EndpointsQueued /\ task # "cleanup"
        /\ UNCHANGED <<wfiles, wproc, gadget, mounted, bound, generation,
                       denied>>
    BY <1>13 DEF SendEndpoints, ChannelOnly, kernelVars, udcVars,
                 workerVars, counterVars, IInv, ObjectInv, Builds, Links,
                 HandInv, Unhanded, TaskInv
  <2>2. /\ Worker' = Worker /\ Supervisor = "running" /\ Objects' = Objects
        /\ Objects = Device!Whole /\ Endpoints = "closed"
    BY <1>0, <2>1, ObjectsAre, EndpointsAre DEF Worker, Supervisor
  <2>3. CASE UNCHANGED toWorker /\ Fail
    <3>1. Supervisor' = "leaving"
      BY <2>3 DEF Fail, Supervisor
    <3> QED
      BY <1>2, <2>1, <2>2, <2>3, <3>1 DEF Step, Device!Next, Device!Leave
  <2>4. CASE /\ Send(Message("UsbEndpoints", generation, decl.request_id))
             /\ Goto("awaitServing")
    <3>1. EndpointsQueued' /\ ~PeerClosed
      BY <1>0, <2>4, Sent, SupervisorRecords, MessageFields, KindsMembers
         DEF TypeOK
    <3>2. /\ Endpoints' = "offered" /\ Worker = "alive"
          /\ Supervisor' = "running"
      BY <2>1, <2>4, <3>1, EndpointsWillBe
         DEF Worker, PeerClosed, Supervisor, Goto
    <3> QED
      BY <2>1, <2>2, <3>2 DEF Step, Device!Next, Device!Offer
  <2> QED
    BY <1>13, <2>3, <2>4 DEF SendEndpoints, chanVars
<1>14. CASE BindUdc
  <2>1. /\ pc = "bind" /\ gadget /\ mounted /\ ~bound /\ task # "cleanup"
        /\ UNCHANGED <<toWorker, wfiles, wproc, gadget, mounted, generation,
                       denied>>
        /\ \/ bound' = TRUE /\ pc' = "persist" /\ task' = task
           \/ UNCHANGED bound /\ pc' = "unbind" /\ task' = "cleanup"
        /\ ~PeerClosed => wfiles
    BY <1>14 DEF BindUdc, Goto, Fail, workerVars, chanVars, counterVars, IInv,
                 ObjectInv, Builds, Links, ServingInv, ServesGeneration,
                 TaskInv
  <2>2. /\ Worker' = Worker /\ Supervisor = "running" /\ Objects' = Objects
        /\ Objects = Device!Whole
        /\ Worker = "alive" => Endpoints = "open"
    BY <1>0, <2>1, ObjectsAre, EndpointsAre DEF Worker, Supervisor, PeerClosed
  <2>3. \/ bound' = TRUE /\ Supervisor' = "running"
        \/ UNCHANGED bound /\ Supervisor' = "leaving"
    BY <2>1 DEF Supervisor
  <2> QED
    BY <1>2, <2>1, <2>2, <2>3
       DEF Step, Device!Next, Device!Attach, Device!Leave
<1>15. CASE WorkerQuiesces
  <2>1. /\ Takes("Quiesce") /\ wfiles' = FALSE
        /\ UNCHANGED <<pc, task, wproc, gadget, mounted, bound, generation,
                       denied>>
    BY <1>15 DEF WorkerQuiesces, notWorker, controlVars, kernelVars, udcVars,
                 counterVars
  <2>2. /\ QuiesceQueued /\ toWorker' = <<>> /\ ~PeerClosed
    BY <1>0, <2>1, Taken DEF TypeOK, HandInv
  <2>3. ~bound \/ denied # {}
    BY <2>2 DEF IInv, QuiesceInv, ServingInv, ObjectInv
  <2>4. /\ Worker' = Worker /\ Worker = "alive" /\ Supervisor' = Supervisor
        /\ Objects' = Objects
    BY <2>1, <2>2, ObjectsAre DEF Worker, Supervisor, PeerClosed
  <2> QED
    BY <1>4, <2>1, <2>2, <2>3, <2>4 DEF Step, Device!Next, Device!Close
<1>16. CASE WorkerInstalls
  <2>1. /\ Takes("UsbEndpoints") /\ wfiles' = TRUE
        /\ UNCHANGED <<pc, task, wproc, gadget, mounted, bound, generation,
                       denied>>
    BY <1>16 DEF WorkerInstalls, notWorker, controlVars, kernelVars, udcVars,
                 counterVars
  <2>2. EndpointsQueued /\ ~PeerClosed
    BY <1>0, <2>1, Taken DEF TypeOK
  <2>3. ~bound
    BY <2>2 DEF IInv, ServingInv
  <2>4. /\ Worker' = Worker /\ Worker = "alive" /\ Supervisor' = Supervisor
        /\ Objects' = Objects
        /\ Endpoints \in {"open", "offered"} /\ Endpoints' = "open"
    BY <1>0, <2>1, <2>2, ObjectsAre, EndpointsAre, EndpointsWillBe
       DEF Worker, Supervisor, PeerClosed
  <2> QED
    BY <2>1, <2>3, <2>4 DEF Step, Device!Next, Device!Open, Device!gadgetVars
<1>17. CASE WorkerEof \/ WorkerExits \/ EscalateStop
  <2>1. /\ wproc \in {"running", "wedged"} /\ wproc' = "zombie"
        /\ toWorker' = <<>> /\ ~wfiles'
        /\ UNCHANGED <<pc, task, gadget, mounted, bound, generation, denied>>
    BY <1>17 DEF WorkerEof, WorkerExits, EscalateStop, WorkerEnds, WorkerGone,
                 controlVars, kernelVars, udcVars, counterVars
  <2>2. /\ Worker = "alive" /\ Worker' = "dead" /\ Supervisor' = Supervisor
        /\ Objects' = Objects /\ Endpoints' = "closed"
    BY <1>4, <2>1, ObjectsAre DEF Worker, Supervisor
  <2> QED
    BY <2>1, <2>2 DEF Step, Device!Next, Device!Die
<1>18. CASE Crash
  <2>1. /\ pc # "exited" /\ pc' = "exited" /\ wproc' = "none"
        /\ toWorker' = <<>> /\ ~wfiles' /\ bound' \in {FALSE, bound}
        /\ UNCHANGED <<gadget, mounted, generation, denied>>
    BY <1>18 DEF Crash, WorkerGone, counterVars
  <2>2. /\ Supervisor # "down" /\ Supervisor' = "down" /\ Worker' = "none"
        /\ Objects' = Objects /\ Endpoints' = "closed"
    BY <1>4, <2>1, ObjectsAre DEF Worker, Supervisor
  <2> QED
    BY <2>1, <2>2 DEF Step, Device!Next, Device!Crash
<1>19. CASE ServiceRestart
  <2>1. /\ pc = "exited" /\ pc' = "setup" /\ generation' = 0
        /\ wproc' = "none" /\ toWorker' = <<>> /\ ~wfiles' /\ denied' = {}
        /\ UNCHANGED <<gadget, mounted, bound>>
    BY <1>19 DEF ServiceRestart, WorkerGone, kernelVars
  <2>2. /\ Supervisor = "down" /\ Supervisor' = "starting"
        /\ Worker' = "none" /\ Objects' = Objects /\ Endpoints' = "closed"
    BY <1>4, <2>1, ObjectsAre DEF Worker, Supervisor
  <2> QED
    BY <2>1, <2>2 DEF Step, Device!Next, Device!Boot
<1> QED
  BY <1>1, <1>5, <1>6, <1>7, <1>8, <1>9, <1>10, <1>11, <1>12, <1>13, <1>14,
     <1>15, <1>16, <1>17, <1>18, <1>19, CalmOrEvent DEF GadgetEvent

\* The supervisor, whatever fails and whoever dies or is killed, implements
\* the promise about the gadget.
THEOREM GadgetImplemented == Spec => GadgetKept
<1>1. Init => IInv /\ HandInv
  BY IInvInit, HandInvInit
<1>2. (IInv /\ HandInv) /\ [Next]_vars => (IInv /\ HandInv)'
  BY IInvStep, HandInvStep
<1>3. Spec => [](IInv /\ HandInv)
  BY <1>1, <1>2, PTL DEF Spec
<1>4. /\ (IInv /\ HandInv) /\ (IInv /\ HandInv)' /\ [Next]_vars
      => [Device!Next]_(Device!gadgetVars)
  BY GadgetStep DEF IInv
<1> QED
  BY <1>3, <1>4, GadgetInit, PTL DEF Spec, GadgetKept, Device!Spec

=============================================================================
