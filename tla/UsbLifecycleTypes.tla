-------------------------- MODULE UsbLifecycleTypes -------------------------
(***************************************************************************)
(* Every variable of UsbLifecycle keeps its type: what the shared pieces   *)
(* of the handlers do to the types, then one step per action.              *)
(***************************************************************************)
EXTENDS UsbLifecycle, TLAPS

-----------------------------------------------------------------------------
(* Types: records, and what the shared pieces of the handlers do to them.  *)

LEMMA MessageType ==
    \A k \in Kinds, g \in Nat, r \in Nat : Message(k, g, r) \in Records
BY DEF Message, Record, Records

LEMMA KindsMembers ==
    /\ "InitialResources" \in Kinds
    /\ "UsbEndpoints" \in Kinds
    /\ "UsbBusEvent" \in Kinds
    /\ "UsbControlRequest" \in Kinds
    /\ "Quiesce" \in Kinds
    /\ "ConfigurationRejected" \in Kinds
    /\ "UsbControlResponse" \in Kinds
    /\ "Serving" \in Kinds
    /\ "Quiesced" \in Kinds
    /\ "Garbage" \in Kinds
BY DEF Kinds

LEMMA NoRecordType == NoRecord \in Records
BY MessageType DEF NoRecord, Kinds

LEMMA ConfigureType ==
    ASSUME WorkerOK, NEW id \in ConfigIds, NEW body \in Bodies
    PROVE  Record("Configure", wgen, id, body) \in Records
BY BoundsAssumption, ChoicesAssumption DEF Record, Records, Kinds, WorkerOK

\* What a message may be about.
LEMMA DeclType ==
    ASSUME TypeOK
    PROVE  /\ decl.request_id \in Nat
           /\ generation \in Nat
           /\ next_control_request \in Nat
BY BoundsAssumption DEF TypeOK, ControlOK, CounterOK, Records

LEMMA FailType == Fail => ControlOK'
BY NoRecordType DEF Fail, ControlOK, Points, Tasks

LEMMA GotoType ==
    ASSUME NEW p \in Points, ControlOK, Goto(p) PROVE ControlOK'
BY DEF Goto, ControlOK

LEMMA BeginType ==
    ASSUME NEW t \in Tasks, NEW p \in Points, ControlOK, Begin(t, p)
    PROVE  ControlOK'
BY DEF Begin, ControlOK

LEMMA ResumeType == ControlOK /\ Resume => ControlOK'
BY NoRecordType DEF Resume, ControlOK, Points, Tasks

LEMMA UnboundType ==
    ASSUME UdcOK, denied' \subseteq TeardownCalls,
           NEW stamp \in BOOLEAN, NEW gone \in BOOLEAN,
           \/ Unbound(stamp) \/ UnboundByKernel(gone)
           \/ UNCHANGED <<bound, off, detached_at, cause>>
    PROVE  UdcOK'
BY DEF Unbound, UnboundByKernel, UdcOK, Causes

LEMMA FailOrType ==
    ASSUME ControlOK, NEW p \in Points, FailOr(p) PROVE ControlOK'
BY FailType DEF FailOr, ControlOK

LEMMA HeadOf ==
    ASSUME NEW s \in Seq(Records), s # <<>>
    PROVE  /\ Head(s) \in Records
           /\ Tail(s) \in Seq(Records) /\ Len(Tail(s)) = Len(s) - 1
OBVIOUS

LEMMA HeadType == ChanOK /\ toSup # <<>> => Head(toSup) \in Records
BY HeadOf DEF ChanOK

LEMMA TailType ==
    ASSUME ChanOK, toSup # <<>>, toSup' = Tail(toSup), UNCHANGED toWorker
    PROVE  ChanOK'
BY HeadOf, BoundsAssumption DEF ChanOK

LEMMA SendType == ASSUME ChanOK, NEW m \in Records, Send(m) PROVE ChanOK'
BY BoundsAssumption DEF ChanOK, Send, CanSend

LEMMA CloseType == ChanOK /\ CloseControl => ChanOK' /\ ~control'
BY BoundsAssumption DEF ChanOK, CloseControl

LEMMA TakesType ==
    ASSUME ChanOK, NEW k, Takes(k)
    PROVE  /\ toWorker' \in Seq(Records) /\ Len(toWorker') <= ChanCap
           /\ Head(toWorker).generation \in Nat
           /\ Head(toWorker).request_id \in Nat
<1>1. Head(toWorker) \in Records
  BY DEF ChanOK, Takes
<1>2. toWorker' \in Seq(Records) /\ Len(toWorker') <= ChanCap
  BY BoundsAssumption DEF ChanOK, Takes
<1> QED BY <1>1, <1>2 DEF Records

LEMMA ReplyType ==
    ASSUME ChanOK, NEW m \in Records, Reply(m)
    PROVE  toSup' \in Seq(Records) /\ Len(toSup') <= ChanCap
<1>1. toSup \in Seq(Records) /\ Len(toSup) <= ChanCap
  BY DEF ChanOK
<1>2. CASE control
  BY <1>1, <1>2, BoundsAssumption DEF Reply
<1>3. CASE ~control
  BY <1>1, <1>3 DEF Reply
<1> QED BY <1>2, <1>3

\* A reply carries the generation and the id of the record it answers.
LEMMA AnswerType ==
    ASSUME ChanOK, NEW k, Takes(k), NEW j \in Kinds,
           Reply(Message(j, Head(toWorker).generation,
                         Head(toWorker).request_id))
    PROVE  toSup' \in Seq(Records) /\ Len(toSup') <= ChanCap
BY TakesType, MessageType, ReplyType

LEMMA WorkerEndsType ==
    ASSUME TypeOK, WorkerEnds PROVE WorkerOK' /\ ChanOK' /\ SignalOK'
<1>1. WorkerOK'
  BY DEF TypeOK, WorkerOK, WorkerEnds, WorkerGone
<1>2. ChanOK'
  BY BoundsAssumption DEF TypeOK, ChanOK, WorkerEnds, WorkerGone
<1>3. SignalOK'
  BY DEF TypeOK, SignalOK, WorkerEnds
<1> QED BY <1>1, <1>2, <1>3

\* A group of variables that does not change keeps its type.
LEMMA SameControl == ControlOK /\ UNCHANGED controlVars => ControlOK'
BY DEF ControlOK, controlVars
LEMMA SameObject == ObjectOK /\ UNCHANGED objectVars => ObjectOK'
BY DEF ObjectOK, objectVars
LEMMA SameLink == LinkOK /\ UNCHANGED linkVars => LinkOK'
BY DEF LinkOK, linkVars
LEMMA SameCounter == CounterOK /\ UNCHANGED counterVars => CounterOK'
BY DEF CounterOK, counterVars
LEMMA SameKernel == KernelOK /\ UNCHANGED kernelVars => KernelOK'
BY DEF KernelOK, kernelVars
LEMMA SameUdc == UdcOK /\ UNCHANGED udcVars => UdcOK'
BY DEF UdcOK, udcVars
LEMMA SameWorker == WorkerOK /\ UNCHANGED workerVars => WorkerOK'
BY DEF WorkerOK, workerVars
LEMMA SameChan == ChanOK /\ UNCHANGED chanVars => ChanOK'
BY DEF ChanOK, chanVars
LEMMA SameSignal == SignalOK /\ UNCHANGED signalVars => SignalOK'
BY DEF SignalOK, signalVars

-----------------------------------------------------------------------------
(* One step per action, one step under it per group of variables changed.  *)

\* No handler, failure path or outside event takes a variable out of its type.
LEMMA TypeStep == TypeOK /\ [Next]_vars => TypeOK'
<1> SUFFICES ASSUME TypeOK, [Next]_vars PROVE TypeOK'
  OBVIOUS
<1> USE SameControl, SameObject, SameLink, SameCounter, SameKernel, SameUdc,
    SameWorker, SameChan, SameSignal DEF TypeOK
<1>1. CASE Setup
  BY <1>1, GotoType DEF Setup, Goto, ControlOK, Points, ControlOnly,
      ChannelOnly
<1>2. CASE CleanupStale
  <2>1. ControlOK'
    BY <1>2, FailType, GotoType DEF CleanupStale, Points
  <2>2. KernelOK' /\ ObjectOK'
    BY <1>2 DEF CleanupStale, KernelOK, ObjectOK
  <2>3. UdcOK'
    <3>1. denied' \subseteq TeardownCalls
      BY <1>2 DEF CleanupStale, UdcOK, TeardownCalls
    <3>2. \/ Unbound(TRUE)
          \/ \E gone \in BOOLEAN : UnboundByKernel(gone)
      BY <1>2 DEF CleanupStale
    <3> QED BY <3>1, <3>2, UnboundType
  <2> QED BY <1>2, <2>1, <2>2, <2>3 DEF CleanupStale
<1>3. CASE StartWorker
  <2>1. ControlOK'
    BY <1>3, GotoType DEF StartWorker, Points
  <2>2. LinkOK'
    BY <1>3 DEF StartWorker, LinkOK
  <2>3. WorkerOK'
    BY <1>3 DEF StartWorker, WorkerOK
  <2>4. ChanOK'
    BY <1>3, MessageType, BoundsAssumption DEF StartWorker, ChanOK, Kinds
  <2> QED BY <1>3, <2>1, <2>2, <2>3, <2>4 DEF StartWorker
<1>4. CASE StartWorkerFails
  BY <1>4, FailType DEF StartWorkerFails, ControlOnly, ChannelOnly
<1>5. CASE AwaitConfigure
  <2>1. ControlOK'
    BY <1>5, FailType, HeadType DEF AwaitConfigure, ControlOK, Points,
        Receives
  <2>2. ChanOK'
    BY <1>5, TailType DEF AwaitConfigure, Receives, ReceiveFails
  <2>3. SignalOK'
    BY <1>5 DEF AwaitConfigure, SignalOK, Receives, ReceiveFails, ReceiveOnly,
        signalVars
  <2> QED BY <1>5, <2>1, <2>2, <2>3 DEF AwaitConfigure, ReceiveOnly
<1>6. CASE ConfigureMismatch
  BY <1>6, FailType DEF ConfigureMismatch, ControlOnly, ChannelOnly
<1>7. CASE ConfigureAbsent
  <2>1. ControlOK'
    BY <1>7, ResumeType DEF ConfigureAbsent
  <2>2. LinkOK'
    BY <1>7 DEF ConfigureAbsent, LinkOK
  <2> QED BY <1>7, <2>1, <2>2 DEF ConfigureAbsent
<1>8. CASE ConfigureDetach
  BY <1>8, BeginType DEF ConfigureDetach, Points, Tasks, ControlOnly,
      ChannelOnly
<1>9. CASE ConfigureReject
  <2>1. ControlOK'
    BY <1>9, FailType, ResumeType DEF ConfigureReject
  <2>2. ChanOK'
    BY <1>9, DeclType, SendType, MessageType DEF ConfigureReject,
        SendRejection, Kinds
  <2> QED BY <1>9, <2>1, <2>2 DEF ConfigureReject, ChannelOnly
<1>10. CASE ConfigureReplace
  <2>1. ControlOK'
    BY <1>10, BeginType DEF ConfigureReplace, ControlOK, Points, Tasks
  <2>2. LinkOK'
    BY <1>10 DEF ConfigureReplace, LinkOK
  <2> QED BY <1>10, <2>1, <2>2 DEF ConfigureReplace
<1>11. CASE Unbind
  <2>1. ControlOK'
    BY <1>11, GotoType, FailOrType DEF Unbind, AfterUnbind, Points
  <2>2. LinkOK'
    BY <1>11 DEF Unbind, LinkOK, CloseControl
  <2>3. UdcOK'
    <3>1. denied' \subseteq TeardownCalls
      BY <1>11 DEF Unbind, UdcOK, TeardownCalls
    <3>2. Unbound(TRUE) \/ UNCHANGED <<bound, off, detached_at, cause>>
      BY <1>11 DEF Unbind
    <3> QED BY <3>1, <3>2, UnboundType
  <2>4. ChanOK'
    BY <1>11, CloseType DEF Unbind
  <2> QED BY <1>11, <2>1, <2>2, <2>3, <2>4 DEF Unbind
<1>12. CASE QuiesceSkipped
  BY <1>12, GotoType DEF QuiesceSkipped, Points, ControlOnly, ChannelOnly
<1>13. CASE SendQuiesce
  <2>1. ControlOK'
    BY <1>13, GotoType DEF SendQuiesce, Points
  <2>2. LinkOK'
    BY <1>13 DEF SendQuiesce, LinkOK
  <2>3. ChanOK'
    BY <1>13, DeclType, SendType, MessageType DEF SendQuiesce, QuiesceId,
        Kinds
  <2> QED BY <1>13, <2>1, <2>2, <2>3 DEF SendQuiesce
<1>14. CASE Quiesced
  <2>1. ControlOK'
    BY <1>14, GotoType DEF Quiesced, Points
  <2>2. LinkOK'
    BY <1>14 DEF Quiesced, LinkOK, CloseControl
  <2>3. ChanOK'
    BY <1>14, CloseType, TailType DEF Quiesced
  <2> QED BY <1>14, <2>1, <2>2, <2>3 DEF Quiesced
<1>15. CASE QuiesceFails
  <2>1. ControlOK'
    BY <1>15, FailOrType DEF QuiesceFails, Points
  <2>2. LinkOK'
    BY <1>15 DEF QuiesceFails, LinkOK, CloseControl
  <2>3. ChanOK'
    BY <1>15, CloseType DEF QuiesceFails
  <2>4. SignalOK'
    BY <1>15 DEF QuiesceFails, SignalOK
  <2> QED BY <1>15, <2>1, <2>2, <2>3, <2>4 DEF QuiesceFails
<1>16. CASE StopWorker
  <2>1. ControlOK'
    BY <1>16, GotoType, FailOrType DEF StopWorker, Points
  <2>2. LinkOK'
    BY <1>16 DEF StopWorker, LinkOK
  <2>3. WorkerOK'
    BY <1>16 DEF StopWorker, WorkerOK
  <2>4. UdcOK'
    BY <1>16 DEF StopWorker, UdcOK, TeardownCalls
  <2> QED BY <1>16, <2>1, <2>2, <2>3, <2>4 DEF StopWorker
<1>17. CASE StopUsb
  <2>1. ControlOK'
    BY <1>17, FailOrType, GotoType, ResumeType DEF StopUsb, StopUsbRefusing,
        AfterStopUsb, Points
  <2>2. ObjectOK'
    BY <1>17 DEF StopUsb, StopUsbRefusing, ObjectOK
  <2>3. CounterOK'
    BY <1>17, BoundsAssumption DEF StopUsb, StopUsbRefusing, CounterOK
  <2>4. KernelOK'
    BY <1>17 DEF StopUsb, StopUsbRefusing, KernelOK
  <2>5. UdcOK'
    <3>1. denied' \subseteq TeardownCalls
      BY <1>17 DEF StopUsb, StopUsbRefusing, StopUsbCalls, UdcOK,
          TeardownCalls
    <3>2. \/ \E stamp \in BOOLEAN : Unbound(stamp)
          \/ \E gone \in BOOLEAN : UnboundByKernel(gone)
          \/ UNCHANGED <<bound, off, detached_at, cause>>
      BY <1>17 DEF StopUsb, StopUsbRefusing
    <3> QED BY <3>1, <3>2, UnboundType
  <2> QED BY <1>17, <2>1, <2>2, <2>3, <2>4, <2>5 DEF StopUsb, StopUsbRefusing
<1>18. CASE GenerationOverflow
  BY <1>18, FailType DEF GenerationOverflow, ControlOnly, ChannelOnly
<1>19. CASE PopulateGadget
  <2>1. ControlOK'
    BY <1>19, FailType, GotoType DEF PopulateGadget, Attempt, Points
  <2>2. ObjectOK'
    BY <1>19 DEF PopulateGadget, ObjectOK, Claim
  <2>3. CounterOK'
    BY <1>19, BoundsAssumption DEF PopulateGadget, CounterOK
  <2>4. KernelOK'
    BY <1>19 DEF PopulateGadget, KernelOK, Claim
  <2> QED BY <1>19, <2>1, <2>2, <2>3, <2>4 DEF PopulateGadget
<1>20. CASE MountFunctionfs
  <2>1. ControlOK'
    BY <1>20, FailType, GotoType DEF MountFunctionfs, Points
  <2>2. ObjectOK'
    BY <1>20 DEF MountFunctionfs, ObjectOK
  <2>3. KernelOK'
    BY <1>20 DEF MountFunctionfs, KernelOK
  <2> QED BY <1>20, <2>1, <2>2, <2>3 DEF MountFunctionfs
<1>21. CASE PublishFunctionfs
  <2>1. ControlOK'
    BY <1>21, FailType, GotoType DEF PublishFunctionfs, Points
  <2>2. ObjectOK'
    BY <1>21 DEF PublishFunctionfs, ObjectOK
  <2> QED BY <1>21, <2>1, <2>2 DEF PublishFunctionfs
<1>22. CASE LinkFunction
  BY <1>22, FailType, GotoType DEF LinkFunction, Attempt, Points, ControlOnly,
      ChannelOnly
<1>23. CASE SendEndpoints
  <2>1. ControlOK'
    BY <1>23, FailType, GotoType DEF SendEndpoints, Points
  <2>2. ChanOK'
    BY <1>23, DeclType, SendType, MessageType DEF SendEndpoints, Kinds
  <2> QED BY <1>23, <2>1, <2>2 DEF SendEndpoints, ChannelOnly
<1>24. CASE AwaitServing
  <2>1. ControlOK'
    BY <1>24, FailType, GotoType DEF AwaitServing, Points
  <2>2. ChanOK'
    BY <1>24, TailType DEF AwaitServing, Receives, ReceiveFails
  <2>3. SignalOK'
    BY <1>24 DEF AwaitServing, SignalOK, Receives, ReceiveFails, ReceiveOnly,
        signalVars
  <2> QED BY <1>24, <2>1, <2>2, <2>3 DEF AwaitServing, ReceiveOnly
<1>25. CASE Dwell
  <2>1. ControlOK'
    BY <1>25, GotoType DEF Dwell, Points
  <2>2. UdcOK'
    BY <1>25 DEF Dwell, UdcOK
  <2> QED BY <1>25, <2>1, <2>2 DEF Dwell
<1>26. CASE BindUdc
  <2>1. ControlOK'
    BY <1>26, FailType, GotoType DEF BindUdc, Points
  <2>2. KernelOK'
    BY <1>26 DEF BindUdc, KernelOK, EventKinds
  <2>3. UdcOK'
    BY <1>26 DEF BindUdc, UdcOK
  <2> QED BY <1>26, <2>1, <2>2, <2>3 DEF BindUdc
<1>27. CASE Persist
  <2>1. ControlOK'
    BY <1>27, FailType, ResumeType DEF Persist
  <2>2. LinkOK'
    BY <1>27 DEF Persist, LinkOK
  <2> QED BY <1>27, <2>1, <2>2 DEF Persist
<1>28. CASE ServeTop
  <2>1. ControlOK'
    BY <1>28, BeginType, GotoType DEF ServeTop, Points, Tasks
  <2>2. WorkerOK'
    BY <1>28 DEF ServeTop, WorkerOK
  <2> QED BY <1>28, <2>1, <2>2 DEF ServeTop
<1>29. CASE Poll
  BY <1>29 DEF Poll, ControlOK, Points, Revents, ControlOnly, ChannelOnly
<1>30. CASE DrainSignals
  <2>1. ControlOK'
    BY <1>30, GotoType DEF DrainSignals, Points
  <2>2. SignalOK'
    BY <1>30 DEF DrainSignals, SignalOK
  <2> QED BY <1>30, <2>1, <2>2 DEF DrainSignals
<1>31. CASE DispatchSignals
  <2>1. ControlOK'
    BY <1>31, BeginType, GotoType, ResumeType DEF DispatchSignals, Points,
        Tasks
  <2>2. SignalOK'
    BY <1>31 DEF DispatchSignals, SignalOK
  <2> QED BY <1>31, <2>1, <2>2 DEF DispatchSignals
<1>32. CASE ServeControl
  <2>1. ControlOK'
    BY <1>32, FailType, BeginType, HeadType DEF ServeControl, ControlOK,
        Points, Tasks
  <2>2. ChanOK'
    BY <1>32, TailType DEF ServeControl, chanVars
  <2> QED BY <1>32, <2>1, <2>2 DEF ServeControl, ChannelOnly
<1>33. CASE Reload
  BY <1>33, FailType, GotoType DEF Reload, Points, ControlOnly, ChannelOnly
<1>34. CASE Ep0Drained
  BY <1>34, ResumeType DEF Ep0Drained, ControlOnly, ChannelOnly
<1>35. ASSUME NEW e \in EventKinds, Ep0Event(e) PROVE TypeOK'
  <2>1. ControlOK'
    BY <1>35, GotoType DEF Ep0Event, Points
  <2>2. KernelOK'
    BY <1>35 DEF Ep0Event, KernelOK
  <2> QED BY <1>35, <2>1, <2>2 DEF Ep0Event
<1>36. CASE ForwardBusEvent
  <2>1. ControlOK'
    BY <1>36, FailType, GotoType DEF ForwardBusEvent, Points
  <2>2. ChanOK'
    BY <1>36, DeclType, SendType, MessageType DEF ForwardBusEvent, Kinds
  <2> QED BY <1>36, <2>1, <2>2 DEF ForwardBusEvent, ChannelOnly
<1>37. CASE SetupSuperseded
  BY <1>37, GotoType DEF SetupSuperseded, Points, ControlOnly, ChannelOnly
<1>38. CASE ForwardControlRequest
  <2>1. ControlOK'
    BY <1>38, FailType, GotoType DEF ForwardControlRequest, Points
  <2>2. LinkOK'
    BY <1>38 DEF ForwardControlRequest, LinkOK
  <2>3. CounterOK'
    BY <1>38, BoundsAssumption DEF ForwardControlRequest, CounterOK,
        RequestsSpent
  <2>4. ChanOK'
    BY <1>38, DeclType, SendType, MessageType DEF ForwardControlRequest, Kinds
  <2> QED BY <1>38, <2>1, <2>2, <2>3, <2>4 DEF ForwardControlRequest
<1>39. CASE AwaitControl
  <2>1. ControlOK'
    BY <1>39, FailType, GotoType DEF AwaitControl, Points
  <2>2. LinkOK'
    BY <1>39 DEF AwaitControl, LinkOK
  <2>3. ChanOK'
    BY <1>39, TailType DEF AwaitControl, Receives, ReceiveFails
  <2>4. SignalOK'
    BY <1>39 DEF AwaitControl, SignalOK, Receives, ReceiveFails
  <2> QED BY <1>39, <2>1, <2>2, <2>3, <2>4 DEF AwaitControl
<1>40. CASE StallEp0
  BY <1>40, FailType, GotoType DEF StallEp0, Attempt, Points,
      ControlOnly, ChannelOnly
<1>41. CASE TransferEp0
  BY <1>41, FailType, GotoType DEF TransferEp0, Transfers, Attempt, Points,
      ControlOnly, ChannelOnly
<1>42. CASE WorkerBoots
  <2>1. WorkerOK'
    BY <1>42 DEF WorkerBoots, WorkerOK, Takes
  <2>2. ChanOK'
    BY <1>42, TakesType DEF WorkerBoots, ChanOK
  <2> QED BY <1>42, <2>1, <2>2 DEF WorkerBoots, notWorker
<1>43. CASE WorkerRejected
  <2>1. WorkerOK'
    BY <1>43 DEF WorkerRejected, WorkerOK, Takes
  <2>2. ChanOK'
    BY <1>43, TakesType DEF WorkerRejected, ChanOK
  <2> QED BY <1>43, <2>1, <2>2 DEF WorkerRejected, notWorker
<1>44. CASE WorkerQuiesces
  <2>1. WorkerOK'
    BY <1>44 DEF WorkerQuiesces, WorkerOK, Takes
  <2>2. ChanOK'
    BY <1>44, TakesType, AnswerType DEF WorkerQuiesces, ChanOK, Kinds
  <2> QED BY <1>44, <2>1, <2>2 DEF WorkerQuiesces, notWorker
<1>45. CASE WorkerInstalls
  <2>1. WorkerOK'
    BY <1>45, TakesType DEF WorkerInstalls, WorkerOK, Takes
  <2>2. ChanOK'
    BY <1>45, TakesType, AnswerType DEF WorkerInstalls, ChanOK, Kinds
  <2> QED BY <1>45, <2>1, <2>2 DEF WorkerInstalls, notWorker
<1>46. CASE WorkerAnswers
  BY <1>46, TakesType, AnswerType DEF WorkerAnswers, ChanOK, Kinds, notWorker
<1>47. CASE WorkerNotes
  BY <1>47, TakesType DEF WorkerNotes, ChanOK, notWorker
<1>48. CASE WorkerEof
  <2>1. WorkerOK'
    BY <1>48, WorkerEndsType DEF WorkerEof
  <2>2. ChanOK'
    BY <1>48, WorkerEndsType DEF WorkerEof
  <2>3. SignalOK'
    BY <1>48, WorkerEndsType DEF WorkerEof
  <2> QED BY <1>48, <2>1, <2>2, <2>3 DEF WorkerEof, WorkerEnds
<1>49. ASSUME NEW id \in ConfigIds, NEW body \in Bodies, WorkerDeclares(id,
    body) PROVE TypeOK'
  <2>1. WorkerOK'
    BY <1>49 DEF WorkerDeclares, WorkerOK
  <2>2. ChanOK'
    BY <1>49, ConfigureType, ReplyType DEF WorkerDeclares, ChanOK
  <2> QED BY <1>49, <2>1, <2>2 DEF WorkerDeclares, notWorker
<1>50. CASE WorkerExits
  <2>1. WorkerOK'
    BY <1>50, WorkerEndsType DEF WorkerExits
  <2>2. ChanOK'
    BY <1>50, WorkerEndsType DEF WorkerExits
  <2>3. SignalOK'
    BY <1>50, WorkerEndsType DEF WorkerExits
  <2> QED BY <1>50, <2>1, <2>2, <2>3 DEF WorkerExits, WorkerEnds
<1>51. CASE WorkerWedges
  BY <1>51 DEF WorkerWedges, WorkerOK, notWorker
<1>52. CASE WorkerGarbles
  BY <1>52, MessageType, ReplyType DEF WorkerGarbles, ChanOK, Kinds, notWorker
<1>53. CASE Crash
  <2>1. ControlOK'
    BY <1>53, NoRecordType DEF Crash, ControlOK, Points, Tasks
  <2>2. KernelOK'
    BY <1>53 DEF Crash, KernelOK
  <2>3. UdcOK'
    BY <1>53 DEF Crash, UdcOK, Causes
  <2>4. WorkerOK'
    BY <1>53 DEF Crash, WorkerOK, WorkerGone
  <2>5. ChanOK'
    BY <1>53, BoundsAssumption DEF Crash, ChanOK, WorkerGone
  <2> QED BY <1>53, <2>1, <2>2, <2>3, <2>4, <2>5 DEF Crash
<1>54. CASE EscalateStop
  <2>1. WorkerOK'
    BY <1>54 DEF EscalateStop, WorkerOK, WorkerGone
  <2>2. ChanOK'
    BY <1>54, BoundsAssumption DEF EscalateStop, ChanOK, WorkerGone
  <2>3. SignalOK'
    BY <1>54 DEF EscalateStop, SignalOK
  <2> QED BY <1>54, <2>1, <2>2, <2>3 DEF EscalateStop
<1>55. CASE Tick
  BY <1>55 DEF Tick, UdcOK
<1>56. CASE Sigterm
  <2>1. ControlOK'
    BY <1>56, GotoType DEF Sigterm, Interrupts, Points
  <2>2. SignalOK'
    BY <1>56 DEF Sigterm, SignalOK, Interrupts, NotesWakeup
  <2> QED BY <1>56, <2>1, <2>2 DEF Sigterm, Interrupts
<1>57. CASE Sighup
  <2>1. ControlOK'
    BY <1>57, GotoType DEF Sighup, Interrupts, Points
  <2>2. SignalOK'
    BY <1>57 DEF Sighup, SignalOK, Interrupts, NotesWakeup
  <2> QED BY <1>57, <2>1, <2>2 DEF Sighup, Interrupts
<1>58. CASE ServiceRestart
  <2>1. ControlOK'
    BY <1>58, NoRecordType DEF ServiceRestart, ControlOK, Points, Tasks
  <2>2. ObjectOK'
    BY <1>58 DEF ServiceRestart, ObjectOK
  <2>3. LinkOK'
    BY <1>58 DEF ServiceRestart, LinkOK
  <2>4. CounterOK'
    BY <1>58, BoundsAssumption DEF ServiceRestart, CounterOK
  <2>5. UdcOK'
    BY <1>58 DEF ServiceRestart, UdcOK, Causes
  <2>6. WorkerOK'
    BY <1>58 DEF ServiceRestart, WorkerOK, WorkerGone
  <2>7. ChanOK'
    BY <1>58, BoundsAssumption DEF ServiceRestart, ChanOK, WorkerGone
  <2>8. SignalOK'
    BY <1>58 DEF ServiceRestart, SignalOK
  <2> QED BY <1>58, <2>1, <2>2, <2>3, <2>4, <2>5, <2>6, <2>7, <2>8 DEF
      ServiceRestart
<1>59. ASSUME NEW e \in Events, HostEvent(e) PROVE TypeOK'
  BY <1>59, ChoicesAssumption DEF HostEvent, KernelOK
<1>60. CASE UNCHANGED vars
  BY <1>60 DEF vars
<1> QED BY <1>1, <1>2, <1>3, <1>4, <1>5, <1>6, <1>7, <1>8, <1>9, <1>10, <1>11,
    <1>12, <1>13, <1>14, <1>15, <1>16, <1>17, <1>18, <1>19, <1>20, <1>21,
    <1>22, <1>23, <1>24, <1>25, <1>26, <1>27, <1>28, <1>29, <1>30, <1>31,
    <1>32, <1>33, <1>34, <1>35, <1>36, <1>37, <1>38, <1>39, <1>40, <1>41,
    <1>42,
    <1>43, <1>44, <1>45, <1>46, <1>47, <1>48, <1>49, <1>50, <1>51, <1>52,
    <1>53, <1>54, <1>55, <1>56, <1>57, <1>58, <1>59, <1>60 DEF Next,
    SupervisorStep, WorkerStep, WorkerHandles, FaultStep, EnvironmentStep,
    Terminated

\* What a previous run of the service left is well typed.
LEMMA TypeInit == Init => TypeOK
<1> SUFFICES ASSUME Init PROVE TypeOK
  OBVIOUS
<1>1. ControlOK /\ ObjectOK /\ LinkOK
  BY NoRecordType DEF Init, ControlOK, ObjectOK, LinkOK, Points, Tasks
<1>2. CounterOK /\ ChanOK
  BY BoundsAssumption DEF Init, CounterOK, ChanOK
<1>3. KernelOK /\ UdcOK
  BY DEF Init, KernelOK, UdcOK, Causes
<1>4. WorkerOK /\ SignalOK
  BY DEF Init, WorkerOK, SignalOK
<1> QED BY <1>1, <1>2, <1>3, <1>4 DEF TypeOK

\* Generations and request ids stay in range, the channel never holds more than
\* it buffers, and every record in it is well formed, whatever fails when.
THEOREM TypeCorrect == Spec => []TypeOK
<1>1. Init => TypeOK
  BY TypeInit
<1>2. TypeOK /\ [Next]_vars => TypeOK'
  BY TypeStep
<1> QED BY <1>1, <1>2, PTL DEF Spec

=============================================================================
