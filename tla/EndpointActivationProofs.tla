---------------------- MODULE EndpointActivationProofs ----------------------
(***************************************************************************)
(* Proofs about EndpointActivation: the order of activation numbers on     *)
(* their way from the supervisor to the helpers, that the condition        *)
(* variable of EndpointLifecycle implements the gate, and what survives    *)
(* the merging of events: the supervisor's belief and its count.           *)
(***************************************************************************)
EXTENDS EndpointActivation, TLAPS

\* The part of TypeOK that the numbers need.
NumbersOK ==
    /\ LifecycleTypeOK
    /\ endpoint_activation \in 0 .. MaxActivation
    /\ toWorker \in Seq(Messages)

NumbersInv == NumbersOK /\ ActivationsInOrder

numberVars == <<lifecycleVars, endpoint_activation, toWorker>>

\* The steps which leave every number and every helper's place alone.
Silent ==
    \/ HostStep \/ ReadEp0 \/ ActivationOverflows \/ StartsTeardown
    \/ StopsWaiting \/ ControlReplies \/ Done \/ UNCHANGED vars
    \/ \E h \in Helpers : HelperIssues(h) \/ IoCompletes(h)

LEMMA SilentFrame ==
    ASSUME Silent PROVE UNCHANGED numberVars
  BY DEF Silent, HostStep, HostEnables, HostEnablesAgain, HostDisables,
         HostSuspends, ReadEp0, ActivationOverflows, StartsTeardown, Unbinds,
         StopsWaiting, ControlReplies, Done, HelperIssues, IoCompletes,
         numberVars, lifecycleVars, supervisorVars, notHelper, vars

\* Next, sorted by what a step does to the numbers.
LEMMA Sorted ==
    ASSUME [Next]_vars
    PROVE  \/ Silent \/ ForwardBusEvent \/ SendsQuiesce \/ ControlTakes
           \/ \E h \in Helpers : \/ HelperParks(h) \/ HelperWaits(h)
                                 \/ HelperResumes(h) \/ HelperWakes(h)
  BY DEF Silent, Next, SupervisorStep, ControlStep, HelperStep

\* A step of a helper leaves the record queue and the reported numbers alone.
HelperMove(h) ==
    \/ HelperParks(h) \/ HelperWaits(h) \/ HelperResumes(h) \/ HelperWakes(h)

LEMMA HelperFrame ==
    ASSUME NumbersOK, NEW h \in Helpers, HelperMove(h)
    PROVE  /\ UNCHANGED <<activation, stopping, endpoint_activation, toWorker>>
           /\ hpc' \in [Helpers -> HelperPoints]
           /\ \/ UNCHANGED observed
              \/ /\ observed' = [observed EXCEPT ![h] = activation]
                 /\ ~stopping /\ activation > observed[h]
                 /\ hpc[h] = "check"
                 /\ hpc' = [hpc EXCEPT ![h] = "outside"]
  BY DEF HelperMove, HelperParks, HelperWaits, HelperResumes, HelperWakes,
         WaitIsCalled, WaitParks, WaitReturns, WaitReturnsNone,
         SpuriousWakeup, Newer, notHelper, supervisorVars, NumbersOK,
         LifecycleTypeOK, HelperPoints

\* What activate and stop do to the state they guard.
LEMMA ControlFrame ==
    ASSUME NumbersOK, ControlTakes
    PROVE  /\ toWorker # <<>> /\ toWorker' = Tail(toWorker)
           /\ UNCHANGED <<observed, endpoint_activation>>
           /\ \/ UNCHANGED activation
              \/ /\ Head(toWorker).kind = "Enable"
                 /\ activation' = Head(toWorker).activation
                 /\ activation' > activation /\ ~stopping
                 /\ UNCHANGED stopping
           /\ stopping' \in BOOLEAN
           /\ hpc' \in [Helpers -> HelperPoints]
           /\ Place' = Place
<1>1. NotifiesAll => hpc' \in [Helpers -> HelperPoints] /\ Place' = Place
  BY DEF NotifiesAll, NumbersOK, LifecycleTypeOK, HelperPoints, Place
<1>2. UNCHANGED hpc => hpc' \in [Helpers -> HelperPoints] /\ Place' = Place
  BY DEF NumbersOK, LifecycleTypeOK, Place
<1>3. stopping \in BOOLEAN
  BY DEF NumbersOK, LifecycleTypeOK
<1>4. CASE Head(toWorker).kind = "Enable"
  BY <1>1, <1>2, <1>3, <1>4 DEF ControlTakes, Activates, supervisorVars
<1>5. CASE Head(toWorker).kind = "Quiesce"
  BY <1>1, <1>2, <1>3, <1>5 DEF ControlTakes, Stops, supervisorVars
<1>6. CASE Head(toWorker).kind \notin {"Enable", "Quiesce"}
  BY <1>2, <1>3, <1>6 DEF ControlTakes, lifecycleVars, supervisorVars
<1> QED
  BY <1>4, <1>5, <1>6

-----------------------------------------------------------------------------
LEMMA MessageType ==
    \A m \in Messages : m.activation \in 0 .. MaxActivation
  BY DEF Messages

LEMMA NumbersInvInit == Init => NumbersInv
<1> SUFFICES ASSUME Init PROVE NumbersInv
  OBVIOUS
<1>1. toWorker = <<>> /\ Len(toWorker) = 0 /\ toWorker \in Seq(Messages)
  BY DEF Init
<1>2. LifecycleTypeOK /\ endpoint_activation \in 0 .. MaxActivation
  <2>1. 0 \in 0 .. MaxActivation
    BY ActivationAssumption
  <2>2. "outside" \in HelperPoints
    BY DEF HelperPoints
  <2>3. hpc = [h \in Helpers |-> "outside"]
        /\ observed = [h \in Helpers |-> 0]
    BY DEF Init, LifecycleInit
  <2>4. activation = 0 /\ endpoint_activation = 0 /\ stopping \in BOOLEAN
    BY DEF Init, LifecycleInit
  <2>5. /\ hpc \in [Helpers -> HelperPoints]
        /\ observed \in [Helpers -> 0 .. MaxActivation]
    BY <2>1, <2>2, <2>3
  <2> QED
    BY <2>1, <2>4, <2>5 DEF LifecycleTypeOK
<1>3. ActivationsInOrder
  <2>1. activation = 0 /\ endpoint_activation = 0
        /\ observed = [h \in Helpers |-> 0]
    BY DEF Init, LifecycleInit
  <2>2. QueueInOrder
    BY <1>1 DEF QueueInOrder
  <2> QED
    BY <2>1, <2>2 DEF ActivationsInOrder
<1> QED
  BY <1>1, <1>2, <1>3 DEF NumbersInv, NumbersOK

LEMMA NumbersInvStep == NumbersInv /\ [Next]_vars => NumbersInv'
<1> SUFFICES ASSUME NumbersInv, [Next]_vars PROVE NumbersInv'
  OBVIOUS
<1>n. NumbersOK /\ ActivationsInOrder
  BY DEF NumbersInv
<1>t. /\ activation \in 0 .. MaxActivation
      /\ endpoint_activation \in 0 .. MaxActivation
      /\ observed \in [Helpers -> 0 .. MaxActivation]
      /\ MaxActivation \in Nat
      /\ \A i \in 1 .. Len(toWorker) :
             toWorker[i].activation \in 0 .. MaxActivation
  <2>1. \A i \in 1 .. Len(toWorker) : toWorker[i] \in Messages
    BY <1>n DEF NumbersOK
  <2> QED
    BY <2>1, <1>n, MessageType, ActivationAssumption
       DEF NumbersOK, LifecycleTypeOK
<1>1. CASE Silent
  BY <1>1, <1>n, SilentFrame
     DEF NumbersInv, NumbersOK, ActivationsInOrder, QueueInOrder, numberVars,
         lifecycleVars, LifecycleTypeOK
<1>2. ASSUME NEW m \in Messages, toWorker' = Append(toWorker, m),
             UNCHANGED lifecycleVars,
             endpoint_activation' \in endpoint_activation .. MaxActivation,
             m.kind # "Quiesce" => m.activation = endpoint_activation'
      PROVE  NumbersInv'
  <2>1. NumbersOK'
    BY <1>2, <1>n, <1>t DEF NumbersOK, LifecycleTypeOK, lifecycleVars
  <2>2. /\ Len(toWorker') = Len(toWorker) + 1
        /\ toWorker'[Len(toWorker) + 1] = m
        /\ \A i \in 1 .. Len(toWorker) : toWorker'[i] = toWorker[i]
    BY <1>2, <1>n DEF NumbersOK
  <2>3. Len(toWorker) \in Nat
    BY <1>n DEF NumbersOK
  <2>4. \A h \in Helpers : observed'[h] <= activation'
    BY <1>2, <1>n DEF ActivationsInOrder, lifecycleVars
  <2>5. activation' <= endpoint_activation'
    BY <1>2, <1>n, <1>t DEF ActivationsInOrder, lifecycleVars
  <2>6. ASSUME NEW i \in 1 .. Len(toWorker), toWorker[i].kind # "Quiesce"
        PROVE  /\ activation' <= toWorker'[i].activation
               /\ toWorker'[i].activation <= endpoint_activation'
               /\ \A j \in 1 .. i :
                      toWorker'[j].kind # "Quiesce" =>
                          toWorker'[j].activation <= toWorker'[i].activation
    <3>1. /\ activation <= toWorker[i].activation
          /\ toWorker[i].activation <= endpoint_activation
          /\ \A j \in 1 .. i :
                 toWorker[j].kind # "Quiesce" =>
                     toWorker[j].activation <= toWorker[i].activation
      BY <1>n, <2>6 DEF ActivationsInOrder, QueueInOrder
    <3>2. \A j \in 1 .. i : j \in 1 .. Len(toWorker)
      BY <2>3
    <3> QED
      BY <1>2, <1>t, <2>2, <3>1, <3>2 DEF lifecycleVars
  <2>7. ASSUME m.kind # "Quiesce"
        PROVE  /\ activation' <= m.activation
               /\ m.activation <= endpoint_activation'
               /\ \A j \in 1 .. Len(toWorker) + 1 :
                      toWorker'[j].kind # "Quiesce" =>
                          toWorker'[j].activation <= m.activation
    <3>1. m.activation = endpoint_activation'
      BY <1>2, <2>7
    <3>2. \A j \in 1 .. Len(toWorker) :
              toWorker[j].kind # "Quiesce" =>
                  toWorker[j].activation <= endpoint_activation
      BY <1>n DEF ActivationsInOrder, QueueInOrder
    <3> QED
      BY <1>2, <1>t, <2>2, <2>3, <2>5, <3>1, <3>2
  <2> QED
    BY <2>1, <2>2, <2>3, <2>4, <2>5, <2>6, <2>7
       DEF NumbersInv, ActivationsInOrder, QueueInOrder
<1>3. CASE ForwardBusEvent
  <2> DEFINE m == Message(Head(batch), Advanced(Head(batch)))
  <2>1. Advanced(Head(batch)) \in endpoint_activation .. MaxActivation
    BY <1>3, <1>t DEF ForwardBusEvent, Advanced, NumberLeft
  <2>2. m \in Messages /\ m.activation = Advanced(Head(batch))
    BY <1>3, <1>t, <2>1 DEF ForwardBusEvent, Message, Messages
  <2> QED
    BY <1>2, <1>3, <2>1, <2>2 DEF ForwardBusEvent
<1>4. CASE SendsQuiesce
  <2>1. Message("Quiesce", 0) \in Messages
        /\ Message("Quiesce", 0).kind = "Quiesce"
    BY <1>t DEF Message, Messages
  <2> QED
    BY <1>2, <1>4, <1>t, <2>1 DEF SendsQuiesce
<1>5. CASE ControlTakes
  <2>1. /\ toWorker # <<>> /\ toWorker' = Tail(toWorker)
        /\ UNCHANGED <<observed, endpoint_activation>>
        /\ \/ UNCHANGED activation
           \/ /\ toWorker[1].kind = "Enable"
              /\ activation' = toWorker[1].activation
              /\ activation' > activation
    BY <1>5, <1>n, ControlFrame DEF NumbersOK
  <2>2. /\ toWorker' \in Seq(Messages)
        /\ Len(toWorker) \in Nat \ {0}
        /\ Len(toWorker') = Len(toWorker) - 1
        /\ \A i \in 1 .. Len(toWorker') : toWorker'[i] = toWorker[i + 1]
    BY <2>1, <1>n DEF NumbersOK
  <2>3. 1 \in 1 .. Len(toWorker)
    BY <2>2
  <2>4. NumbersOK'
    BY <1>5, <1>n, <1>t, <2>1, <2>2, <2>3, ControlFrame
       DEF NumbersOK, LifecycleTypeOK
  <2>5. /\ activation' \in 0 .. MaxActivation /\ activation' >= activation
        /\ activation' <= endpoint_activation
    BY <1>n, <1>t, <2>1, <2>3 DEF ActivationsInOrder, QueueInOrder
  <2>6. ASSUME NEW i \in 1 .. Len(toWorker'),
               toWorker'[i].kind # "Quiesce"
        PROVE  /\ activation' <= toWorker'[i].activation
               /\ toWorker'[i].activation <= endpoint_activation
               /\ \A j \in 1 .. i :
                      toWorker'[j].kind # "Quiesce" =>
                          toWorker'[j].activation <= toWorker'[i].activation
    <3>1. i + 1 \in 1 .. Len(toWorker) /\ toWorker'[i] = toWorker[i + 1]
      BY <2>2
    <3>2. /\ activation <= toWorker[i + 1].activation
          /\ toWorker[i + 1].activation <= endpoint_activation
          /\ \A j \in 1 .. i + 1 :
                 toWorker[j].kind # "Quiesce" =>
                     toWorker[j].activation <= toWorker[i + 1].activation
      BY <1>n, <2>6, <3>1 DEF ActivationsInOrder, QueueInOrder
    <3>3. \A j \in 1 .. i : /\ j + 1 \in 1 .. i + 1
                            /\ toWorker'[j] = toWorker[j + 1]
      BY <2>2
    <3>4. toWorker[1].kind = "Enable" =>
              toWorker[1].activation <= toWorker[i + 1].activation
      BY <3>1, <3>2
    <3> QED
      BY <2>1, <3>1, <3>2, <3>3, <3>4
  <2>7. \A h \in Helpers : observed'[h] <= activation'
    BY <1>n, <1>t, <2>1, <2>5 DEF ActivationsInOrder
  <2> QED
    BY <2>1, <2>2, <2>4, <2>5, <2>6, <2>7
       DEF NumbersInv, ActivationsInOrder, QueueInOrder
<1>6. ASSUME NEW h \in Helpers, HelperMove(h) PROVE NumbersInv'
  <2>1. /\ UNCHANGED <<activation, stopping, endpoint_activation, toWorker>>
        /\ hpc' \in [Helpers -> HelperPoints]
        /\ \/ UNCHANGED observed
           \/ observed' = [observed EXCEPT ![h] = activation]
    BY <1>6, <1>n, HelperFrame
  <2>2. observed' \in [Helpers -> 0 .. MaxActivation]
    BY <2>1, <1>t
  <2>3. ASSUME NEW g \in Helpers PROVE observed'[g] <= activation'
    <3>1. observed[g] <= activation /\ activation <= activation
      BY <1>n, <1>t DEF ActivationsInOrder
    <3>2. observed'[g] = observed[g] \/ observed'[g] = activation
      BY <2>1, <1>t
    <3> QED
      BY <2>1, <3>1, <3>2
  <2>4. QueueInOrder'
    BY <2>1, <1>n DEF ActivationsInOrder, QueueInOrder
  <2> QED
    BY <2>1, <2>2, <2>3, <2>4, <1>n
       DEF NumbersInv, NumbersOK, LifecycleTypeOK, ActivationsInOrder
<1> QED
  BY <1>1, <1>3, <1>4, <1>5, <1>6, Sorted DEF HelperMove

\* Activation numbers reach the helpers in the order in which the supervisor
\* gave them out, for any number of helpers, events and queued records.
THEOREM NumbersOrdered == Spec => []ActivationsInOrder
<1>1. NumbersInv => ActivationsInOrder
  BY DEF NumbersInv
<1> QED
  BY <1>1, NumbersInvInit, NumbersInvStep, PTL DEF Spec

-----------------------------------------------------------------------------
(* The gate. *)

LEMMA GateInit == Init => Gate!Init
  BY DEF Init, LifecycleInit, Gate!Init, Place

\* The wait of one helper, seen as the gate sees it.
LEMMA GateHelper ==
    ASSUME NumbersOK, NEW h \in Helpers, HelperMove(h)
    PROVE  \/ Gate!Arrive(h) \/ Gate!Pass(h) \/ Gate!Dismiss(h)
           \/ UNCHANGED Gate!gateVars
<1>0. hpc \in [Helpers -> HelperPoints]
  BY DEF NumbersOK, LifecycleTypeOK
<1>1. CASE HelperParks(h)
  BY <1>0, <1>1 DEF HelperParks, WaitIsCalled, Gate!Arrive, Place
<1>2. CASE WaitParks(h)
  BY <1>0, <1>2 DEF WaitParks, Place, Gate!gateVars
<1>3. CASE WaitReturnsNone(h)
  BY <1>0, <1>3 DEF WaitReturnsNone, Place, Gate!Dismiss
<1>4. CASE HelperResumes(h)
  BY <1>0, <1>4 DEF HelperResumes, WaitReturns, Newer, Place, Gate!Pass
<1>5. CASE HelperWakes(h)
  BY <1>0, <1>5 DEF HelperWakes, SpuriousWakeup, Place, Gate!gateVars
<1> QED
  BY <1>1, <1>2, <1>3, <1>4, <1>5 DEF HelperMove, HelperWaits

LEMMA GateStep ==
    NumbersInv /\ [Next]_vars => [Gate!Next]_(Gate!gateVars)
<1> SUFFICES ASSUME NumbersInv, [Next]_vars
             PROVE  Gate!Next \/ UNCHANGED Gate!gateVars
  OBVIOUS
<1>n. NumbersOK
  BY DEF NumbersInv
<1>1. ASSUME UNCHANGED lifecycleVars PROVE UNCHANGED Gate!gateVars
  BY <1>1 DEF lifecycleVars, Gate!gateVars, Place
<1>2. CASE Silent
  BY <1>1, <1>2, SilentFrame DEF numberVars
<1>3. CASE ForwardBusEvent \/ SendsQuiesce
  BY <1>1, <1>3 DEF ForwardBusEvent, SendsQuiesce
<1>4. CASE ControlTakes
  <2>1. toWorker # <<>> => Head(toWorker).activation \in 0 .. MaxActivation
    BY <1>n, MessageType DEF NumbersOK
  <2>2. Place' = Place
    BY <1>4, <1>n, ControlFrame
  <2>3. toWorker # <<>>
    BY <1>4 DEF ControlTakes
  <2>4. activation \in 0 .. MaxActivation /\ MaxActivation \in Nat
    BY <1>n, ActivationAssumption DEF NumbersOK, LifecycleTypeOK
  <2>5. CASE Head(toWorker).kind = "Enable"
    <3>1. Activates(Head(toWorker).activation)
      BY <1>4, <2>5 DEF ControlTakes
    <3> QED
      BY <3>1, <2>1, <2>2, <2>3, <2>4
         DEF Activates, Gate!Next, Gate!Activate, Gate!gateVars
  <2>6. CASE Head(toWorker).kind = "Quiesce"
    <3>1. Stops
      BY <1>4, <2>6 DEF ControlTakes
    <3> QED
      BY <3>1, <2>2 DEF Stops, Gate!Next, Gate!Stop, Gate!gateVars
  <2>7. CASE Head(toWorker).kind \notin {"Enable", "Quiesce"}
    BY <1>1, <1>4, <2>7 DEF ControlTakes
  <2> QED
    BY <2>5, <2>6, <2>7
<1>5. ASSUME NEW h \in Helpers, HelperMove(h)
      PROVE  Gate!Next \/ UNCHANGED Gate!gateVars
  BY <1>5, <1>n, GateHelper DEF Gate!Next
<1> QED
  BY <1>2, <1>3, <1>4, <1>5, Sorted DEF HelperMove

\* Mutex and condition variable implement the gate: no helper passes it twice
\* with one activation, and none passes it once the generation stops.  (That
\* every helper gets through in the end is GateKept, checked by TLC.)
THEOREM GateImplemented == Spec => Gate!Spec
<1>1. Spec => []NumbersInv
  BY NumbersInvInit, NumbersInvStep, PTL DEF Spec
<1> QED
  BY <1>1, GateInit, GateStep, PTL DEF Spec, Gate!Spec

-----------------------------------------------------------------------------
(* The merged event queue.                                                 *)

\* The part of TypeOK that is not in NumbersOK.
EventTypes ==
    /\ configured \in BOOLEAN /\ suspended \in BOOLEAN /\ lost \in BOOLEAN
    /\ enables \in 0 .. MaxEnables
    /\ events \in Seq(BusEvents) /\ batch \in Seq(BusEvents)
    /\ io \in [Helpers -> {"none", "ready", "running", "blocked",
                           "cancelled"}]
    /\ spc \in {"serve", "quiesce", "await", "done"}
    /\ endpoints_enabled \in BOOLEAN
    /\ Len(toWorker) <= ChanCap
    /\ quiesced \in BOOLEAN

TypeInv == NumbersInv /\ EventTypes

Has(s, x) == \E i \in 1 .. Len(s) : s[i] = x

\* A queue that merges holds at most one lifecycle event.
Single(s) ==
    \A i, j \in 1 .. Len(s) :
        s[i] \notin Power /\ s[j] \notin Power => i = j

\* What endpoints_enabled is after the events of s, if it was `on` before, and
\* how many fresh activations they yield.
EnabledBy(s, on) ==
    \/ Has(s, "Enable")
    \/ on /\ ~Has(s, "Disable") /\ ~Has(s, "Bind") /\ ~Has(s, "Unbind")

Due(s, on) == IF Has(s, "Enable") /\ ~on THEN 1 ELSE 0

EnabledNext == EnabledBy(batch, endpoints_enabled)

LEMMA QueueMerges ==
    ASSUME events \in Seq(BusEvents), NEW e \in BusEvents, Queue(e)
    PROVE  /\ events' \in Seq(BusEvents)
           /\ \A x : Has(events', x) <=>
                  x = e \/ (Has(events, x) /\ Survives(x, e))
           /\ Single(events) => Single(events')
<1> DEFINE kept == {i \in DOMAIN events : Survives(events[i], e)}
<1>0. PICK n \in 0 .. Len(events) : \E f \in [1 .. n -> kept] :
          /\ \A i, j \in 1 .. n : i < j => f[i] < f[j]
          /\ \A k \in kept : \E i \in 1 .. n : f[i] = k
          /\ events' = Append([i \in 1 .. n |-> events[f[i]]], e)
  BY DEF Queue
<1>1. PICK f \in [1 .. n -> kept] :
          /\ \A i, j \in 1 .. n : i < j => f[i] < f[j]
          /\ \A k \in kept : \E i \in 1 .. n : f[i] = k
          /\ events' = Append([i \in 1 .. n |-> events[f[i]]], e)
  BY <1>0
<1> DEFINE s == [i \in 1 .. n |-> events[f[i]]]
<1>2. Len(events) \in Nat /\ DOMAIN events = 1 .. Len(events) /\ n \in Nat
  OBVIOUS
<1>3. \A i \in 1 .. n : /\ f[i] \in 1 .. Len(events)
                        /\ Survives(events[f[i]], e)
                        /\ s[i] = events[f[i]] /\ s[i] \in BusEvents
  BY <1>1, <1>2
<1>4. s \in Seq(BusEvents) /\ Len(s) = n
  BY <1>2, <1>3
<1>5. /\ events' \in Seq(BusEvents)
      /\ Len(events') = n + 1 /\ events'[n + 1] = e
      /\ \A i \in 1 .. n : events'[i] = events[f[i]]
  <2>1. events' = Append(s, e)
    BY <1>1
  <2> HIDE DEF s
  <2>2. /\ events' \in Seq(BusEvents)
        /\ Len(events') = n + 1 /\ events'[n + 1] = e
        /\ \A i \in 1 .. n : events'[i] = s[i]
    BY <1>2, <1>4, <2>1
  <2> QED BY <1>3, <2>2
<1> HIDE DEF s
<1>6. ASSUME NEW x, Has(events', x)
      PROVE  x = e \/ (Has(events, x) /\ Survives(x, e))
  <2>1. PICK i \in 1 .. n + 1 : events'[i] = x
    BY <1>5, <1>6 DEF Has
  <2>2. CASE i = n + 1
    BY <1>5, <2>1, <2>2
  <2>3. CASE i # n + 1
    <3>1. i \in 1 .. n
      BY <1>2, <2>1, <2>3
    <3>2. f[i] \in 1 .. Len(events) /\ events[f[i]] = x /\ Survives(x, e)
      BY <1>3, <1>5, <2>1, <3>1
    <3> QED BY <3>2 DEF Has
  <2> QED BY <2>2, <2>3
<1>7. ASSUME NEW x, x = e \/ (Has(events, x) /\ Survives(x, e))
      PROVE  Has(events', x)
  <2>1. CASE x = e
    <3>1. n + 1 \in 1 .. Len(events')
      BY <1>2, <1>5
    <3> QED BY <1>5, <2>1, <3>1 DEF Has
  <2>2. CASE Has(events, x) /\ Survives(x, e)
    <3>1. PICK k \in 1 .. Len(events) : events[k] = x
      BY <2>2 DEF Has
    <3>2. k \in kept
      BY <1>2, <2>2, <3>1
    <3>3. PICK i \in 1 .. n : f[i] = k
      BY <1>1, <3>2
    <3>4. i \in 1 .. Len(events') /\ events'[i] = x
      BY <1>2, <1>5, <3>1, <3>3
    <3> QED BY <3>4 DEF Has
  <2> QED BY <1>7, <2>1, <2>2
<1>8. ASSUME Single(events) PROVE Single(events')
  <2> SUFFICES ASSUME NEW i \in 1 .. n + 1, NEW j \in 1 .. n + 1,
                      events'[i] \notin Power, events'[j] \notin Power
               PROVE  i = j
    BY <1>5 DEF Single
  <2>1. ASSUME NEW k \in 1 .. n, events'[k] \notin Power
        PROVE  e \in Power
    BY <1>3, <1>5, <2>1 DEF Survives, Power
  <2>2. CASE i \in 1 .. n /\ j \in 1 .. n
    <3>1. f[i] = f[j]
      BY <1>3, <1>5, <1>8, <2>2 DEF Single
    <3>2. ~(i < j) /\ ~(j < i)
      BY <1>1, <1>3, <2>2, <3>1
    <3> QED BY <2>2, <3>2
  <2>3. CASE i = n + 1 /\ j = n + 1
    BY <2>3
  <2>4. CASE i \in 1 .. n /\ j = n + 1
    BY <1>5, <2>1, <2>4
  <2>5. CASE i = n + 1 /\ j \in 1 .. n
    BY <1>5, <2>1, <2>5
  <2> QED BY <1>2, <2>2, <2>3, <2>4, <2>5
<1> QED BY <1>5, <1>6, <1>7, <1>8

\* What is left of a batch when its first event was forwarded.
LEMMA BatchForwarded ==
    ASSUME batch \in Seq(BusEvents), batch # <<>>
    PROVE  /\ Head(batch) \in BusEvents /\ Tail(batch) \in Seq(BusEvents)
           /\ \A x : Has(batch, x) <=> x = Head(batch) \/ Has(Tail(batch), x)
           /\ Single(batch) =>
                  /\ Single(Tail(batch))
                  /\ Head(batch) \notin Power =>
                         \A x : Has(Tail(batch), x) => x \in Power
<1> DEFINE t == Tail(batch)
<1>1. /\ Len(batch) \in Nat \ {0} /\ Head(batch) = batch[1]
      /\ Head(batch) \in BusEvents /\ t \in Seq(BusEvents)
      /\ Len(t) = Len(batch) - 1
      /\ \A i \in 1 .. Len(t) : t[i] = batch[i + 1]
  OBVIOUS
<1> HIDE DEF t
<1>2. ASSUME NEW x, Has(batch, x) PROVE x = Head(batch) \/ Has(t, x)
  <2>1. PICK i \in 1 .. Len(batch) : batch[i] = x
    BY <1>2 DEF Has
  <2>2. CASE i = 1
    BY <1>1, <2>1, <2>2
  <2>3. CASE i # 1
    <3>1. i - 1 \in 1 .. Len(t) /\ t[i - 1] = batch[(i - 1) + 1]
      BY <1>1, <2>1, <2>3
    <3>2. (i - 1) + 1 = i
      BY <1>1, <2>1
    <3> QED BY <2>1, <3>1, <3>2 DEF Has
  <2> QED BY <2>2, <2>3
<1>3. ASSUME NEW x, x = Head(batch) \/ Has(t, x) PROVE Has(batch, x)
  <2>1. CASE x = Head(batch)
    <3>1. 1 \in 1 .. Len(batch)
      BY <1>1
    <3> QED BY <1>1, <2>1, <3>1 DEF Has
  <2>2. CASE Has(t, x)
    <3>1. PICK i \in 1 .. Len(t) : t[i] = x
      BY <2>2 DEF Has
    <3>2. i + 1 \in 1 .. Len(batch) /\ batch[i + 1] = x
      BY <1>1, <3>1
    <3> QED BY <3>2 DEF Has
  <2> QED BY <1>3, <2>1, <2>2
<1>4. ASSUME Single(batch) PROVE Single(t)
  <2> SUFFICES ASSUME NEW i \in 1 .. Len(t), NEW j \in 1 .. Len(t),
                      t[i] \notin Power, t[j] \notin Power
               PROVE  i = j
    BY DEF Single
  <2>1. i + 1 \in 1 .. Len(batch) /\ j + 1 \in 1 .. Len(batch)
    BY <1>1
  <2>2. i + 1 = j + 1
    BY <1>1, <1>4, <2>1 DEF Single
  <2> QED BY <1>1, <2>2
<1>5. ASSUME Single(batch), Head(batch) \notin Power, NEW x, Has(t, x)
      PROVE  x \in Power
  <2>1. PICK i \in 1 .. Len(t) : t[i] = x
    BY <1>5 DEF Has
  <2>2. i + 1 \in 1 .. Len(batch) /\ 1 \in 1 .. Len(batch) /\ i + 1 # 1
    BY <1>1, <2>1
  <2>3. batch[i + 1] \in Power
    BY <1>1, <1>5, <2>2 DEF Single
  <2> QED BY <1>1, <2>1, <2>3
<1> QED BY <1>1, <1>2, <1>3, <1>4, <1>5 DEF t

-----------------------------------------------------------------------------
(* Types.                                                                  *)

LEMMA EventTypesInit == Init => EventTypes
<1> SUFFICES ASSUME Init PROVE EventTypes
  OBVIOUS
<1>1. events \in Seq(BusEvents)
  <2>1. events = <<"Bind">> /\ "Bind" \in BusEvents
    BY DEF Init, BusEvents
  <2> QED BY <2>1
<1>2. batch \in Seq(BusEvents) /\ Len(toWorker) <= ChanCap
  BY ActivationBounds DEF Init
<1>3. io \in [Helpers -> {"none", "ready", "running", "blocked", "cancelled"}]
  BY DEF Init
<1>4. enables \in 0 .. MaxEnables
  BY ActivationBounds DEF Init
<1> QED BY <1>1, <1>2, <1>3, <1>4 DEF Init, EventTypes

LEMMA IoTypes ==
    ASSUME EventTypes, NEW on \in BOOLEAN, IoWith(on)
    PROVE  io' \in
              [Helpers -> {"none", "ready", "running", "blocked", "cancelled"}]
  BY DEF EventTypes, IoWith

\* A step of the host, and the unbind.
LEMMA MergeTypes ==
    ASSUME EventTypes, NEW e \in BusEvents, Queue(e)
    PROVE  events' \in Seq(BusEvents) /\ lost' \in BOOLEAN
<1>1. events' \in Seq(BusEvents)
  BY QueueMerges DEF EventTypes
<1>2. lost' \in BOOLEAN
  BY DEF Queue, EventTypes
<1> QED BY <1>1, <1>2

LEMMA HostTypes ==
    ASSUME EventTypes, HostStep
    PROVE  EventTypes'
<1>e. {"Enable", "Disable", "Suspend", "Resume"} \subseteq BusEvents
  BY DEF BusEvents
<1>1. CASE HostEnables
  <2>1. enables' \in 0 .. MaxEnables
    BY <1>1, ActivationBounds DEF HostEnables, EventTypes
  <2>2. events' \in Seq(BusEvents) /\ lost' \in BOOLEAN
    BY <1>1, <1>e, MergeTypes DEF HostEnables
  <2>3. io' \in
           [Helpers -> {"none", "ready", "running", "blocked", "cancelled"}]
    BY <1>1, IoTypes DEF HostEnables
  <2> QED
    BY <1>1, <2>1, <2>2, <2>3 DEF HostEnables, EventTypes, supervisorVars
<1>2. CASE HostEnablesAgain
  <2>1. events' \in Seq(BusEvents) /\ lost' \in BOOLEAN
    BY <1>2, <1>e, MergeTypes DEF HostEnablesAgain
  <2> QED BY <1>2, <2>1 DEF HostEnablesAgain, EventTypes, supervisorVars
<1>3. CASE HostDisables
  <2>1. events' \in Seq(BusEvents) /\ lost' \in BOOLEAN
    BY <1>3, <1>e, MergeTypes DEF HostDisables
  <2>2. io' \in
           [Helpers -> {"none", "ready", "running", "blocked", "cancelled"}]
    BY <1>3, IoTypes DEF HostDisables
  <2> QED BY <1>3, <2>1, <2>2 DEF HostDisables, EventTypes, supervisorVars
<1>4. CASE HostSuspends
  <2> DEFINE e == IF suspended THEN "Resume" ELSE "Suspend"
  <2>1. e \in BusEvents
    BY <1>e
  <2>2. Queue(e)
    BY <1>4 DEF HostSuspends
  <2>3. events' \in Seq(BusEvents) /\ lost' \in BOOLEAN
    BY <2>1, <2>2, MergeTypes
  <2> QED BY <1>4, <2>3 DEF HostSuspends, EventTypes, supervisorVars
<1> QED BY <1>1, <1>2, <1>3, <1>4 DEF HostStep

LEMMA UnbindTypes ==
    ASSUME EventTypes, Unbinds
    PROVE  EventTypes'
<1>1. "Unbind" \in BusEvents
  BY DEF BusEvents
<1>2. events' \in Seq(BusEvents) /\ lost' \in BOOLEAN
  BY <1>1, MergeTypes DEF Unbinds
<1>3. io' \in
         [Helpers -> {"none", "ready", "running", "blocked", "cancelled"}]
  BY IoTypes DEF Unbinds
<1>4. batch' \in Seq(BusEvents)
  BY DEF Unbinds
<1> QED BY <1>2, <1>3, <1>4 DEF Unbinds, EventTypes

LEMMA SupervisorTypes ==
    ASSUME TypeInv, ReadEp0 \/ ForwardBusEvent \/ SendsQuiesce
    PROVE  EventTypes'
<1>1. EventTypes /\ toWorker \in Seq(Messages) /\ endpoint_activation \in Nat
  BY DEF TypeInv, NumbersInv, NumbersOK
<1>2. ASSUME NEW m, toWorker' = Append(toWorker, m), Len(toWorker) < ChanCap
      PROVE  Len(toWorker') <= ChanCap
  BY <1>1, <1>2, ActivationBounds
<1>3. CASE ReadEp0
  BY <1>1, <1>3 DEF ReadEp0, EventTypes
<1>4. CASE ForwardBusEvent
  <2>1. batch' \in Seq(BusEvents)
    BY <1>1, <1>4, BatchForwarded DEF ForwardBusEvent, EventTypes
  <2>2. endpoints_enabled' \in BOOLEAN
    BY <1>1, <1>4 DEF ForwardBusEvent, EnabledAfter, EventTypes
  <2>3. Len(toWorker') <= ChanCap
    BY <1>2, <1>4 DEF ForwardBusEvent
  <2> QED
    BY <1>1, <1>4, <2>1, <2>2, <2>3
       DEF ForwardBusEvent, EventTypes, kernelVars
<1>5. CASE SendsQuiesce
  <2>1. Len(toWorker') <= ChanCap
    BY <1>2, <1>5 DEF SendsQuiesce
  <2> QED BY <1>1, <1>5, <2>1 DEF SendsQuiesce, EventTypes, kernelVars
<1> QED BY <1>3, <1>4, <1>5

LEMMA WorkerTypes ==
    ASSUME TypeInv,
           \/ ControlStep
           \/ \E h \in Helpers : HelperStep(h) \/ IoCompletes(h)
                                    \/ HelperWakes(h)
    PROVE  EventTypes'
<1>1. EventTypes /\ toWorker \in Seq(Messages)
  BY DEF TypeInv, NumbersInv, NumbersOK
<1>2. CASE ControlTakes
  <2>1. Len(toWorker') <= ChanCap
    BY <1>1, <1>2, ActivationBounds DEF ControlTakes, EventTypes
  <2> QED
    BY <1>1, <1>2, <2>1 DEF ControlTakes, EventTypes, kernelVars,
       supervisorVars
<1>3. CASE ControlReplies
  BY <1>1, <1>3 DEF ControlReplies, EventTypes, kernelVars, supervisorVars
<1>4. ASSUME NEW h \in Helpers, UNCHANGED notHelper,
             \/ UNCHANGED io
             \/ \E i \in {"none", "ready", "running", "blocked"} :
                   io' = [io EXCEPT ![h] = i]
      PROVE  EventTypes'
  <2>1. io' \in
           [Helpers -> {"none", "ready", "running", "blocked", "cancelled"}]
    BY <1>1, <1>4 DEF EventTypes
  <2> QED
    BY <1>1, <1>4, <2>1 DEF EventTypes, notHelper, kernelVars, supervisorVars
<1>5. ASSUME NEW h \in Helpers,
             HelperStep(h) \/ IoCompletes(h) \/ HelperWakes(h)
      PROVE  EventTypes'
  BY <1>4, <1>5 DEF HelperStep, HelperParks, HelperWaits, HelperResumes,
     HelperIssues, IoCompletes, HelperWakes
<1> QED BY <1>2, <1>3, <1>5 DEF ControlStep

LEMMA TypeInvStep == TypeInv /\ [Next]_vars => TypeInv'
<1> SUFFICES ASSUME TypeInv, [Next]_vars PROVE TypeInv'
  OBVIOUS
<1>1. NumbersInv'
  BY NumbersInvStep DEF TypeInv
<1>t. EventTypes
  BY DEF TypeInv
<1>2. EventTypes'
  <2>1. CASE HostStep
    BY <1>t, <2>1, HostTypes
  <2>2. CASE ActivationOverflows \/ StartsTeardown
    BY <1>t, <2>2, UnbindTypes DEF ActivationOverflows, StartsTeardown
  <2>3. CASE StopsWaiting \/ Done \/ UNCHANGED vars
    BY <1>t, <2>3 DEF StopsWaiting, Done, EventTypes, vars, kernelVars,
       supervisorVars
  <2> QED
    BY <2>1, <2>2, <2>3, SupervisorTypes, WorkerTypes DEF Next, SupervisorStep
<1> QED BY <1>1, <1>2 DEF TypeInv

LEMMA TypesHold == Spec => []TypeInv
<1>1. Init => TypeInv
  BY NumbersInvInit, EventTypesInit DEF TypeInv
<1> QED BY <1>1, TypeInvStep, PTL DEF Spec

\* Type correctness for every number of helpers, records and configurations.
THEOREM ActivationTypes == Spec => []TypeOK
<1>1. TypeInv => TypeOK
  BY DEF TypeInv, NumbersInv, NumbersOK, EventTypes, TypeOK
<1> QED BY <1>1, TypesHold, PTL

-----------------------------------------------------------------------------
(* What the supervisor believes, and what was lost.                        *)

\* Both queues hold one lifecycle event at most, and the supervisor will have
\* endpoints_enabled right once it has forwarded them.
MergeFacts ==
    spc = "serve" =>
        /\ Single(events) /\ Single(batch)
        /\ configured <=> EnabledBy(events, EnabledNext)

\* Numbers given out and numbers still due are covered by configurations.
CountFacts ==
    /\ endpoint_activation <= enables
    /\ spc = "serve" =>
          endpoint_activation + Due(batch, endpoints_enabled)
              + Due(events, EnabledNext) <= enables

\* The last number has reached the lifecycle or is in the channel.
NumberOnItsWay ==
    spc = "serve" =>
        /\ ~stopping
        /\ \A i \in 1 .. Len(toWorker) : toWorker[i].kind # "Quiesce"
        /\ \/ endpoint_activation = activation
           \/ \E i \in 1 .. Len(toWorker) :
                 /\ toWorker[i].kind = "Enable"
                 /\ toWorker[i].activation = endpoint_activation

ParkFacts ==
    \A h \in Helpers :
        /\ hpc[h] \in {"check", "parked"} => io[h] = "none"
        /\ hpc[h] = "parked" => ~Newer(h)

\* A helper without I/O has used up its number; a newer one was given out, or
\* the next Enable will be fresh.
Spent(h) == io[h] \in {"cancelled", "none"}

SpentFacts ==
    spc = "serve" /\ ~lost => \A h \in Helpers :
        Spent(h) =>
            \/ observed[h] < endpoint_activation
            \/ ~endpoints_enabled
            \/ Has(batch, "Disable") \/ Has(events, "Disable")

IInvActivation ==
    /\ TypeInv /\ MergeFacts /\ CountFacts /\ NumberOnItsWay
    /\ ParkFacts /\ SpentFacts

eventVars == <<configured, enables, events, lost, batch, endpoints_enabled,
               endpoint_activation>>

\* The steps that leave the supervisor serving.
LEMMA ServingSteps ==
    ASSUME [Next]_vars, spc' = "serve"
    PROVE  /\ spc = "serve"
           /\ \/ HostStep \/ ReadEp0 \/ ForwardBusEvent
              \/ UNCHANGED eventVars
<1>1. CASE HostStep
  BY <1>1 DEF HostStep, HostEnables, HostEnablesAgain, HostDisables,
     HostSuspends
<1>2. CASE ReadEp0 \/ ForwardBusEvent
  BY <1>2 DEF ReadEp0, ForwardBusEvent
<1>3. CASE ActivationOverflows \/ StartsTeardown \/ SendsQuiesce
              \/ StopsWaiting \/ Done
  BY <1>3 DEF ActivationOverflows, StartsTeardown, Unbinds, SendsQuiesce,
     StopsWaiting, Done, vars, supervisorVars
<1>4. CASE ControlStep \/ UNCHANGED vars
  BY <1>4 DEF ControlStep, ControlTakes, ControlReplies, vars, kernelVars,
     supervisorVars, eventVars
<1>5. ASSUME NEW h \in Helpers,
             HelperStep(h) \/ IoCompletes(h) \/ HelperWakes(h)
      PROVE  spc = "serve" /\ UNCHANGED eventVars
  BY <1>5 DEF HelperStep, HelperParks, HelperWaits, HelperResumes,
     HelperIssues, IoCompletes, HelperWakes, notHelper, kernelVars,
     supervisorVars, eventVars
<1> QED BY <1>1, <1>2, <1>3, <1>4, <1>5 DEF Next, SupervisorStep

\* A lifecycle event is the only one of its kind, a power event changes
\* nothing about the others.
LEMMA LifecycleMerged ==
    ASSUME EventTypes, NEW e \in {"Enable", "Disable"}, Queue(e)
    PROVE  /\ Single(events) => Single(events')
           /\ Has(events', "Enable") <=> e = "Enable"
           /\ Has(events', "Disable") <=> e = "Disable"
           /\ ~Has(events', "Bind") /\ ~Has(events', "Unbind")
           /\ lost' <=> lost \/ Has(events, "Disable")
<1>1. e \in BusEvents /\ events \in Seq(BusEvents)
  BY DEF BusEvents, EventTypes
<1>2. /\ Single(events) => Single(events')
      /\ \A x : Has(events', x) <=>
             x = e \/ (Has(events, x) /\ Survives(x, e))
  BY <1>1, QueueMerges
<1>3. \A x : x \notin Power => ~Survives(x, e)
  BY DEF Survives, Power
<1>4. \A x \in {"Enable", "Disable", "Bind", "Unbind"} : x \notin Power
  BY DEF Power
<1>5. \A x \in {"Enable", "Disable", "Bind", "Unbind"} :
          Has(events', x) <=> x = e
  BY <1>2, <1>3, <1>4
<1>6. lost' <=> lost \/ Has(events, "Disable")
  <2>1. lost' = (\/ lost
                 \/ /\ ~Survives("Disable", e)
                    /\ \E i \in DOMAIN events : events[i] = "Disable")
    BY DEF Queue
  <2>2. DOMAIN events = 1 .. Len(events)
    BY <1>1
  <2>3. ~Survives("Disable", e)
    BY <1>3, <1>4
  <2> QED BY <2>1, <2>2, <2>3 DEF Has
<1> QED BY <1>2, <1>5, <1>6

LEMMA PowerMerged ==
    ASSUME EventTypes, NEW e \in Power, Queue(e)
    PROVE  /\ Single(events) => Single(events')
           /\ \A x \in {"Enable", "Disable", "Bind", "Unbind"} :
                 Has(events', x) <=> Has(events, x)
           /\ lost' <=> lost
<1>1. e \in BusEvents /\ events \in Seq(BusEvents)
  BY DEF BusEvents, EventTypes, Power
<1>2. /\ Single(events) => Single(events')
      /\ \A x : Has(events', x) <=>
             x = e \/ (Has(events, x) /\ Survives(x, e))
  BY <1>1, QueueMerges
<1>3. \A x \in {"Enable", "Disable", "Bind", "Unbind"} :
          Survives(x, e) /\ x # e
  BY DEF Survives, Power
<1>4. lost' <=> lost
  BY <1>3 DEF Queue, EventTypes
<1> QED BY <1>2, <1>3, <1>4

LEMMA EmptyHasNothing == \A x : ~Has(<<>>, x)
  BY DEF Has

LEMMA MergeFactsStep ==
    ASSUME IInvActivation, [Next]_vars
    PROVE  MergeFacts' /\ CountFacts'
<1> SUFFICES ASSUME spc' = "serve"
             PROVE  MergeFacts' /\ CountFacts'
  <2>1. ASSUME spc' # "serve" PROVE CountFacts'
    <3>1. UNCHANGED <<endpoint_activation, enables>> \/ spc' = "serve"
      <4>1. CASE HostStep
        BY <4>1 DEF HostStep, HostEnables, HostEnablesAgain, HostDisables,
           HostSuspends, supervisorVars, IInvActivation, TypeInv, EventTypes
      <4>2. CASE ActivationOverflows \/ StartsTeardown \/ SendsQuiesce
                    \/ StopsWaiting \/ Done \/ UNCHANGED vars
        BY <4>2 DEF ActivationOverflows, StartsTeardown, Unbinds,
           SendsQuiesce, StopsWaiting, Done, vars, kernelVars, supervisorVars
      <4>3. CASE ReadEp0 \/ ForwardBusEvent
        BY <4>3 DEF ReadEp0, ForwardBusEvent
      <4>4. CASE ControlStep
        BY <4>4 DEF ControlStep, ControlTakes, ControlReplies, kernelVars,
           supervisorVars
      <4>5. ASSUME NEW h \in Helpers,
                   HelperStep(h) \/ IoCompletes(h) \/ HelperWakes(h)
            PROVE  UNCHANGED <<endpoint_activation, enables>>
        BY <4>5 DEF HelperStep, HelperParks, HelperWaits, HelperResumes,
           HelperIssues, IoCompletes, HelperWakes, notHelper, kernelVars,
           supervisorVars
      <4> QED BY <4>1, <4>2, <4>3, <4>4, <4>5 DEF Next, SupervisorStep
    <3> QED BY <2>1, <3>1 DEF IInvActivation, CountFacts
  <2> QED BY <2>1 DEF MergeFacts
<1>s. /\ spc = "serve"
      /\ HostStep \/ ReadEp0 \/ ForwardBusEvent \/ UNCHANGED eventVars
  BY ServingSteps
<1>t. /\ EventTypes /\ enables \in Nat /\ endpoint_activation \in Nat
      /\ batch \in Seq(BusEvents)
      /\ configured \in BOOLEAN /\ endpoints_enabled \in BOOLEAN
  BY ActivationBounds, ActivationAssumption
     DEF IInvActivation, TypeInv, NumbersInv, NumbersOK, EventTypes
<1>i. /\ Single(events) /\ Single(batch)
      /\ configured <=> EnabledBy(events, EnabledNext)
      /\ endpoint_activation + Due(batch, endpoints_enabled)
             + Due(events, EnabledNext) <= enables
      /\ endpoint_activation <= enables
  BY <1>s DEF IInvActivation, MergeFacts, CountFacts
<1>1. CASE HostEnables
  <2>1. UNCHANGED <<batch, endpoints_enabled, endpoint_activation>>
        /\ ~configured /\ configured' /\ enables' = enables + 1
    BY <1>1 DEF HostEnables, supervisorVars
  <2>2. Queue("Enable")
    BY <1>1 DEF HostEnables
  <2>3. Single(events') /\ Has(events', "Enable")
    BY <1>t, <1>i, <2>2, LifecycleMerged
  <2>4. ~Has(events, "Enable")
    BY <1>i, <2>1 DEF EnabledBy
  <2>5. EnabledNext' <=> EnabledNext
    BY <2>1 DEF EnabledNext, EnabledBy
  <2>6. MergeFacts'
    BY <1>i, <2>1, <2>3 DEF MergeFacts, EnabledBy
  <2>7. Due(events, EnabledNext) = 0 /\ Due(events', EnabledNext') \in {0, 1}
    BY <2>4 DEF Due
  <2>8. Due(batch', endpoints_enabled') = Due(batch, endpoints_enabled)
    BY <2>1
  <2>9. Due(batch, endpoints_enabled) \in {0, 1}
    BY DEF Due
  <2>10. CountFacts'
    BY <1>i, <1>t, <2>1, <2>7, <2>8, <2>9 DEF CountFacts
  <2> QED BY <2>6, <2>10
<1>2. CASE HostEnablesAgain
  <2>1. UNCHANGED <<configured, enables, batch, endpoints_enabled,
                    endpoint_activation>> /\ configured
    BY <1>2 DEF HostEnablesAgain, supervisorVars
  <2>2. Queue("Enable")
    BY <1>2 DEF HostEnablesAgain
  <2>3. Single(events') /\ Has(events', "Enable")
    BY <1>t, <1>i, <2>2, LifecycleMerged
  <2>4. Has(events, "Enable") \/ EnabledNext
    BY <1>i, <2>1 DEF EnabledBy
  <2>5. EnabledNext' <=> EnabledNext
    BY <2>1 DEF EnabledNext, EnabledBy
  <2>6. MergeFacts'
    BY <1>i, <2>1, <2>3 DEF MergeFacts, EnabledBy
  <2>7. Due(events', EnabledNext') = Due(events, EnabledNext)
    BY <2>3, <2>4, <2>5 DEF Due
  <2>8. Due(batch', endpoints_enabled') = Due(batch, endpoints_enabled)
    BY <2>1
  <2>9. CountFacts'
    BY <1>i, <2>1, <2>7, <2>8 DEF CountFacts
  <2> QED BY <2>6, <2>9
<1>3. CASE HostDisables
  <2>1. UNCHANGED <<enables, batch, endpoints_enabled, endpoint_activation>>
        /\ ~configured'
    BY <1>3 DEF HostDisables, supervisorVars
  <2>2. Queue("Disable")
    BY <1>3 DEF HostDisables
  <2>3. Single(events') /\ Has(events', "Disable")
        /\ ~Has(events', "Enable")
    BY <1>t, <1>i, <2>2, LifecycleMerged
  <2>4. MergeFacts'
    BY <1>i, <2>1, <2>3 DEF MergeFacts, EnabledBy
  <2>5. Due(events', EnabledNext') = 0 /\ Due(events, EnabledNext) \in {0, 1}
    BY <2>3 DEF Due
  <2>6. Due(batch', endpoints_enabled') = Due(batch, endpoints_enabled)
        /\ Due(batch, endpoints_enabled) \in {0, 1}
    BY <2>1 DEF Due
  <2>7. CountFacts'
    BY <1>i, <1>t, <2>1, <2>5, <2>6 DEF CountFacts
  <2> QED BY <2>4, <2>7
<1>4. CASE HostSuspends
  <2> DEFINE e == IF suspended THEN "Resume" ELSE "Suspend"
  <2>1. UNCHANGED <<configured, enables, batch, endpoints_enabled,
                    endpoint_activation>>
    BY <1>4 DEF HostSuspends, supervisorVars
  <2>2. e \in Power /\ Queue(e)
    BY <1>4 DEF HostSuspends, Power
  <2>3. /\ Single(events')
        /\ \A x \in {"Enable", "Disable", "Bind", "Unbind"} :
              Has(events', x) <=> Has(events, x)
    BY <1>t, <1>i, <2>2, PowerMerged
  <2>4. EnabledNext' <=> EnabledNext
    BY <2>1 DEF EnabledNext, EnabledBy
  <2>5. EnabledBy(events', EnabledNext') <=> EnabledBy(events, EnabledNext)
    BY <2>3, <2>4 DEF EnabledBy
  <2>6. MergeFacts'
    BY <1>i, <2>1, <2>3, <2>5 DEF MergeFacts
  <2>7. Due(events', EnabledNext') = Due(events, EnabledNext)
    BY <2>3, <2>4 DEF Due
  <2>8. Due(batch', endpoints_enabled') = Due(batch, endpoints_enabled)
    BY <2>1
  <2>9. CountFacts'
    BY <1>i, <2>1, <2>7, <2>8 DEF CountFacts
  <2> QED BY <2>6, <2>9
<1>5. CASE ReadEp0
  <2>1. /\ batch = <<>> /\ batch' = events /\ events' = <<>>
        /\ UNCHANGED <<configured, enables, endpoints_enabled,
                       endpoint_activation>>
    BY <1>5 DEF ReadEp0
  <2>2. /\ \A x : ~Has(batch, x)
        /\ \A x : ~Has(events', x)
        /\ \A x : Has(batch', x) <=> Has(events, x)
    BY <2>1, EmptyHasNothing
  <2>3. EnabledNext <=> endpoints_enabled
    BY <2>2 DEF EnabledNext, EnabledBy
  <2>4. EnabledNext' <=> EnabledBy(events, EnabledNext)
    BY <2>1, <2>2, <2>3 DEF EnabledNext, EnabledBy
  <2>5. EnabledBy(events', EnabledNext') <=> EnabledNext'
    BY <2>2 DEF EnabledBy
  <2>6. Single(events') /\ Single(batch')
    BY <1>i, <2>1 DEF Single
  <2>7. MergeFacts'
    BY <1>i, <2>1, <2>4, <2>5, <2>6 DEF MergeFacts
  <2>8. /\ Due(events', EnabledNext') = 0 /\ Due(batch, endpoints_enabled) = 0
        /\ Due(batch', endpoints_enabled') = Due(events, EnabledNext)
        /\ Due(events, EnabledNext) \in {0, 1}
    BY <2>1, <2>2, <2>3 DEF Due
  <2>9. CountFacts'
    BY <1>i, <1>t, <2>1, <2>8 DEF CountFacts
  <2> QED BY <2>7, <2>9
<1>6. CASE ForwardBusEvent
  <2> DEFINE h == Head(batch)
             t == Tail(batch)
  <2>1. /\ batch # <<>> /\ batch' = t
        /\ endpoint_activation' = Advanced(h)
        /\ endpoints_enabled' = EnabledAfter(h)
        /\ UNCHANGED <<configured, enables, events>>
    BY <1>6 DEF ForwardBusEvent, kernelVars
  <2>2. /\ h \in BusEvents
        /\ \A x : Has(batch, x) <=> x = h \/ Has(t, x)
        /\ Single(t)
        /\ h \notin Power => \A x : Has(t, x) => x \in Power
    BY <1>t, <1>i, <2>1, BatchForwarded
  <2> HIDE DEF h, t
  <2>3. \A x \in {"Enable", "Disable", "Bind", "Unbind"} : x \notin Power
    BY DEF Power
  <2>4. h \in {"Enable", "Disable", "Bind", "Unbind"} =>
           /\ ~Has(t, "Enable") /\ ~Has(t, "Disable")
           /\ ~Has(t, "Bind") /\ ~Has(t, "Unbind")
    BY <2>2, <2>3
  <2>5. h \in {"Enable", "Disable", "Bind", "Unbind"} \/ h \in Power
    BY <2>2 DEF BusEvents, Power
  <2>6. /\ EnabledNext' <=> EnabledNext
        /\ endpoint_activation' + Due(batch', endpoints_enabled')
              = endpoint_activation + Due(batch, endpoints_enabled)
    <3>1. CASE h = "Enable"
      <4>1. /\ ~Has(t, "Enable") /\ Has(batch, "Enable")
            /\ ~Has(t, "Disable") /\ ~Has(t, "Bind") /\ ~Has(t, "Unbind")
        BY <2>2, <2>4, <3>1
      <4>2. endpoints_enabled'
        BY <2>1, <3>1 DEF EnabledAfter
      <4>3. endpoint_activation' = endpoint_activation
               + (IF endpoints_enabled THEN 0 ELSE 1)
        BY <2>1, <3>1 DEF Advanced, Fresh
      <4>4. EnabledNext' <=> EnabledNext
        BY <2>1, <4>1, <4>2 DEF EnabledNext, EnabledBy
      <4>5. Due(batch', endpoints_enabled') = 0
        BY <2>1, <4>1 DEF Due
      <4>6. Due(batch, endpoints_enabled) = IF endpoints_enabled THEN 0 ELSE 1
        BY <4>1 DEF Due
      <4> QED BY <1>t, <4>3, <4>4, <4>5, <4>6
    <3>2. CASE h \in {"Disable", "Bind", "Unbind"}
      <4>1. /\ ~Has(t, "Enable") /\ ~Has(batch, "Enable")
            /\ Has(batch, "Disable") \/ Has(batch, "Bind")
                  \/ Has(batch, "Unbind")
        BY <2>2, <2>4, <3>2
      <4>2. ~endpoints_enabled'
        BY <2>1, <3>2 DEF EnabledAfter
      <4>3. endpoint_activation' = endpoint_activation
        BY <1>t, <2>1, <3>2 DEF Advanced, Fresh
      <4>4. EnabledNext' <=> EnabledNext
        BY <2>1, <4>1, <4>2 DEF EnabledNext, EnabledBy
      <4>5. Due(batch', endpoints_enabled') = 0
            /\ Due(batch, endpoints_enabled) = 0
        BY <2>1, <4>1 DEF Due
      <4> QED BY <1>t, <4>3, <4>4, <4>5
    <3>3. CASE h \in Power
      <4>1. \A x \in {"Enable", "Disable", "Bind", "Unbind"} :
                Has(t, x) <=> Has(batch, x)
        BY <2>2, <2>3, <3>3
      <4>2. endpoints_enabled' <=> endpoints_enabled
        BY <2>1, <3>3 DEF EnabledAfter, Power
      <4>3. endpoint_activation' = endpoint_activation
        BY <1>t, <2>1, <3>3 DEF Advanced, Fresh, Power
      <4>4. EnabledNext' <=> EnabledNext
        BY <2>1, <4>1, <4>2 DEF EnabledNext, EnabledBy
      <4>5. Due(batch', endpoints_enabled') = Due(batch, endpoints_enabled)
        BY <2>1, <4>1, <4>2 DEF Due
      <4> QED BY <1>t, <4>3, <4>4, <4>5
    <3> QED BY <2>5, <3>1, <3>2, <3>3
  <2>7. EnabledBy(events', EnabledNext') <=> EnabledBy(events, EnabledNext)
    BY <2>1, <2>6 DEF EnabledBy
  <2>8. MergeFacts'
    BY <1>i, <2>1, <2>2, <2>7 DEF MergeFacts
  <2>9. Due(events', EnabledNext') = Due(events, EnabledNext)
        /\ Due(events, EnabledNext) \in {0, 1}
        /\ Due(batch', endpoints_enabled') \in {0, 1}
    BY <2>1, <2>6 DEF Due
  <2>10. endpoint_activation' \in Nat
    BY <1>t, <2>1 DEF Advanced
  <2>11. CountFacts'
    BY <1>i, <1>t, <2>1, <2>6, <2>9, <2>10 DEF CountFacts
  <2> QED BY <2>8, <2>11
<1>7. CASE UNCHANGED eventVars
  BY <1>i, <1>7
     DEF eventVars, MergeFacts, CountFacts, EnabledNext
<1> QED
  BY <1>s, <1>1, <1>2, <1>3, <1>4, <1>5, <1>6, <1>7 DEF HostStep

LEMMA NumberOnItsWayStep ==
    ASSUME IInvActivation, [Next]_vars
    PROVE  NumberOnItsWay'
<1> SUFFICES ASSUME spc' = "serve" PROVE NumberOnItsWay'
  BY DEF NumberOnItsWay
<1>s. spc = "serve"
  BY ServingSteps
<1>t. /\ NumbersInv /\ EventTypes
      /\ toWorker \in Seq(Messages) /\ Len(toWorker) \in Nat
      /\ endpoint_activation \in Nat /\ activation \in Nat
      /\ \A i \in 1 .. Len(toWorker) : toWorker[i].activation \in Nat
  <2>1. /\ NumbersInv /\ EventTypes
        /\ toWorker \in Seq(Messages)
        /\ endpoint_activation \in 0 .. MaxActivation
        /\ activation \in 0 .. MaxActivation
    BY DEF IInvActivation, TypeInv, NumbersInv, NumbersOK, LifecycleTypeOK
  <2>2. Len(toWorker) \in Nat /\ \A i \in 1 .. Len(toWorker) :
            toWorker[i] \in Messages
    BY <2>1
  <2> QED BY <2>1, <2>2, MessageType, ActivationAssumption
<1>i. /\ ~stopping
      /\ \A i \in 1 .. Len(toWorker) : toWorker[i].kind # "Quiesce"
      /\ \/ endpoint_activation = activation
         \/ \E i \in 1 .. Len(toWorker) :
               /\ toWorker[i].kind = "Enable"
               /\ toWorker[i].activation = endpoint_activation
  BY <1>s DEF IInvActivation, NumberOnItsWay
<1>1. CASE Silent
  BY <1>1, <1>i, SilentFrame DEF NumberOnItsWay, numberVars, lifecycleVars
<1>2. CASE ForwardBusEvent
  <2> DEFINE m == Message(Head(batch), Advanced(Head(batch)))
  <2>1. /\ toWorker' = Append(toWorker, m)
        /\ UNCHANGED <<activation, stopping>>
        /\ endpoint_activation' = Advanced(Head(batch))
        /\ Head(batch) \in BusEvents
    BY <1>2 DEF ForwardBusEvent, lifecycleVars
  <2>2. /\ m.kind = Head(batch) /\ m.activation = endpoint_activation'
        /\ m.kind # "Quiesce"
    BY <2>1 DEF Message, BusEvents
  <2>3. m.kind # "Enable" => endpoint_activation' = endpoint_activation
    BY <1>t, <2>1, <2>2 DEF Advanced, Fresh
  <2> HIDE DEF m
  <2>4. /\ Len(toWorker') = Len(toWorker) + 1
        /\ toWorker'[Len(toWorker) + 1] = m
        /\ \A i \in 1 .. Len(toWorker) : toWorker'[i] = toWorker[i]
    BY <1>t, <2>1
  <2>5. \A i \in 1 .. Len(toWorker') : toWorker'[i].kind # "Quiesce"
    BY <1>t, <1>i, <2>2, <2>4
  <2>6. CASE m.kind = "Enable"
    <3>1. Len(toWorker) + 1 \in 1 .. Len(toWorker')
      BY <1>t, <2>4
    <3> QED BY <1>i, <2>1, <2>2, <2>4, <2>5, <2>6, <3>1 DEF NumberOnItsWay
  <2>7. CASE m.kind # "Enable"
    <3>1. \A i \in 1 .. Len(toWorker) : i \in 1 .. Len(toWorker')
      BY <1>t, <2>4
    <3> QED BY <1>i, <2>1, <2>3, <2>4, <2>5, <2>7, <3>1 DEF NumberOnItsWay
  <2> QED BY <2>6, <2>7
<1>3. CASE SendsQuiesce
  BY <1>3 DEF SendsQuiesce
<1>4. CASE ControlTakes
  <2>1. /\ toWorker # <<>> /\ toWorker' = Tail(toWorker)
        /\ UNCHANGED endpoint_activation
    BY <1>4, <1>t, ControlFrame DEF NumbersInv
  <2>2. /\ Len(toWorker') = Len(toWorker) - 1 /\ Len(toWorker) > 0
        /\ \A i \in 1 .. Len(toWorker') : toWorker'[i] = toWorker[i + 1]
        /\ Head(toWorker) = toWorker[1]
    BY <1>t, <2>1
  <2>3. 1 \in 1 .. Len(toWorker)
        /\ \A i \in 1 .. Len(toWorker') : i + 1 \in 1 .. Len(toWorker)
    BY <1>t, <2>2
  <2>4. \A i \in 1 .. Len(toWorker') : toWorker'[i].kind # "Quiesce"
    BY <1>i, <2>2, <2>3
  <2>5. /\ activation <= toWorker[1].activation
        /\ toWorker[1].activation <= endpoint_activation
        /\ activation <= endpoint_activation
    BY <1>i, <1>t, <2>3 DEF NumbersInv, ActivationsInOrder, QueueInOrder
  <2>6. /\ ~stopping'
        /\ activation' = IF toWorker[1].kind = "Enable"
                               /\ toWorker[1].activation > activation
                         THEN toWorker[1].activation ELSE activation
    <3>1. CASE toWorker[1].kind = "Enable"
      BY <1>4, <1>i, <2>2, <3>1 DEF ControlTakes, Activates
    <3>2. CASE toWorker[1].kind # "Enable"
      BY <1>4, <1>i, <2>2, <2>3, <3>2 DEF ControlTakes, lifecycleVars
    <3> QED BY <3>1, <3>2
  <2>7. CASE endpoint_activation = activation
    BY <1>t, <2>1, <2>3, <2>4, <2>5, <2>6, <2>7 DEF NumberOnItsWay
  <2>8. ASSUME NEW i \in 1 .. Len(toWorker), toWorker[i].kind = "Enable",
               toWorker[i].activation = endpoint_activation
        PROVE  NumberOnItsWay'
    <3>1. CASE i = 1
      BY <1>t, <2>1, <2>3, <2>4, <2>5, <2>6, <2>8, <3>1 DEF NumberOnItsWay
    <3>2. CASE i # 1
      <4>1. i - 1 \in 1 .. Len(toWorker') /\ (i - 1) + 1 = i
        BY <1>t, <2>2, <2>8, <3>2
      <4>2. toWorker'[i - 1] = toWorker[i]
        BY <2>2, <4>1
      <4> QED BY <2>1, <2>4, <2>6, <2>8, <4>1, <4>2 DEF NumberOnItsWay
    <3> QED BY <3>1, <3>2
  <2> QED BY <1>i, <2>7, <2>8
<1>5. ASSUME NEW h \in Helpers, HelperMove(h)
      PROVE  NumberOnItsWay'
  <2>1. UNCHANGED <<activation, stopping, endpoint_activation, toWorker>>
    BY <1>5, <1>t, HelperFrame DEF NumbersInv
  <2> QED BY <1>i, <2>1 DEF NumberOnItsWay
<1> QED
  BY <1>1, <1>2, <1>3, <1>4, <1>5, Sorted DEF HelperMove

LEMMA ParkFactsStep ==
    ASSUME IInvActivation, [Next]_vars
    PROVE  ParkFacts'
<1>t. /\ NumbersOK /\ EventTypes
      /\ hpc \in [Helpers -> HelperPoints]
      /\ observed \in [Helpers -> 0 .. MaxActivation]
      /\ DOMAIN io = Helpers
  BY DEF IInvActivation, TypeInv, NumbersInv, NumbersOK, LifecycleTypeOK,
     EventTypes
<1>i. ParkFacts
  BY DEF IInvActivation
<1>1. ASSUME UNCHANGED lifecycleVars,
             \A g \in Helpers : io[g] = "none" => io'[g] = "none"
      PROVE  ParkFacts'
  BY <1>1, <1>i DEF ParkFacts, lifecycleVars, Newer
<1>2. ASSUME NEW on \in BOOLEAN, IoWith(on), NEW g \in Helpers,
             io[g] = "none"
      PROVE  io'[g] = "none"
  BY <1>2 DEF IoWith
<1>3. CASE HostStep \/ ActivationOverflows \/ StartsTeardown
  BY <1>1, <1>2, <1>3 DEF HostStep, HostEnables, HostEnablesAgain,
     HostDisables, HostSuspends, ActivationOverflows, StartsTeardown, Unbinds
<1>4. CASE ReadEp0 \/ ForwardBusEvent \/ SendsQuiesce \/ StopsWaiting
              \/ ControlReplies \/ Done \/ UNCHANGED vars
  BY <1>1, <1>4 DEF ReadEp0, ForwardBusEvent, SendsQuiesce, StopsWaiting,
     ControlReplies, Done, vars
<1>5. CASE ControlTakes
  <2>1. UNCHANGED io
    BY <1>5 DEF ControlTakes
  <2>2. CASE UNCHANGED lifecycleVars
    BY <1>1, <2>1, <2>2
  <2>3. CASE NotifiesAll
    BY <1>i, <1>t, <2>1, <2>3 DEF NotifiesAll, ParkFacts
  <2>4. UNCHANGED lifecycleVars \/ NotifiesAll
    BY <1>5 DEF ControlTakes, Activates, Stops, lifecycleVars
  <2> QED BY <2>2, <2>3, <2>4
<1>6. ASSUME NEW h \in Helpers, HelperMove(h)
      PROVE  ParkFacts'
  <2>1. UNCHANGED activation
    BY <1>6, <1>t, HelperFrame
  <2>2. CASE HelperParks(h)
    BY <1>i, <1>t, <2>1, <2>2 DEF HelperParks, WaitIsCalled, ParkFacts, Newer
  <2>3. CASE HelperWaits(h)
    BY <1>i, <1>t, <2>1, <2>3 DEF HelperWaits, WaitParks, WaitReturnsNone,
       ParkFacts, Newer
  <2>4. CASE HelperResumes(h)
    BY <1>i, <1>t, <2>1, <2>4 DEF HelperResumes, WaitReturns, ParkFacts, Newer
  <2>5. CASE HelperWakes(h)
    BY <1>i, <1>t, <2>1, <2>5 DEF HelperWakes, SpuriousWakeup, ParkFacts,
       Newer
  <2> QED BY <1>6, <2>2, <2>3, <2>4, <2>5 DEF HelperMove
<1>7. ASSUME NEW h \in Helpers, HelperIssues(h) \/ IoCompletes(h)
      PROVE  ParkFacts'
  BY <1>1, <1>7, <1>t DEF HelperIssues, IoCompletes
<1> QED
  BY <1>3, <1>4, <1>5, <1>6, <1>7
     DEF Next, SupervisorStep, ControlStep, HelperStep, HelperMove

LEMMA SpentFactsStep ==
    ASSUME IInvActivation, [Next]_vars
    PROVE  SpentFacts'
<1> SUFFICES ASSUME spc' = "serve", ~lost', NEW h \in Helpers, Spent(h)'
             PROVE  \/ observed'[h] < endpoint_activation'
                    \/ ~endpoints_enabled'
                    \/ Has(batch', "Disable") \/ Has(events', "Disable")
  BY DEF SpentFacts
<1>s. /\ spc = "serve"
      /\ HostStep \/ ReadEp0 \/ ForwardBusEvent \/ UNCHANGED eventVars
  BY ServingSteps
<1>t. /\ EventTypes /\ NumbersOK
      /\ endpoint_activation \in Nat /\ observed[h] \in Nat
      /\ lost \in BOOLEAN
      /\ observed \in [Helpers -> 0 .. MaxActivation]
      /\ DOMAIN io = Helpers
  BY ActivationAssumption
     DEF IInvActivation, TypeInv, NumbersInv, NumbersOK, LifecycleTypeOK,
         EventTypes
<1>i. ~lost /\ Spent(h) =>
          \/ observed[h] < endpoint_activation
          \/ ~endpoints_enabled
          \/ Has(batch, "Disable") \/ Has(events, "Disable")
  BY <1>s DEF IInvActivation, SpentFacts
<1>1. CASE HostEnables \/ HostEnablesAgain
  <2>1. UNCHANGED <<observed, endpoint_activation, endpoints_enabled, batch>>
    BY <1>1 DEF HostEnables, HostEnablesAgain, lifecycleVars, supervisorVars
  <2>2. Queue("Enable")
    BY <1>1 DEF HostEnables, HostEnablesAgain
  <2>3. ~lost /\ ~Has(events, "Disable")
    BY <1>t, <2>2, LifecycleMerged
  <2>4. Spent(h)
    BY <1>1, <1>t DEF HostEnables, HostEnablesAgain, IoWith, Spent
  <2> QED BY <1>i, <2>1, <2>3, <2>4
<1>2. CASE HostDisables
  <2>1. Queue("Disable")
    BY <1>2 DEF HostDisables
  <2> QED BY <1>t, <2>1, LifecycleMerged
<1>3. CASE HostSuspends
  <2> DEFINE e == IF suspended THEN "Resume" ELSE "Suspend"
  <2>1. /\ UNCHANGED <<observed, endpoint_activation, endpoints_enabled,
                       batch, io>>
        /\ e \in Power /\ Queue(e)
    BY <1>3 DEF HostSuspends, lifecycleVars, supervisorVars, Power
  <2>2. ~lost /\ (Has(events', "Disable") <=> Has(events, "Disable"))
    BY <1>t, <2>1, PowerMerged
  <2>3. Spent(h)
    BY <2>1 DEF Spent
  <2> QED BY <1>i, <2>1, <2>2, <2>3
<1>4. CASE ReadEp0
  <2>1. /\ batch = <<>> /\ batch' = events
        /\ UNCHANGED <<observed, endpoint_activation, endpoints_enabled, lost,
                       io>>
    BY <1>4 DEF ReadEp0, lifecycleVars
  <2>2. ~Has(batch, "Disable")
    BY <2>1, EmptyHasNothing
  <2>3. Spent(h) /\ ~lost
    BY <2>1 DEF Spent
  <2> QED BY <1>i, <2>1, <2>2, <2>3
<1>5. CASE ForwardBusEvent
  <2>1. /\ batch # <<>> /\ batch' = Tail(batch)
        /\ endpoint_activation' = Advanced(Head(batch))
        /\ endpoints_enabled' = EnabledAfter(Head(batch))
        /\ UNCHANGED <<observed, events, lost, io>>
    BY <1>5 DEF ForwardBusEvent, kernelVars, lifecycleVars
  <2>2. Has(batch, "Disable") <=>
            "Disable" = Head(batch) \/ Has(Tail(batch), "Disable")
    BY <1>t, <2>1, BatchForwarded DEF EventTypes
  <2>3. Spent(h) /\ ~lost
    BY <2>1 DEF Spent
  <2>4. CASE observed[h] < endpoint_activation
    BY <1>t, <2>1, <2>4 DEF Advanced
  <2>5. CASE ~endpoints_enabled /\ Head(batch) = "Enable"
    <3>1. endpoint_activation' = endpoint_activation + 1
      BY <2>1, <2>5 DEF Advanced, Fresh
    <3>2. observed[h] <= endpoint_activation
      <4>1. /\ \A g \in Helpers : observed[g] <= activation
            /\ activation <= endpoint_activation /\ activation \in Nat
        BY ActivationAssumption
           DEF IInvActivation, TypeInv, NumbersInv, ActivationsInOrder,
               NumbersOK, LifecycleTypeOK
      <4> QED BY <1>t, <4>1
    <3> QED BY <1>t, <2>1, <3>1, <3>2
  <2>6. CASE ~endpoints_enabled /\ Head(batch) # "Enable"
    BY <2>1, <2>6 DEF EnabledAfter
  <2>7. CASE Has(batch, "Disable")
    BY <2>1, <2>2, <2>7 DEF EnabledAfter
  <2>8. CASE Has(events, "Disable")
    BY <2>1, <2>8
  <2> QED BY <1>i, <2>3, <2>4, <2>5, <2>6, <2>7, <2>8
<1>6. ASSUME UNCHANGED eventVars, UNCHANGED io \/ Spent(h),
             observed'[h] = observed[h]
      PROVE  \/ observed'[h] < endpoint_activation'
             \/ ~endpoints_enabled'
             \/ Has(batch', "Disable") \/ Has(events', "Disable")
  <2>1. Spent(h)
    BY <1>6 DEF Spent
  <2>2. UNCHANGED <<lost, events, batch, endpoints_enabled,
                    endpoint_activation>>
    BY <1>6 DEF eventVars
  <2> QED BY <1>6, <1>i, <2>1, <2>2
<1>7. CASE ControlStep \/ UNCHANGED vars
  <2>1. UNCHANGED eventVars /\ UNCHANGED <<io, observed>>
    BY <1>7, <1>t, ControlFrame DEF ControlStep, ControlTakes, ControlReplies,
       vars, eventVars, kernelVars, supervisorVars, lifecycleVars
  <2> QED BY <1>6, <2>1
<1>8. ASSUME NEW g \in Helpers,
             HelperStep(g) \/ IoCompletes(g) \/ HelperWakes(g)
      PROVE  \/ observed'[h] < endpoint_activation'
             \/ ~endpoints_enabled'
             \/ Has(batch', "Disable") \/ Has(events', "Disable")
  <2>1. UNCHANGED eventVars
    BY <1>8 DEF HelperStep, HelperParks, HelperWaits, HelperResumes,
       HelperIssues, IoCompletes, HelperWakes, notHelper, kernelVars,
       supervisorVars, eventVars
  <2>2. CASE HelperParks(g)
    <3>1. Spent(h) /\ UNCHANGED observed
      BY <1>t, <2>2 DEF HelperParks, WaitIsCalled, Spent
    <3> QED BY <1>6, <2>1, <3>1
  <2>3. CASE HelperWaits(g) \/ HelperWakes(g)
    <3>1. UNCHANGED <<io, observed>>
      BY <2>3 DEF HelperWaits, WaitParks, WaitReturnsNone, HelperWakes,
         SpuriousWakeup
    <3> QED BY <1>6, <2>1, <3>1
  <2>4. CASE HelperResumes(g)
    <3>1. g # h
      BY <1>t, <2>4 DEF HelperResumes, Spent
    <3>2. Spent(h) /\ observed'[h] = observed[h]
      BY <1>t, <2>4, <3>1 DEF HelperResumes, WaitReturns, Spent
    <3> QED BY <1>6, <2>1, <3>2
  <2>5. CASE HelperIssues(g) \/ IoCompletes(g)
    <3>1. g # h
      BY <1>t, <2>5 DEF HelperIssues, IoCompletes, Spent
    <3>2. Spent(h) /\ UNCHANGED observed
      BY <1>t, <2>5, <3>1 DEF HelperIssues, IoCompletes, Spent, lifecycleVars
    <3> QED BY <1>6, <2>1, <3>2
  <2> QED BY <1>8, <2>2, <2>3, <2>4, <2>5 DEF HelperStep
<1>9. \/ ReadEp0 \/ ForwardBusEvent \/ HostStep \/ ControlStep
      \/ UNCHANGED vars
      \/ \E g \in Helpers : HelperStep(g) \/ IoCompletes(g) \/ HelperWakes(g)
  <2>1. CASE ActivationOverflows \/ StartsTeardown \/ SendsQuiesce
                \/ StopsWaiting \/ Done
    BY <1>s, <2>1 DEF ActivationOverflows, StartsTeardown, Unbinds,
       SendsQuiesce, StopsWaiting, Done
  <2> QED BY <2>1 DEF Next, SupervisorStep
<1> QED
  BY <1>1, <1>2, <1>3, <1>4, <1>5, <1>7, <1>8, <1>9 DEF HostStep

LEMMA IInvActivationInit == Init => IInvActivation
<1> SUFFICES ASSUME Init PROVE IInvActivation
  OBVIOUS
<1>1. TypeInv
  BY NumbersInvInit, EventTypesInit DEF TypeInv
<1>2. /\ events = <<"Bind">> /\ batch = <<>> /\ toWorker = <<>>
      /\ configured = FALSE /\ endpoints_enabled = FALSE
      /\ endpoint_activation = 0 /\ enables = 0
      /\ activation = 0 /\ stopping = FALSE
      /\ hpc = [h \in Helpers |-> "outside"]
  BY DEF Init, LifecycleInit
<1>3. /\ Len(events) = 1 /\ events[1] = "Bind" /\ Len(batch) = 0
      /\ Len(toWorker) = 0
  BY <1>2
<1>4. ~Has(events, "Enable") /\ Has(events, "Bind")
  BY <1>3 DEF Has
<1>5. \A x : ~Has(batch, x)
  BY <1>2, EmptyHasNothing
<1>6. MergeFacts
  <2>1. Single(events) /\ Single(batch)
    BY <1>3 DEF Single
  <2> QED BY <1>2, <1>4, <2>1 DEF MergeFacts, EnabledBy
<1>7. CountFacts
  BY <1>2, <1>4, <1>5 DEF CountFacts, Due
<1>8. NumberOnItsWay /\ ParkFacts /\ SpentFacts
  BY <1>2, <1>3 DEF NumberOnItsWay, ParkFacts, SpentFacts
<1> QED BY <1>1, <1>6, <1>7, <1>8 DEF IInvActivation

\* The inductive invariant behind the next three theorems.
THEOREM ActivationInvariant == Spec => []IInvActivation
<1>1. IInvActivation /\ [Next]_vars => IInvActivation'
  BY TypeInvStep, MergeFactsStep, NumberOnItsWayStep, ParkFactsStep,
     SpentFactsStep DEF IInvActivation
<1> QED BY <1>1, IInvActivationInit, PTL DEF Spec

\* A number is given out for a configuration the host made, and one only,
\* whatever the kernel merged in between.
THEOREM NumbersAreReal == Spec => []ActivationsAreReal
<1>1. IInvActivation => ActivationsAreReal
  BY DEF IInvActivation, CountFacts, ActivationsAreReal
<1> QED BY <1>1, ActivationInvariant, PTL

\* Once it has read everything the supervisor knows whether its endpoints are
\* enabled.
THEOREM BeliefSettles == Spec => []EnabledMatchesKernel
<1>1. IInvActivation => EnabledMatchesKernel
  <2> SUFFICES ASSUME IInvActivation, spc = "serve", events = <<>>,
                      batch = <<>>
               PROVE  endpoints_enabled <=> configured
    BY DEF EnabledMatchesKernel
  <2>1. (\A x : ~Has(events, x)) /\ (\A x : ~Has(batch, x))
    BY EmptyHasNothing
  <2>2. configured <=> EnabledBy(events, EnabledNext)
    BY DEF IInvActivation, MergeFacts
  <2>3. EnabledBy(events, EnabledNext) <=> EnabledNext
    BY <2>1 DEF EnabledBy
  <2>4. EnabledNext <=> endpoints_enabled
    BY <2>1 DEF EnabledNext, EnabledBy
  <2> QED BY <2>2, <2>3, <2>4
<1> QED BY <1>1, ActivationInvariant, PTL

\* No helper is left parked beside an enabled endpoint unless a Disable was
\* discarded unread.
THEOREM ParkedAfterLoss == Spec => []ParkedOnlyAfterLoss
<1>1. IInvActivation => ParkedOnlyAfterLoss
  <2> SUFFICES ASSUME IInvActivation, Settled, spc = "serve", configured,
                      ~lost, NEW h \in Helpers, hpc[h] = "parked"
               PROVE  FALSE
    BY DEF ParkedOnlyAfterLoss
  <2>1. events = <<>> /\ batch = <<>> /\ toWorker = <<>>
    BY DEF Settled
  <2>2. (\A x : ~Has(events, x)) /\ (\A x : ~Has(batch, x))
    BY <2>1, EmptyHasNothing
  <2>3. endpoints_enabled
    BY <2>2 DEF IInvActivation, MergeFacts, EnabledBy, EnabledNext
  <2>4. Spent(h) /\ ~Newer(h)
    BY DEF IInvActivation, ParkFacts, Spent
  <2>5. observed[h] < endpoint_activation
    BY <2>2, <2>3, <2>4 DEF IInvActivation, SpentFacts
  <2>6. Len(toWorker) = 0
    BY <2>1
  <2>7. endpoint_activation = activation
    BY <2>6 DEF IInvActivation, NumberOnItsWay
  <2>8. activation \in Nat /\ observed[h] \in Nat
    BY ActivationAssumption
       DEF IInvActivation, TypeInv, NumbersInv, NumbersOK, LifecycleTypeOK
  <2> QED BY <2>4, <2>5, <2>7, <2>8 DEF Newer
<1> QED BY <1>1, ActivationInvariant, PTL

=============================================================================
