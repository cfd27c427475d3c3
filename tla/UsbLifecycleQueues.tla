------------------------- MODULE UsbLifecycleQueues -------------------------
(***************************************************************************)
(* What is in flight on the channel: predicates on the two queues, and     *)
(* what sending, taking, replying and receiving do to them.                *)
(***************************************************************************)
EXTENDS UsbLifecycleTypes

-----------------------------------------------------------------------------
\* A record of kind k is in the queue; at most one is; it can only be the
\* newest; each carries generation g.
Holds(s, k) == \E i \in 1 .. Len(s) : s[i].kind = k
Once(s, k) ==
    \A i, j \in 1 .. Len(s) : s[i].kind = k /\ s[j].kind = k => i = j
AtEnd(s, k) == \A i \in 1 .. Len(s) : s[i].kind = k => i = Len(s)
Carries(s, k, g) == \A i \in 1 .. Len(s) : s[i].kind = k => s[i].generation = g

\* What is on its way to the worker, and what it has answered.
QuiesceQueued == Holds(toWorker, "Quiesce")
QuiesceLast == AtEnd(toWorker, "Quiesce")
BootQueued == Holds(toWorker, "InitialResources")
EndpointsQueued == Holds(toWorker, "UsbEndpoints")
EndpointsLast == AtEnd(toWorker, "UsbEndpoints")
EndpointsCurrent == Carries(toWorker, "UsbEndpoints", generation)
QuiescedAnswer == Holds(toSup, "Quiesced")
QuiescedOnce == Once(toSup, "Quiesced")
ServingAnswer == Holds(toSup, "Serving")
ServingOnce == Once(toSup, "Serving")

-----------------------------------------------------------------------------
(* Sequences of records.                                                   *)

LEMMA EmptyQueue ==
    ASSUME NEW k, NEW g
    PROVE  ~Holds(<<>>, k) /\ Once(<<>>, k) /\ AtEnd(<<>>, k) /\ Carries(<<>>, k, g)
BY DEF Holds, Once, AtEnd, Carries

LEMMA AppendQueue ==
    ASSUME NEW s \in Seq(Records), NEW m \in Records, NEW k, NEW g
    PROVE  /\ Holds(Append(s, m), k) <=> Holds(s, k) \/ m.kind = k
           /\ Once(Append(s, m), k) <=> Once(s, k) /\ ~(m.kind = k /\ Holds(s, k))
           /\ ~Holds(s, k) => AtEnd(Append(s, m), k)
           /\ Carries(Append(s, m), k, g) <=> Carries(s, k, g) /\ (m.kind = k => m.generation = g)
<1> DEFINE t == Append(s, m)
<1>1. /\ Len(s) \in Nat /\ Len(t) = Len(s) + 1 /\ t[Len(t)] = m
      /\ \A i \in 1 .. Len(s) : t[i] = s[i]
  OBVIOUS
<1> HIDE DEF t
<1>2. Holds(t, k) <=> Holds(s, k) \/ m.kind = k
  BY <1>1 DEF Holds
<1>3. Once(t, k) <=> Once(s, k) /\ ~(m.kind = k /\ Holds(s, k))
  BY <1>1 DEF Holds, Once
<1>4. ~Holds(s, k) => AtEnd(t, k)
  BY <1>1 DEF Holds, AtEnd
<1>5. Carries(t, k, g) <=> Carries(s, k, g) /\ (m.kind = k => m.generation = g)
  BY <1>1 DEF Carries
<1> QED BY <1>2, <1>3, <1>4, <1>5 DEF t

LEMMA TailQueue ==
    ASSUME NEW s \in Seq(Records), s # <<>>, NEW k, NEW g
    PROVE  /\ Holds(s, k) <=> Holds(Tail(s), k) \/ Head(s).kind = k
           /\ Once(s, k) => Once(Tail(s), k)
           /\ Once(s, k) /\ Head(s).kind = k => ~Holds(Tail(s), k)
           /\ AtEnd(s, k) => AtEnd(Tail(s), k)
           /\ AtEnd(s, k) /\ Head(s).kind = k => Tail(s) = <<>>
           /\ Carries(s, k, g) => /\ Carries(Tail(s), k, g)
                                  /\ Head(s).kind = k => Head(s).generation = g
<1> DEFINE t == Tail(s)
<1>1. /\ Len(s) \in Nat \ {0} /\ Len(t) = Len(s) - 1 /\ Head(s) = s[1]
      /\ \A i \in 1 .. Len(t) : t[i] = s[i + 1]
      /\ Len(t) = 0 => t = <<>>
  OBVIOUS
<1> HIDE DEF t
<1>2. Holds(s, k) <=> Holds(t, k) \/ Head(s).kind = k
  <2>1. ASSUME Holds(s, k) PROVE Holds(t, k) \/ Head(s).kind = k
    <3>1. PICK i \in 1 .. Len(s) : s[i].kind = k
      BY <2>1 DEF Holds
    <3>2. CASE i = 1
      BY <1>1, <3>1, <3>2
    <3>3. CASE i # 1
      <4>1. i - 1 \in 1 .. Len(t) /\ t[i - 1] = s[i]
        BY <1>1, <3>3
      <4> QED BY <3>1, <4>1 DEF Holds
    <3> QED BY <3>2, <3>3
  <2> QED BY <1>1, <2>1 DEF Holds
<1>3. Once(s, k) => Once(t, k)
  BY <1>1 DEF Once
<1>4. Once(s, k) /\ Head(s).kind = k => ~Holds(t, k)
  BY <1>1 DEF Holds, Once
<1>5. AtEnd(s, k) => AtEnd(t, k)
  BY <1>1 DEF AtEnd
<1>6. AtEnd(s, k) /\ Head(s).kind = k => t = <<>>
  BY <1>1 DEF AtEnd
<1>7. Carries(s, k, g) =>
          Carries(t, k, g) /\ (Head(s).kind = k => Head(s).generation = g)
  BY <1>1 DEF Carries
<1> QED BY <1>2, <1>3, <1>4, <1>5, <1>6, <1>7 DEF t

-----------------------------------------------------------------------------
\* The same, for the queues of a step.
LEMMA SameToWorker ==
    ASSUME UNCHANGED toWorker
    PROVE  /\ QuiesceQueued' <=> QuiesceQueued
           /\ QuiesceLast' <=> QuiesceLast
           /\ BootQueued' <=> BootQueued
           /\ EndpointsQueued' <=> EndpointsQueued
           /\ EndpointsLast' <=> EndpointsLast
           /\ UNCHANGED generation => (EndpointsCurrent' <=> EndpointsCurrent)
BY DEF QuiesceQueued, QuiesceLast, BootQueued, EndpointsQueued,
       EndpointsLast, EndpointsCurrent, Holds, AtEnd, Carries

LEMMA SameToSup ==
    ASSUME UNCHANGED toSup
    PROVE  /\ QuiescedAnswer' <=> QuiescedAnswer
           /\ QuiescedOnce' <=> QuiescedOnce
           /\ ServingAnswer' <=> ServingAnswer
           /\ ServingOnce' <=> ServingOnce
BY DEF QuiescedAnswer, QuiescedOnce, ServingAnswer, ServingOnce, Holds, Once

LEMMA NoToWorker ==
    toWorker' = <<>> => ~QuiesceQueued' /\ ~BootQueued' /\ ~EndpointsQueued'
BY DEF QuiesceQueued, BootQueued, EndpointsQueued, Holds

LEMMA NoToSup ==
    toSup' = <<>> => ~QuiescedAnswer' /\ ~ServingAnswer' /\ QuiescedOnce'
BY DEF QuiescedAnswer, QuiescedOnce, ServingAnswer, Holds, Once

LEMMA Sent ==
    ASSUME ChanOK, NEW m \in Records, Send(m)
    PROVE  /\ QuiesceQueued' <=> QuiesceQueued \/ m.kind = "Quiesce"
           /\ BootQueued' <=> BootQueued \/ m.kind = "InitialResources"
           /\ EndpointsQueued' <=> EndpointsQueued \/ m.kind = "UsbEndpoints"
           /\ ~QuiesceQueued => QuiesceLast'
           /\ ~EndpointsQueued => EndpointsLast'
           /\ ~EndpointsQueued /\ UNCHANGED generation
                  /\ m.generation = generation => EndpointsCurrent'
           /\ ~PeerClosed /\ UNCHANGED toSup
<1>1. toWorker \in Seq(Records) /\ toWorker' = Append(toWorker, m)
  BY DEF ChanOK, Send
<1>2. /\ QuiesceQueued' <=> QuiesceQueued \/ m.kind = "Quiesce"
      /\ BootQueued' <=> BootQueued \/ m.kind = "InitialResources"
      /\ EndpointsQueued' <=> EndpointsQueued \/ m.kind = "UsbEndpoints"
  <2>1. \A k : Holds(toWorker', k) <=> Holds(toWorker, k) \/ m.kind = k
    BY <1>1, AppendQueue
  <2>2. /\ QuiesceQueued' <=> Holds(toWorker', "Quiesce")
        /\ BootQueued' <=> Holds(toWorker', "InitialResources")
        /\ EndpointsQueued' <=> Holds(toWorker', "UsbEndpoints")
    BY DEF QuiesceQueued, BootQueued, EndpointsQueued, Holds
  <2> QED BY <2>1, <2>2 DEF QuiesceQueued, BootQueued, EndpointsQueued
<1>3. ~QuiesceQueued => QuiesceLast'
  <2>1. ~Holds(toWorker, "Quiesce") => AtEnd(toWorker', "Quiesce")
    BY <1>1, AppendQueue
  <2>2. QuiesceLast' <=> AtEnd(toWorker', "Quiesce")
    BY DEF QuiesceLast, AtEnd
  <2> QED BY <2>1, <2>2 DEF QuiesceQueued
<1>4. ~EndpointsQueued => EndpointsLast'
  <2>1. ~Holds(toWorker, "UsbEndpoints") => AtEnd(toWorker', "UsbEndpoints")
    BY <1>1, AppendQueue
  <2>2. EndpointsLast' <=> AtEnd(toWorker', "UsbEndpoints")
    BY DEF EndpointsLast, AtEnd
  <2> QED BY <2>1, <2>2 DEF EndpointsQueued
<1>5. ASSUME ~EndpointsQueued, UNCHANGED generation, m.generation = generation
      PROVE  EndpointsCurrent'
  <2>1. Carries(toWorker, "UsbEndpoints", generation)
    BY <1>5 DEF EndpointsQueued, Holds, Carries
  <2>2. Carries(toWorker', "UsbEndpoints", generation)
    BY <1>1, <1>5, <2>1, AppendQueue
  <2>3. EndpointsCurrent' <=> Carries(toWorker', "UsbEndpoints", generation')
    BY DEF EndpointsCurrent, Carries
  <2> QED BY <1>5, <2>2, <2>3
<1>6. ~PeerClosed /\ UNCHANGED toSup
  BY DEF Send, CanSend
<1> QED BY <1>2, <1>3, <1>4, <1>5, <1>6

LEMMA Taken ==
    ASSUME ChanOK, NEW k, Takes(k)
    PROVE  /\ QuiesceQueued <=> QuiesceQueued' \/ k = "Quiesce"
           /\ BootQueued <=> BootQueued' \/ k = "InitialResources"
           /\ EndpointsQueued <=> EndpointsQueued' \/ k = "UsbEndpoints"
           /\ QuiesceLast => QuiesceLast'
           /\ QuiesceLast /\ k = "Quiesce" => toWorker' = <<>>
           /\ Len(toWorker) = 1 => toWorker' = <<>>
           /\ EndpointsLast => EndpointsLast'
           /\ EndpointsLast /\ k = "UsbEndpoints" => toWorker' = <<>>
           /\ EndpointsCurrent /\ UNCHANGED generation => EndpointsCurrent'
           /\ EndpointsCurrent /\ k = "UsbEndpoints" =>
                  Head(toWorker).generation = generation
           /\ ~PeerClosed /\ toWorker # <<>> /\ wproc = "running"
<1>1. /\ toWorker \in Seq(Records) /\ toWorker # <<>>
      /\ toWorker' = Tail(toWorker) /\ Head(toWorker).kind = k
  BY DEF ChanOK, Takes
<1>2. \A j : Holds(toWorker, j) <=> Holds(toWorker', j) \/ k = j
  BY <1>1, TailQueue
<1>3. \A j : AtEnd(toWorker, j) =>
          AtEnd(toWorker', j) /\ (k = j => toWorker' = <<>>)
  BY <1>1, TailQueue
<1>4. \A j, g : Carries(toWorker, j, g) =>
          Carries(toWorker', j, g) /\ (k = j => Head(toWorker).generation = g)
  BY <1>1, TailQueue
<1>5. /\ QuiesceQueued' <=> Holds(toWorker', "Quiesce")
      /\ BootQueued' <=> Holds(toWorker', "InitialResources")
      /\ EndpointsQueued' <=> Holds(toWorker', "UsbEndpoints")
      /\ QuiesceLast' <=> AtEnd(toWorker', "Quiesce")
      /\ EndpointsLast' <=> AtEnd(toWorker', "UsbEndpoints")
      /\ EndpointsCurrent' <=> Carries(toWorker', "UsbEndpoints", generation')
  BY DEF QuiesceQueued, QuiesceLast, BootQueued, EndpointsQueued,
         EndpointsLast, EndpointsCurrent, Holds, AtEnd, Carries
<1>6. ~PeerClosed /\ toWorker # <<>> /\ wproc = "running"
  BY DEF Takes, PeerClosed
<1>7. Len(toWorker) = 1 => toWorker' = <<>>
  BY <1>1
<1> QED
  BY <1>2, <1>3, <1>4, <1>5, <1>6, <1>7
     DEF QuiesceQueued, QuiesceLast, BootQueued, EndpointsQueued,
         EndpointsLast, EndpointsCurrent

LEMMA Received ==
    ASSUME ChanOK, toSup # <<>>, toSup' = Tail(toSup)
    PROVE  /\ QuiescedAnswer <=>
                  QuiescedAnswer' \/ Head(toSup).kind = "Quiesced"
           /\ ServingAnswer <=> ServingAnswer' \/ Head(toSup).kind = "Serving"
           /\ QuiescedOnce => QuiescedOnce'
           /\ QuiescedOnce /\ Head(toSup).kind = "Quiesced" => ~QuiescedAnswer'
           /\ ServingOnce => ServingOnce'
           /\ ServingOnce /\ Head(toSup).kind = "Serving" => ~ServingAnswer'
<1>1. toSup \in Seq(Records)
  BY DEF ChanOK
<1>2. \A j : Holds(toSup, j) <=> Holds(toSup', j) \/ Head(toSup).kind = j
  BY <1>1, TailQueue
<1>3. \A j : Once(toSup, j) =>
          Once(toSup', j) /\ (Head(toSup).kind = j => ~Holds(toSup', j))
  BY <1>1, TailQueue
<1>4. /\ QuiescedAnswer' <=> Holds(toSup', "Quiesced")
      /\ ServingAnswer' <=> Holds(toSup', "Serving")
      /\ QuiescedOnce' <=> Once(toSup', "Quiesced")
      /\ ServingOnce' <=> Once(toSup', "Serving")
  BY DEF QuiescedAnswer, QuiescedOnce, ServingAnswer, ServingOnce, Holds, Once
<1> QED
  BY <1>2, <1>3, <1>4
     DEF QuiescedAnswer, QuiescedOnce, ServingAnswer, ServingOnce

LEMMA Replied ==
    ASSUME ChanOK, NEW m \in Records, Reply(m)
    PROVE  /\ QuiescedAnswer' =>
                  QuiescedAnswer \/ (control /\ m.kind = "Quiesced")
           /\ ServingAnswer' =>
                  ServingAnswer \/ (control /\ m.kind = "Serving")
           /\ QuiescedOnce /\ (m.kind = "Quiesced" => ~QuiescedAnswer) =>
                  QuiescedOnce'
           /\ ServingOnce /\ (m.kind = "Serving" => ~ServingAnswer) =>
                  ServingOnce'
           /\ ~control => UNCHANGED toSup
<1>1. CASE ~control
  BY <1>1, SameToSup DEF Reply
<1>2. CASE control
  <2>1. toSup \in Seq(Records) /\ toSup' = Append(toSup, m)
    BY <1>2 DEF ChanOK, Reply
  <2>2. \A j : Holds(toSup', j) <=> Holds(toSup, j) \/ m.kind = j
    BY <2>1, AppendQueue
  <2>3. \A j : Once(toSup, j) /\ ~(m.kind = j /\ Holds(toSup, j)) =>
            Once(toSup', j)
    BY <2>1, AppendQueue
  <2>4. /\ QuiescedAnswer' <=> Holds(toSup', "Quiesced")
        /\ ServingAnswer' <=> Holds(toSup', "Serving")
        /\ QuiescedOnce' <=> Once(toSup', "Quiesced")
        /\ ServingOnce' <=> Once(toSup', "Serving")
    BY DEF QuiescedAnswer, QuiescedOnce, ServingAnswer, ServingOnce, Holds,
           Once
  <2> QED
    BY <1>2, <2>2, <2>3, <2>4
       DEF QuiescedAnswer, QuiescedOnce, ServingAnswer, ServingOnce
<1> QED BY <1>1, <1>2

\* The records of the protocol are records, and are what they say.
LEMMA MessageFields ==
    \A k, g, r : Message(k, g, r).kind = k /\ Message(k, g, r).generation = g
BY DEF Message, Record

LEMMA SupervisorRecords ==
    ASSUME TypeOK, NEW k \in Kinds
    PROVE  /\ Message(k, generation, QuiesceId) \in Records
           /\ Message(k, generation, decl.request_id) \in Records
           /\ Message(k, generation, next_control_request) \in Records
           /\ Message(k, generation, 0) \in Records
BY DeclType, MessageType DEF QuiesceId

LEMMA AnswerRecord ==
    ASSUME ChanOK, NEW k, Takes(k), NEW j \in Kinds
    PROVE  Message(j, Head(toWorker).generation, Head(toWorker).request_id)
               \in Records
BY TakesType, MessageType

LEMMA Booted ==
    ASSUME toWorker' = <<Message("InitialResources", 0, 0)>>
    PROVE  ~QuiesceQueued' /\ ~EndpointsQueued' /\ Len(toWorker') = 1
BY DEF QuiesceQueued, EndpointsQueued, Holds, Message, Record

=============================================================================
